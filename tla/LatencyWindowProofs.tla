-------------------------- MODULE LatencyWindowProofs --------------------------
(***************************************************************************)
(* What the reports of the latency windows may rely on although the job    *)
(* sorts and sums a slice whose array the next window is appended to, for  *)
(* any samples and any number of reports.  The argument follows the place  *)
(* each element of a window will have once the exchange under way is over: *)
(* the job's own steps permute or keep these, and an append overwrites one *)
(* of them at most.                                                        *)
(***************************************************************************)
EXTENDS LatencyWindow, TLAPS, FiniteSetTheorems

Block(c) == [0..(c - 1) -> Sample \cup {0}]
Blocks == UNION {Block(c) : c \in Nat}
Indices(slice) == 0..(slice.len - 1)

\* The heap is a sequence of arrays, and the slices lie within them.
SliceOK(slice) ==
    /\ slice \in [array : Nat, len : Nat]
    /\ slice.array \in DOMAIN heap /\ slice.len <= Cap(slice.array)
HeapInv ==
    /\ heap \in Seq(Blocks)
    /\ SliceOK(latencyTracking) /\ SliceOK(latencies)
    /\ growth \in [from : [array : Nat, len : Nat], copied : Nat, sample : Sample \cup {0}]
    /\ Growing =>
        /\ growth.from = latencyTracking /\ growth.copied <= latencyTracking.len
        /\ growth.sample \in fresh
        /\ latencyTracking.len < Cap(Len(heap))
        /\ latencyTracking.array # Len(heap) /\ latencies.array # Len(heap)

\* The job's place in the sort and in the sum.
Sorting == pc \in {"compare", "exchange", "first", "second"}
PlaceInv ==
    /\ pc \in JobSteps
    /\ pos \in [i : Nat, j : Nat]
    /\ Sorting => 1 <= pos.j /\ pos.j <= pos.i /\ pos.i < latencies.len
    /\ held \in [left : Sample \cup {0}, right : Sample \cup {0}]
    /\ read \in Seq(Sample)
    /\ pc \notin {"sum", "tail"} => read = <<>>
    /\ pc = "sum" => Len(read) <= latencies.len
    /\ pc = "tail" => Len(read) = latencies.len

\* The windows are apart, and as large as the slices that hold them.
Beginning == IF Growing THEN 1 ELSE 0
WindowInv ==
    /\ fresh \subseteq Sample /\ own \subseteq Sample
    /\ raced \in [fresh : Nat, own : Nat]
    /\ Cardinality(fresh) = latencyTracking.len + Beginning
    /\ latencyTracking.len + Beginning <= MaxWindow /\ latencies.len <= MaxWindow
    /\ IF Running THEN Cardinality(own) = latencies.len /\ Cardinality(fresh) = raced.fresh
                  ELSE own = {}
    /\ fresh \cap own = {}
ReportInv ==
    /\ reports \in Seq([own : SUBSET Sample, read : Seq(Sample), raced : Nat, tail : Int])
    /\ \A k \in DOMAIN reports : reports[k].own \cap (fresh \cup own) = {}
    /\ ReportSizeIsExact /\ NoPhantom /\ DamageIsBounded /\ CleanReportIsExact

\* The next window: what each of its places holds once the copying is over.
NextAt(k) ==
    IF Growing /\ k < growth.copied THEN heap[Len(heap)][k]
    ELSE heap[latencyTracking.array][k]
NextLeft ==
    {NextAt(k) : k \in Indices(latencyTracking)} \cup (IF Growing THEN {growth.sample} ELSE {})
NextInv ==
    /\ NextLeft \subseteq Used
    /\ Cardinality(fresh \ NextLeft) <= raced.fresh

\* The job's window: what each of its places holds once the exchange under way is over, or
\* what the sum has read there.
OwnAt(k) ==
    IF pc \in {"sum", "tail"} /\ k < Len(read) THEN read[k + 1]
    ELSE IF pc = "first" /\ k = pos.j THEN held.left
    ELSE IF pc \in {"first", "second"} /\ k = pos.j - 1 THEN held.right
    ELSE At(k)
OwnLeft == {OwnAt(k) : k \in Indices(latencies)}
OwnInv ==
    Running =>
        /\ OwnLeft \subseteq Used
        /\ \A k \in Indices(latencies) : At(k) \in Used
        /\ Cardinality(own \ OwnLeft) <= raced.own

\* Where the sort is when no append met the job: the places up to pos.i are in order, but for
\* the one that goes down, which is less than those it has passed.
Down == IF pc \in {"first", "second"} THEN pos.j - 1 ELSE pos.j
SortInv ==
    Running /\ raced.own = 0 =>
        /\ ~Growing
        /\ Sorting =>
            /\ \A a, b \in 0..pos.i : a < b /\ a # Down /\ b # Down => OwnAt(a) < OwnAt(b)
            /\ \A b \in 0..pos.i : Down < b => OwnAt(Down) < OwnAt(b)
            /\ pc = "exchange" => OwnAt(pos.j) < OwnAt(pos.j - 1)
        /\ ~Sorting =>
            /\ \A a, b \in Indices(latencies) : a < b => OwnAt(a) < OwnAt(b)
            /\ \A k \in Indices(latencies) : At(k) = OwnAt(k)

Inv == HeapInv /\ PlaceInv /\ WindowInv /\ ReportInv /\ NextInv /\ OwnInv /\ SortInv

--------------------------------------------------------------------------------
(* Arrays.                                                                 *)

\* A block of c elements has the indices below c.
LEMMA BlockCap ==
    ASSUME NEW c \in Nat, NEW b \in Block(c)
    PROVE  /\ Cardinality(DOMAIN b) = c /\ DOMAIN b = 0..(c - 1)
           /\ \A k \in 0..(c - 1) : b[k] \in Sample \cup {0}
<1>1. DOMAIN b = 0..(c - 1) /\ \A k \in 0..(c - 1) : b[k] \in Sample \cup {0}
  BY DEF Block
<1>2. Cardinality(0..(c - 1)) = c
  <2>1. c - 1 \in Int /\ 0 \in Int
    OBVIOUS
  <2>2. Cardinality(0..(c - 1)) = IF 0 > c - 1 THEN 0 ELSE (c - 1) - 0 + 1
    BY ONLY <2>1, FS_Interval
  <2> QED BY <2>2
<1> QED BY <1>1, <1>2

\* What the capacity of an array says of it.
LEMMA Layout ==
    ASSUME heap \in Seq(Blocks), NEW g \in DOMAIN heap
    PROVE  /\ Cap(g) \in Nat /\ DOMAIN heap[g] = 0..(Cap(g) - 1) /\ heap[g] \in Block(Cap(g))
           /\ \A k \in 0..(Cap(g) - 1) : heap[g][k] \in Sample \cup {0}
<1>1. heap[g] \in Blocks
  OBVIOUS
<1>2. PICK c \in Nat : heap[g] \in Block(c)
  BY <1>1 DEF Blocks
<1> QED BY <1>2, BlockCap DEF Cap

\* An assignment to one element changes this one and no size.
Assigned(g, k, v) == heap' = [heap EXCEPT ![g][k] = v]
OnlyChanged(g, k, v) ==
    /\ heap' \in Seq(Blocks) /\ Len(heap') = Len(heap) /\ DOMAIN heap' = DOMAIN heap
    /\ \A h \in DOMAIN heap : Cap(h)' = Cap(h)
    /\ heap'[g][k] = v
    /\ \A h \in DOMAIN heap : \A l \in 0..(Cap(h) - 1) :
          h # g \/ l # k => heap'[h][l] = heap[h][l]

\* The assignment does no more than this.
LEMMA Write ==
    ASSUME heap \in Seq(Blocks), NEW g \in DOMAIN heap, NEW k \in 0..(Cap(g) - 1),
           NEW v \in Sample \cup {0}, Assigned(g, k, v)
    PROVE  OnlyChanged(g, k, v)
<1> DEFINE b == [heap[g] EXCEPT ![k] = v]
<1>1. heap' = [heap EXCEPT ![g] = b]
  BY DEF Assigned
<1>2. Cap(g) \in Nat /\ DOMAIN heap[g] = 0..(Cap(g) - 1) /\ heap[g] \in Block(Cap(g))
  BY Layout
<1>3. b \in Block(Cap(g)) /\ b[k] = v /\ \A l \in 0..(Cap(g) - 1) : l # k => b[l] = heap[g][l]
  BY <1>2 DEF Block
<1>4. b \in Blocks /\ DOMAIN b = DOMAIN heap[g]
  BY <1>2, <1>3 DEF Blocks, Block
<1> HIDE DEF b
<1>5. heap' \in Seq(Blocks) /\ Len(heap') = Len(heap) /\ DOMAIN heap' = DOMAIN heap
  <2> DEFINE n == Len(heap)
  <2>1. n \in Nat /\ DOMAIN heap = 1..n /\ heap \in [1..n -> Blocks]
    OBVIOUS
  <2>2. heap' \in [1..n -> Blocks]
    BY <1>1, <1>4, <2>1
  <2>3. heap' \in Seq(Blocks)
    BY <2>1, <2>2
  <2>4. Len(heap') = n /\ DOMAIN heap' = 1..n
    BY <2>1, <2>2
  <2> QED BY <2>1, <2>3, <2>4
<1>6. heap'[g] = b /\ \A h \in DOMAIN heap : h # g => heap'[h] = heap[h]
  BY <1>1
<1>7. \A h \in DOMAIN heap : Cap(h)' = Cap(h)
  BY <1>4, <1>6 DEF Cap
<1> QED BY <1>3, <1>5, <1>6, <1>7 DEF OnlyChanged

\* A new array is added behind those there are.
LEMMA Allocate ==
    ASSUME heap \in Seq(Blocks), NEW n \in Nat, heap' = Append(heap, Array(n))
    PROVE  /\ heap' \in Seq(Blocks) /\ Len(heap') = Len(heap) + 1
           /\ DOMAIN heap \subseteq DOMAIN heap' /\ Len(heap') \in DOMAIN heap'
           /\ Len(heap') \notin DOMAIN heap
           /\ Cap(Len(heap))' = n
           /\ \A h \in DOMAIN heap : heap'[h] = heap[h] /\ Cap(h)' = Cap(h)
<1>1. Array(n) \in Block(n)
  BY DEF Array, Block
<1>2. Array(n) \in Blocks /\ Cardinality(DOMAIN Array(n)) = n
  BY <1>1, BlockCap DEF Blocks
<1>3. /\ heap' \in Seq(Blocks) /\ Len(heap') = Len(heap) + 1
      /\ DOMAIN heap \subseteq DOMAIN heap' /\ Len(heap') \in DOMAIN heap'
      /\ Len(heap') \notin DOMAIN heap /\ heap'[Len(heap')] = Array(n)
      /\ \A h \in DOMAIN heap : heap'[h] = heap[h]
  BY <1>2
<1> QED BY <1>2, <1>3 DEF Cap

--------------------------------------------------------------------------------
(* Sets.                                                                   *)

\* What a set loses when at most one of the values left is overwritten.
LEMMA LosesOneAtMost ==
    ASSUME NEW S, IsFiniteSet(S), NEW L, NEW M, NEW x, L \ {x} \subseteq M
    PROVE  Cardinality(S \ M) <= Cardinality(S \ L) + 1
<1>1. IsFiniteSet(S \ L) /\ IsFiniteSet(S \ M)
  BY FS_Subset
<1>2. IsFiniteSet((S \ L) \cup {x}) /\ Cardinality((S \ L) \cup {x}) <= Cardinality(S \ L) + 1
  <2>1. Cardinality(S \ L) \in Nat
    BY <1>1, FS_CardinalityType
  <2>2. /\ IsFiniteSet((S \ L) \cup {x})
        /\ Cardinality((S \ L) \cup {x}) = IF x \in S \ L THEN Cardinality(S \ L) ELSE Cardinality(S \ L) + 1
    BY ONLY <1>1, FS_AddElement
  <2> QED BY <2>1, <2>2
<1>3. S \ M \in SUBSET ((S \ L) \cup {x})
  OBVIOUS
<1>4. Cardinality(S \ M) <= Cardinality((S \ L) \cup {x})
  BY <1>2, <1>3, FS_Subset
<1> QED BY <1>1, <1>2, <1>4, FS_CardinalityType

\* It loses nothing when all the values are still there.
LEMMA LosesNone ==
    ASSUME NEW S, IsFiniteSet(S), NEW T, NEW L, NEW M, (T \ M) \subseteq (S \ L)
    PROVE  Cardinality(T \ M) <= Cardinality(S \ L) /\ Cardinality(T \ M) \in Nat
<1>1. IsFiniteSet(S \ L) /\ T \ M \in SUBSET (S \ L)
  BY FS_Subset
<1>2. IsFiniteSet(T \ M)
  BY <1>1, FS_Subset
<1> QED BY <1>1, <1>2, FS_Subset, FS_CardinalityType

\* Any set of samples is finite.
LEMMA SamplesFinite ==
    ASSUME NEW S, S \subseteq Sample
    PROVE  IsFiniteSet(S) /\ Cardinality(S) \in Nat
BY FS_Subset, FS_CardinalityType, SampleAssumption

--------------------------------------------------------------------------------
(* What most steps share.                                                  *)

\* The reports already made stay right, whatever samples are appended after them.
LEMMA ReportsStay ==
    ASSUME Inv, reports' = reports, fresh \cup own \subseteq fresh' \cup own',
           \A k \in DOMAIN reports : reports[k].own \cap (fresh' \cup own') = {}
    PROVE  ReportInv' /\ Used \subseteq Used'
<1>1. Used \subseteq Used'
  BY DEF Used
<1>2. ReportSizeIsExact' /\ DamageIsBounded' /\ CleanReportIsExact'
  <2>1. ReportSizeIsExact'
    BY DEF Inv, ReportInv, ReportSizeIsExact
  <2>2. DamageIsBounded'
    <3>1. DamageIsBounded
      BY DEF Inv, ReportInv
    <3> QED BY ONLY <3>1, reports' = reports DEF DamageIsBounded, Values
  <2>3. CleanReportIsExact'
    BY DEF Inv, ReportInv, CleanReportIsExact
  <2> QED BY <2>1, <2>2, <2>3
<1>3. NoPhantom'
  BY <1>1 DEF Inv, ReportInv, NoPhantom, Values, NoLatency
<1> QED BY <1>1, <1>2, <1>3 DEF Inv, ReportInv

\* A sample that joins the next window is in no other.
LEMMA SampleJoins ==
    ASSUME Inv, NEW v \in Sample, v \notin Used, Joins(v), UNCHANGED <<job, reports>>
    PROVE  /\ ReportInv' /\ Used' = Used \cup {v}
           /\ fresh' \subseteq Sample /\ own' \subseteq Sample
           /\ raced' \in [fresh : Nat, own : Nat]
           /\ raced.fresh <= raced'.fresh /\ raced.own <= raced'.own
           /\ Running => raced'.fresh = raced.fresh + 1 /\ raced'.own = raced.own + 1
           /\ Cardinality(fresh') = Cardinality(fresh) + 1
           /\ fresh' \cap own' = {}
<1>1. fresh' = fresh \cup {v} /\ own' = own /\ reports' = reports
  BY DEF Joins, job
<1>2. v \notin fresh /\ v \notin own /\ \A k \in DOMAIN reports : v \notin reports[k].own
  BY DEF Used
<1>3. ReportInv'
  BY <1>1, <1>2, ReportsStay DEF Inv, ReportInv
<1>4. Used' = Used \cup {v}
  BY <1>1 DEF Used
<1>5. Cardinality(fresh') = Cardinality(fresh) + 1
  <2>1. IsFiniteSet(fresh)
    BY SamplesFinite DEF Inv, WindowInv
  <2> QED BY <1>1, <1>2, <2>1, FS_AddElement
<1>6. /\ raced' \in [fresh : Nat, own : Nat]
      /\ raced.fresh <= raced'.fresh /\ raced.own <= raced'.own
      /\ Running => raced'.fresh = raced.fresh + 1 /\ raced'.own = raced.own + 1
  <2>1. raced \in [fresh : Nat, own : Nat]
    BY DEF Inv, WindowInv
  <2>2. CASE Running
    BY <2>1, <2>2 DEF Joins
  <2>3. CASE ~Running
    BY <2>1, <2>3 DEF Joins
  <2> QED BY <2>2, <2>3
<1> QED BY <1>1, <1>2, <1>3, <1>4, <1>5, <1>6 DEF Inv, WindowInv

\* After an append to a running job's array, nothing is claimed of the order.
LEMMA MetSortInv ==
    ASSUME Inv, Running => raced'.own = raced.own + 1, pc' = pc
    PROVE  SortInv'
<1>1. raced.own \in Nat
  BY DEF Inv, WindowInv
<1> QED BY <1>1 DEF SortInv, Running

--------------------------------------------------------------------------------
(* The appends.                                                            *)

LEMMA AppendInPlaceInv ==
    ASSUME Inv, NEW v \in Sample, AppendInPlace(v)
    PROVE  Inv'
<1> SUFFICES ASSUME NEW g, g = latencyTracking.array, NEW n, n = latencyTracking.len
             PROVE  Inv'
  OBVIOUS
<1>1. /\ g \in DOMAIN heap /\ g \in Nat /\ n \in Nat /\ Cap(g) \in Nat /\ n < Cap(g) /\ n < MaxWindow
      /\ ~Growing /\ v \notin Used
      /\ heap' = [heap EXCEPT ![g][n] = v]
      /\ latencyTracking' = [array |-> g, len |-> n + 1]
      /\ UNCHANGED <<growth, pc, latencies, pos, held, read, own, reports>> /\ Joins(v)
  BY Layout DEF Inv, HeapInv, SliceOK, AppendInPlace, Unlocked, job
<1>2. n \in 0..(Cap(g) - 1) /\ heap \in Seq(Blocks)
  BY <1>1 DEF Inv, HeapInv
<1>3. /\ heap' \in Seq(Blocks) /\ Len(heap') = Len(heap) /\ DOMAIN heap' = DOMAIN heap
      /\ \A h \in DOMAIN heap : Cap(h)' = Cap(h)
      /\ heap'[g][n] = v
      /\ \A h \in DOMAIN heap : \A l \in 0..(Cap(h) - 1) :
            h # g \/ l # n => heap'[h][l] = heap[h][l]
  <2>1. v \in Sample \cup {0} /\ g \in DOMAIN heap /\ Assigned(g, n, v)
    BY <1>1 DEF Assigned
  <2>2. OnlyChanged(g, n, v)
    BY ONLY <1>2, <2>1, Write
  <2> QED BY ONLY <2>2 DEF OnlyChanged
<1>4. /\ ReportInv' /\ Used' = Used \cup {v}
      /\ fresh' \subseteq Sample /\ own' \subseteq Sample
      /\ raced' \in [fresh : Nat, own : Nat]
      /\ raced.fresh <= raced'.fresh /\ raced.own <= raced'.own
      /\ Running => raced'.fresh = raced.fresh + 1 /\ raced'.own = raced.own + 1
      /\ Cardinality(fresh') = Cardinality(fresh) + 1
      /\ fresh' \cap own' = {}
  BY <1>1, SampleJoins DEF job
<1>5. HeapInv'
  <2>1. SliceOK(latencyTracking)'
    BY <1>1, <1>3 DEF SliceOK
  <2>2. SliceOK(latencies)'
    BY <1>1, <1>3 DEF SliceOK, Inv, HeapInv
  <2> QED BY <1>1, <1>3, <2>1, <2>2 DEF Inv, HeapInv, Growing
<1>6. PlaceInv'
  BY <1>1 DEF Inv, PlaceInv, Sorting
<1>7. WindowInv'
  <2>1. Beginning = 0 /\ Beginning' = 0 /\ (Running' <=> Running) /\ latencyTracking'.len = n + 1
    BY <1>1 DEF Beginning, Growing, Running
  <2>2. MaxWindow \in Nat
    BY BoundAssumption
  <2> QED BY <1>1, <1>4, <2>1, <2>2 DEF Inv, WindowInv
<1>8. NextInv'
  <2>1. \A k \in 0..(n - 1) : NextAt(k)' = NextAt(k)
    BY <1>1, <1>3 DEF NextAt, Growing
  <2>2. NextAt(n)' = v
    <3>1. NextAt(n)' = heap'[g][n]
      BY <1>1 DEF NextAt, Growing
    <3> QED BY <1>3, <3>1
  <2>3. NextLeft' = NextLeft \cup {v}
    <3>1. Indices(latencyTracking)' = 0..n /\ Indices(latencyTracking) = 0..(n - 1)
      BY <1>1 DEF Indices
    <3>2. 0..n = (0..(n - 1)) \cup {n}
      BY <1>1
    <3>3. NextLeft' = {NextAt(k)' : k \in 0..n} /\ NextLeft = {NextAt(k) : k \in 0..(n - 1)}
      BY <1>1, <3>1 DEF NextLeft, Growing
    <3> QED BY ONLY <2>1, <2>2, <3>2, <3>3
  <2>4. NextLeft' \subseteq Used'
    BY <1>4, <2>3 DEF Inv, NextInv
  <2>5. Cardinality(fresh' \ NextLeft') <= Cardinality(fresh \ NextLeft) /\ Cardinality(fresh' \ NextLeft') \in Nat
    <3>1. (fresh' \ NextLeft') \subseteq (fresh \ NextLeft)
      BY <2>3 DEF Joins, AppendInPlace
    <3>2. IsFiniteSet(fresh)
      BY SamplesFinite DEF Inv, WindowInv
    <3> QED BY <3>1, <3>2, LosesNone
  <2>6. Cardinality(fresh \ NextLeft) <= raced.fresh /\ raced.fresh \in Nat
    BY DEF Inv, NextInv, WindowInv
  <2>7. Cardinality(fresh \ NextLeft) \in Nat
    BY LosesNone, SamplesFinite DEF Inv, WindowInv
  <2> QED BY <1>4, <2>4, <2>5, <2>6, <2>7 DEF NextInv
<1>9. OwnInv'
  <2> SUFFICES ASSUME Running' PROVE OwnInv'
    BY DEF OwnInv
  <2>1. Running /\ Indices(latencies)' = Indices(latencies)
    BY <1>1 DEF Running, Indices
  <2>2. \A k \in Indices(latencies) : At(k)' = At(k) \/ (k = n /\ At(k)' = v)
    BY <1>1, <1>3, Layout DEF At, Indices, Inv, HeapInv, SliceOK
  <2>3. \A k \in Indices(latencies) : OwnAt(k)' = OwnAt(k) \/ (k = n /\ OwnAt(k)' = v)
    BY <1>1, <2>2 DEF OwnAt
  <2>4. OwnLeft' \subseteq OwnLeft \cup {v} /\ OwnLeft \ {OwnAt(n)} \subseteq OwnLeft'
    <3> QED BY <2>1, <2>3 DEF OwnLeft
  <2>5. Cardinality(own' \ OwnLeft') <= raced'.own
    <3>1. IsFiniteSet(own) /\ raced.own \in Nat
      BY SamplesFinite DEF Inv, WindowInv
    <3>2. Cardinality(own \ OwnLeft') <= Cardinality(own \ OwnLeft) + 1
      BY <2>4, <3>1, LosesOneAtMost
    <3>3. Cardinality(own \ OwnLeft) <= raced.own
      BY <2>1 DEF Inv, OwnInv
    <3>4. Cardinality(own \ OwnLeft) \in Nat /\ Cardinality(own \ OwnLeft') \in Nat
      BY <3>1, LosesNone
    <3> QED BY <1>1, <1>4, <2>1, <3>1, <3>2, <3>3, <3>4
  <2>6. OwnLeft' \subseteq Used' /\ \A k \in Indices(latencies)' : At(k)' \in Used'
    BY <1>4, <2>1, <2>2, <2>4 DEF Inv, OwnInv
  <2> QED BY <2>5, <2>6 DEF OwnInv
<1>10. SortInv'
  BY <1>1, <1>4, MetSortInv
<1> QED BY <1>4, <1>5, <1>6, <1>7, <1>8, <1>9, <1>10 DEF Inv

\* An append that moves to a new array leaves the job's window as it is.
LEMMA OwnUntouched ==
    ASSUME Inv, UNCHANGED job, Used \subseteq Used', raced'.own \in Nat, raced.own <= raced'.own,
           \A k \in Indices(latencies) : At(k)' = At(k)
    PROVE  OwnInv'
<1> SUFFICES ASSUME Running' PROVE OwnInv'
  BY DEF OwnInv
<1>1. /\ Running /\ Indices(latencies)' = Indices(latencies)
      /\ pc' = pc /\ read' = read /\ held' = held /\ pos' = pos /\ own' = own
  BY DEF Running, Indices, job
<1>2. \A k \in Indices(latencies) : OwnAt(k)' = OwnAt(k)
  BY <1>1 DEF OwnAt
<1>3. OwnLeft' = OwnLeft
  BY ONLY <1>1, <1>2 DEF OwnLeft
<1>4. Cardinality(own \ OwnLeft) <= raced.own /\ Cardinality(own \ OwnLeft) \in Nat /\ raced.own \in Nat
  <2>1. IsFiniteSet(own)
    BY SamplesFinite DEF Inv, WindowInv
  <2> QED BY <1>1, <2>1, LosesNone DEF Inv, OwnInv, WindowInv
<1>5. Cardinality(own' \ OwnLeft') <= raced'.own
  BY <1>1, <1>3, <1>4
<1>6. OwnLeft' \subseteq Used' /\ \A k \in Indices(latencies)' : At(k)' \in Used'
  BY <1>1, <1>3 DEF Inv, OwnInv
<1> QED BY <1>5, <1>6 DEF OwnInv

\* The bound on what the next window has lost holds on when it has lost no more.
LEMMA NextUntouched ==
    ASSUME Inv, fresh' = fresh, raced' = raced, Used' = Used, NextLeft' = NextLeft
    PROVE  NextInv'
BY DEF Inv, NextInv

\* A step of the copying counts no sample and touches no report.
LEMMA CopyingKeeps ==
    ASSUME Inv, Growing, UNCHANGED <<fresh, job, raced, reports>>
    PROVE  ReportInv' /\ PlaceInv' /\ SortInv' /\ Used' = Used
<1>1. reports' = reports /\ fresh' = fresh /\ own' = own
  BY DEF job
<1>2. ReportInv'
  BY <1>1, ReportsStay DEF Inv, ReportInv
<1>3. PlaceInv'
  BY DEF Inv, PlaceInv, Sorting, job
<1>4. SortInv'
  BY DEF Inv, SortInv, job, Running
<1>5. Used' = Used
  BY <1>1 DEF Used
<1> QED BY <1>2, <1>3, <1>4, <1>5

LEMMA BeginGrowthInv ==
    ASSUME Inv, NEW v \in Sample, BeginGrowth(v)
    PROVE  Inv'
<1> SUFFICES ASSUME NEW g, g = latencyTracking.array, NEW n, n = latencyTracking.len
             PROVE  Inv'
  OBVIOUS
<1>1. /\ g \in DOMAIN heap /\ g \in Nat /\ n \in Nat /\ n = Cap(g) /\ n < MaxWindow
      /\ ~Growing /\ v \notin Used /\ v # 0
      /\ heap' = Append(heap, Array(GrownCap(n)))
      /\ growth' = [from |-> latencyTracking, copied |-> 0, sample |-> v]
      /\ UNCHANGED <<latencyTracking, pc, latencies, pos, held, read, own, reports>> /\ Joins(v)
  BY SampleAssumption DEF Inv, HeapInv, SliceOK, BeginGrowth, job
<1>2. GrownCap(n) \in Nat /\ n < GrownCap(n)
  BY <1>1 DEF GrownCap
<1>3. /\ heap' \in Seq(Blocks) /\ Len(heap') = Len(heap) + 1
      /\ DOMAIN heap \subseteq DOMAIN heap' /\ Len(heap') \in DOMAIN heap'
      /\ Len(heap') \notin DOMAIN heap
      /\ Cap(Len(heap))' = GrownCap(n)
      /\ \A h \in DOMAIN heap : heap'[h] = heap[h] /\ Cap(h)' = Cap(h)
  <2>1. heap \in Seq(Blocks)
    BY DEF Inv, HeapInv
  <2> QED BY <1>1, <1>2, <2>1, Allocate
<1>4. /\ ReportInv' /\ Used' = Used \cup {v}
      /\ fresh' \subseteq Sample /\ own' \subseteq Sample
      /\ raced' \in [fresh : Nat, own : Nat]
      /\ raced.fresh <= raced'.fresh /\ raced.own <= raced'.own
      /\ Running => raced'.fresh = raced.fresh + 1 /\ raced'.own = raced.own + 1
      /\ Cardinality(fresh') = Cardinality(fresh) + 1
      /\ fresh' \cap own' = {}
  BY <1>1, SampleJoins DEF job
<1>5. HeapInv'
  <2>1. SliceOK(latencyTracking)'
    BY <1>1, <1>3 DEF SliceOK, Inv, HeapInv
  <2>2. SliceOK(latencies)'
    BY <1>1, <1>3 DEF SliceOK, Inv, HeapInv
  <2>3. growth' \in [from : [array : Nat, len : Nat], copied : Nat, sample : Sample \cup {0}]
    BY <1>1 DEF Inv, HeapInv, SliceOK
  <2>4. /\ growth'.from = latencyTracking' /\ growth'.copied <= latencyTracking'.len
        /\ growth'.sample \in fresh'
    <3>1. latencyTracking' = latencyTracking /\ fresh' = fresh \cup {v}
      BY <1>1 DEF Joins
    <3>2. growth'.from = latencyTracking /\ growth'.copied = 0 /\ growth'.sample = v
      BY <1>1
    <3>3. latencyTracking'.len = n /\ n \in Nat
      BY <1>1
    <3> QED BY ONLY <3>1, <3>2, <3>3
  <2>5. latencyTracking'.len < Cap(Len(heap))'
    BY <1>1, <1>2, <1>3
  <2>6. latencyTracking'.array # Len(heap') /\ latencies'.array # Len(heap')
    BY <1>1, <1>3 DEF Inv, HeapInv, SliceOK
  <2> QED BY <1>3, <2>1, <2>2, <2>3, <2>4, <2>5, <2>6 DEF HeapInv
<1>6. PlaceInv'
  BY <1>1 DEF Inv, PlaceInv, Sorting
<1>7. growth' # None
  BY <1>1 DEF None
<1>8. WindowInv'
  <2>1. Beginning = 0 /\ Beginning' = 1 /\ (Running' <=> Running)
    BY <1>1, <1>7 DEF Beginning, Growing, Running
  <2>2. MaxWindow \in Nat
    BY BoundAssumption
  <2>3. /\ Cardinality(fresh') = latencyTracking'.len + Beginning'
        /\ latencyTracking'.len + Beginning' <= MaxWindow /\ latencies'.len <= MaxWindow
    <3>1. latencyTracking'.len = n /\ latencies' = latencies /\ n \in Nat /\ n < MaxWindow
      BY <1>1
    <3>2. Cardinality(fresh) = n /\ latencies.len <= MaxWindow
      BY <1>1, <2>1 DEF Inv, WindowInv
    <3>3. Cardinality(fresh') = n + 1
      BY <1>4, <3>2
    <3> QED BY <2>1, <2>2, <3>1, <3>2, <3>3
  <2>4. IF Running' THEN Cardinality(own') = latencies'.len /\ Cardinality(fresh') = raced'.fresh
                    ELSE own' = {}
    BY <1>1, <1>4, <2>1 DEF Inv, WindowInv
  <2> QED BY <1>4, <2>3, <2>4 DEF WindowInv
<1>9. NextInv'
  <2>1. \A k \in 0..(n - 1) : NextAt(k)' = NextAt(k)
    BY <1>1, <1>3, <1>7 DEF NextAt, Growing
  <2>2. NextLeft' = NextLeft \cup {v}
    <3>1. Indices(latencyTracking)' = 0..(n - 1) /\ Indices(latencyTracking) = 0..(n - 1)
      BY <1>1 DEF Indices
    <3>2. NextLeft' = {NextAt(k)' : k \in 0..(n - 1)} \cup {v} /\ NextLeft = {NextAt(k) : k \in 0..(n - 1)}
      BY <1>1, <1>7, <3>1 DEF NextLeft, Growing
    <3> QED BY ONLY <2>1, <3>2
  <2>3. NextLeft' \subseteq Used'
    BY <1>4, <2>2 DEF Inv, NextInv
  <2>4. Cardinality(fresh' \ NextLeft') <= Cardinality(fresh \ NextLeft) /\ Cardinality(fresh' \ NextLeft') \in Nat
    <3>1. (fresh' \ NextLeft') \subseteq (fresh \ NextLeft)
      BY <1>1, <2>2 DEF Joins
    <3>2. IsFiniteSet(fresh)
      BY SamplesFinite DEF Inv, WindowInv
    <3> QED BY <3>1, <3>2, LosesNone
  <2>5. Cardinality(fresh \ NextLeft) <= raced.fresh /\ raced.fresh \in Nat
    BY DEF Inv, NextInv, WindowInv
  <2>6. Cardinality(fresh \ NextLeft) \in Nat
    BY LosesNone, SamplesFinite DEF Inv, WindowInv
  <2> QED BY <1>4, <2>3, <2>4, <2>5, <2>6 DEF NextInv
<1>10. OwnInv'
  <2>1. \A k \in Indices(latencies) : At(k)' = At(k)
    BY <1>1, <1>3 DEF At, Inv, HeapInv, SliceOK
  <2> QED BY <1>1, <1>4, <2>1, OwnUntouched DEF job
<1>11. SortInv'
  BY <1>1, <1>4, MetSortInv
<1> QED BY <1>4, <1>5, <1>6, <1>8, <1>9, <1>10, <1>11 DEF Inv

\* What a growth under way says of the arrays it copies between.
LEMMA GrowthFacts ==
    ASSUME Inv, Growing
    PROVE  /\ growth.from = latencyTracking /\ growth.copied \in 0..latencyTracking.len
           /\ growth.sample \in Sample /\ growth.sample \in fresh
           /\ latencyTracking.len < Cap(Len(heap)) /\ latencyTracking.len \in Nat
           /\ latencyTracking.array \in DOMAIN heap /\ latencyTracking.len <= Cap(latencyTracking.array)
           /\ Len(heap) \in DOMAIN heap /\ heap \in Seq(Blocks) /\ Len(heap) \in Nat
           /\ latencyTracking.array # Len(heap) /\ latencies.array # Len(heap)
           /\ Cap(Len(heap)) \in Nat
           /\ latencies.array \in DOMAIN heap /\ latencies.len \in Nat /\ latencies.len <= Cap(latencies.array)
<1>1. heap \in Seq(Blocks) /\ latencyTracking.array \in DOMAIN heap
  BY DEF Inv, HeapInv, SliceOK
<1>2. Len(heap) \in DOMAIN heap
  BY <1>1
<1> QED BY <1>1, <1>2, Layout DEF Inv, HeapInv, SliceOK, WindowInv

LEMMA CopyOneInv ==
    ASSUME Inv, CopyOne
    PROVE  Inv'
<1> SUFFICES ASSUME NEW g, g = latencyTracking.array, NEW n, n = latencyTracking.len,
                    NEW new, new = Len(heap), NEW c, c = growth.copied
             PROVE  Inv'
  OBVIOUS
<1>1. /\ Growing /\ growth.from = latencyTracking /\ c < n
      /\ heap' = [heap EXCEPT ![new][c] = heap[g][c]]
      /\ growth' = [growth EXCEPT !.copied = @ + 1]
      /\ UNCHANGED <<latencyTracking, fresh, pc, latencies, pos, held, read, own, raced, reports>>
  BY GrowthFacts DEF CopyOne, job
<1>2. /\ growth.sample \in Sample /\ growth.sample \in fresh
      /\ n < Cap(new) /\ n \in Nat /\ c \in Nat
      /\ g \in DOMAIN heap /\ n <= Cap(g)
      /\ new \in DOMAIN heap /\ heap \in Seq(Blocks) /\ new \in Nat
      /\ g # new /\ latencies.array # new /\ Cap(new) \in Nat
      /\ latencies.array \in DOMAIN heap /\ latencies.len \in Nat /\ latencies.len <= Cap(latencies.array)
  BY <1>1, GrowthFacts
<1>3. /\ heap' \in Seq(Blocks) /\ Len(heap') = Len(heap) /\ DOMAIN heap' = DOMAIN heap
      /\ \A h \in DOMAIN heap : Cap(h)' = Cap(h)
      /\ heap'[new][c] = heap[g][c]
      /\ \A h \in DOMAIN heap : \A l \in 0..(Cap(h) - 1) :
            h # new \/ l # c => heap'[h][l] = heap[h][l]
  <2>1. heap[g][c] \in Sample \cup {0}
    BY <1>1, <1>2, Layout
  <2>2. Assigned(new, c, heap[g][c]) /\ c \in 0..(Cap(new) - 1)
    BY <1>1, <1>2 DEF Assigned
  <2>3. OnlyChanged(new, c, heap[g][c])
    BY ONLY <1>2, <2>1, <2>2, Write
  <2> QED BY ONLY <2>3 DEF OnlyChanged
<1>4. ReportInv' /\ PlaceInv' /\ SortInv' /\ Used' = Used
  BY <1>1, CopyingKeeps DEF job
<1>5. growth' # None /\ growth'.copied = c + 1 /\ growth'.sample = growth.sample /\ growth'.from = growth.from
  <2>1. growth \in [from : [array : Nat, len : Nat], copied : Nat, sample : Sample \cup {0}]
    BY DEF Inv, HeapInv
  <2>2. growth'.copied = c + 1 /\ growth'.sample = growth.sample /\ growth'.from = growth.from
    BY <1>1, <2>1
  <2>3. growth.sample # 0
    BY <1>2, SampleAssumption
  <2> QED BY <2>2, <2>3 DEF None
<1>6. HeapInv'
  <2>1. SliceOK(latencyTracking)' /\ SliceOK(latencies)'
    BY <1>1, <1>3 DEF SliceOK, Inv, HeapInv
  <2>2. growth' \in [from : [array : Nat, len : Nat], copied : Nat, sample : Sample \cup {0}]
    <3>1. growth \in [from : [array : Nat, len : Nat], copied : Nat, sample : Sample \cup {0}]
      BY DEF Inv, HeapInv
    <3>2. growth' = [growth EXCEPT !.copied = growth.copied + 1] /\ growth.copied + 1 \in Nat
      BY <1>1, <3>1
    <3> QED BY ONLY <3>1, <3>2
  <2>3. latencyTracking' = latencyTracking /\ latencies' = latencies /\ fresh' = fresh
    BY <1>1
  <2>4. Cap(Len(heap))' = Cap(new)
    BY <1>2, <1>3
  <2> QED BY <1>1, <1>2, <1>3, <1>5, <2>1, <2>2, <2>3, <2>4 DEF HeapInv
<1>7. WindowInv'
  <2>1. Beginning' = Beginning /\ (Running' <=> Running)
    BY <1>1, <1>5 DEF Beginning, Growing, Running
  <2> QED BY <1>1, <2>1 DEF Inv, WindowInv
<1>8. NextInv'
  <2>1. \A k \in 0..(n - 1) : NextAt(k)' = NextAt(k)
    <3> SUFFICES ASSUME NEW k \in 0..(n - 1) PROVE NextAt(k)' = NextAt(k)
      OBVIOUS
    <3>1. NextAt(k) = IF k < c THEN heap[new][k] ELSE heap[g][k]
      BY <1>1 DEF NextAt
    <3>2. NextAt(k)' = IF k < c + 1 THEN heap'[new][k] ELSE heap'[g][k]
      BY <1>1, <1>3, <1>5 DEF NextAt, Growing
    <3>3. k \in 0..(Cap(g) - 1) /\ k \in 0..(Cap(new) - 1)
      BY <1>2, Layout
    <3>4. heap'[g][k] = heap[g][k] /\ (k # c => heap'[new][k] = heap[new][k])
      BY <1>2, <1>3, <3>3
    <3> QED BY <1>2, <1>3, <3>1, <3>2, <3>4
  <2>2. NextLeft' = NextLeft
    <3>1. Indices(latencyTracking)' = 0..(n - 1) /\ Indices(latencyTracking) = 0..(n - 1)
      BY <1>1 DEF Indices
    <3>2. /\ NextLeft' = {NextAt(k)' : k \in 0..(n - 1)} \cup {growth.sample}
          /\ NextLeft = {NextAt(k) : k \in 0..(n - 1)} \cup {growth.sample}
      BY <1>1, <1>5, <3>1 DEF NextLeft, Growing
    <3> QED BY ONLY <2>1, <3>2
  <2> QED BY <1>1, <1>4, <2>2, NextUntouched
<1>9. OwnInv'
  <2>1. \A k \in Indices(latencies) : At(k)' = At(k)
    BY <1>1, <1>2, <1>3, Layout DEF At, Indices
  <2>2. raced'.own \in Nat /\ raced.own <= raced'.own
    BY <1>1 DEF Inv, WindowInv
  <2> QED BY <1>1, <1>4, <2>1, <2>2, OwnUntouched DEF job
<1> QED BY <1>4, <1>6, <1>7, <1>8, <1>9 DEF Inv

LEMMA EndGrowthInv ==
    ASSUME Inv, EndGrowth
    PROVE  Inv'
<1> SUFFICES ASSUME NEW g, g = latencyTracking.array, NEW n, n = latencyTracking.len,
                    NEW new, new = Len(heap), NEW v, v = growth.sample
             PROVE  Inv'
  OBVIOUS
<1>1. /\ Growing /\ growth.from = latencyTracking /\ growth.copied = n
      /\ heap' = [heap EXCEPT ![new][n] = v]
      /\ growth' = None
      /\ latencyTracking' = [array |-> new, len |-> n + 1]
      /\ UNCHANGED <<fresh, pc, latencies, pos, held, read, own, raced, reports>>
  BY GrowthFacts DEF EndGrowth, job
<1>2. /\ v \in Sample /\ v \in fresh
      /\ n < Cap(new) /\ n \in Nat
      /\ g \in DOMAIN heap /\ n <= Cap(g)
      /\ new \in DOMAIN heap /\ heap \in Seq(Blocks) /\ new \in Nat
      /\ g # new /\ latencies.array # new /\ Cap(new) \in Nat
      /\ latencies.array \in DOMAIN heap /\ latencies.len \in Nat /\ latencies.len <= Cap(latencies.array)
  BY <1>1, GrowthFacts
<1>3. /\ heap' \in Seq(Blocks) /\ Len(heap') = Len(heap) /\ DOMAIN heap' = DOMAIN heap
      /\ \A h \in DOMAIN heap : Cap(h)' = Cap(h)
      /\ heap'[new][n] = v
      /\ \A h \in DOMAIN heap : \A l \in 0..(Cap(h) - 1) :
            h # new \/ l # n => heap'[h][l] = heap[h][l]
  <2>1. v \in Sample \cup {0}
    BY <1>2
  <2>2. Assigned(new, n, v) /\ n \in 0..(Cap(new) - 1)
    BY <1>1, <1>2 DEF Assigned
  <2>3. OnlyChanged(new, n, v)
    BY ONLY <1>2, <2>1, <2>2, Write
  <2> QED BY ONLY <2>3 DEF OnlyChanged
<1>4. ReportInv' /\ PlaceInv' /\ SortInv' /\ Used' = Used
  BY <1>1, CopyingKeeps DEF job
<1>5. HeapInv'
  <2>1. SliceOK(latencyTracking)'
    BY <1>1, <1>2, <1>3 DEF SliceOK
  <2>2. SliceOK(latencies)'
    BY <1>1, <1>3 DEF SliceOK, Inv, HeapInv
  <2>3. growth' \in [from : [array : Nat, len : Nat], copied : Nat, sample : Sample \cup {0}]
    BY <1>1 DEF None, Empty
  <2> QED BY <1>1, <1>3, <2>1, <2>2, <2>3 DEF HeapInv, Growing
<1>6. WindowInv'
  <2>1. Beginning' = 0 /\ Beginning = 1 /\ (Running' <=> Running)
    BY <1>1 DEF Beginning, Growing, Running
  <2> QED BY <1>1, <1>2, <2>1 DEF Inv, WindowInv
<1>7. NextInv'
  <2>1. \A k \in 0..(n - 1) : NextAt(k)' = NextAt(k)
    <3> SUFFICES ASSUME NEW k \in 0..(n - 1) PROVE NextAt(k)' = NextAt(k)
      OBVIOUS
    <3>1. NextAt(k) = heap[new][k]
      BY <1>1, <1>2 DEF NextAt
    <3>2. NextAt(k)' = heap'[new][k]
      BY <1>1 DEF NextAt, Growing
    <3>3. heap'[new][k] = heap[new][k]
      BY <1>2, <1>3
    <3> QED BY <3>1, <3>2, <3>3
  <2>2. NextAt(n)' = v
    <3>1. NextAt(n)' = heap'[new][n]
      BY <1>1 DEF NextAt, Growing
    <3> QED BY <1>3, <3>1
  <2>3. NextLeft' = NextLeft
    <3>1. Indices(latencyTracking)' = 0..n /\ Indices(latencyTracking) = 0..(n - 1)
      BY <1>1, <1>2 DEF Indices
    <3>2. 0..n = (0..(n - 1)) \cup {n}
      BY <1>2
    <3>3. /\ NextLeft' = {NextAt(k)' : k \in 0..n}
          /\ NextLeft = {NextAt(k) : k \in 0..(n - 1)} \cup {v}
      BY <1>1, <3>1 DEF NextLeft, Growing
    <3> QED BY ONLY <2>1, <2>2, <3>2, <3>3
  <2> QED BY <1>1, <1>4, <2>3, NextUntouched
<1>8. OwnInv'
  <2>1. \A k \in Indices(latencies) : At(k)' = At(k)
    BY <1>1, <1>2, <1>3, Layout DEF At, Indices
  <2>2. raced'.own \in Nat /\ raced.own <= raced'.own
    BY <1>1 DEF Inv, WindowInv
  <2> QED BY <1>1, <1>4, <2>1, <2>2, OwnUntouched DEF job
<1> QED BY <1>4, <1>5, <1>6, <1>7, <1>8 DEF Inv

--------------------------------------------------------------------------------
(* The job's window.                                                       *)

\* As long as no append has met the job, its places hold its samples, each once.
LEMMA OwnApart ==
    ASSUME Inv, Running, raced.own = 0
    PROVE  /\ OwnLeft = own
           /\ \A k \in Indices(latencies) : OwnAt(k) \in own /\ OwnAt(k) \in Nat
           /\ \A a, b \in Indices(latencies) : OwnAt(a) = OwnAt(b) => a = b
<1> DEFINE f == [k \in Indices(latencies) |-> OwnAt(k)]
<1>1. IsFiniteSet(own) /\ own \subseteq Sample /\ Cardinality(own) = latencies.len /\ latencies.len \in Nat
  BY SamplesFinite DEF Inv, WindowInv, HeapInv, SliceOK
<1>2. own \subseteq OwnLeft
  <2>1. Cardinality(own \ OwnLeft) <= 0 /\ IsFiniteSet(own \ OwnLeft)
    BY <1>1, FS_Subset DEF Inv, OwnInv
  <2>2. Cardinality(own \ OwnLeft) = 0
    BY <2>1, FS_CardinalityType
  <2>3. own \ OwnLeft = {}
    BY <2>1, <2>2, FS_EmptySet
  <2> QED BY <2>3
<1>3. IsFiniteSet(Indices(latencies)) /\ Cardinality(Indices(latencies)) = latencies.len
  <2>1. latencies.len - 1 \in Int /\ 0 \in Int
    BY <1>1
  <2>2. /\ IsFiniteSet(0..(latencies.len - 1))
        /\ Cardinality(0..(latencies.len - 1)) = IF 0 > latencies.len - 1 THEN 0 ELSE (latencies.len - 1) - 0 + 1
    BY ONLY <2>1, FS_Interval
  <2> QED BY <1>1, <2>2 DEF Indices
<1>4. f \in Surjection(Indices(latencies), OwnLeft)
  BY DEF Surjection, OwnLeft
<1>5. /\ IsFiniteSet(OwnLeft) /\ Cardinality(OwnLeft) <= latencies.len
      /\ Cardinality(OwnLeft) = latencies.len => f \in Injection(Indices(latencies), OwnLeft)
  <2> HIDE DEF f
  <2> QED BY <1>3, <1>4, FS_Surjection
<1>6. Cardinality(own) <= Cardinality(OwnLeft) /\ Cardinality(OwnLeft) \in Nat
  BY <1>2, <1>5, FS_Subset, FS_CardinalityType
<1>7. Cardinality(OwnLeft) = latencies.len
  BY <1>1, <1>5, <1>6
<1>8. OwnLeft = own
  BY <1>1, <1>2, <1>5, <1>7, FS_Subset
<1>9. \A a, b \in Indices(latencies) : OwnAt(a) = OwnAt(b) => a = b
  BY <1>5, <1>7 DEF Injection, IsInjective
<1>10. \A k \in Indices(latencies) : OwnAt(k) \in own /\ OwnAt(k) \in Nat
  BY <1>1, <1>8, SampleAssumption DEF OwnLeft
<1> QED BY <1>8, <1>9, <1>10

\* The job's own steps count no sample, touch no report, and can cost the next window no
\* more than its samples, each of which met the job.
LEMMA JobKeeps ==
    ASSUME Inv, Running, Running', UNCHANGED <<tracker, latencies, own, raced, reports>>,
           NextLeft' \subseteq Used, OwnLeft' = OwnLeft,
           \A k \in Indices(latencies) : At(k)' \in Used
    PROVE  WindowInv' /\ ReportInv' /\ NextInv' /\ OwnInv'
<1>1. /\ fresh' = fresh /\ own' = own /\ raced' = raced /\ reports' = reports
      /\ growth' = growth /\ latencyTracking' = latencyTracking /\ latencies' = latencies
  BY DEF tracker
<1>2. Used' = Used
  BY <1>1 DEF Used
<1>3. ReportInv'
  BY <1>1, ReportsStay DEF Inv, ReportInv
<1>4. WindowInv'
  <2>1. Beginning' = Beginning
    BY <1>1 DEF Beginning, Growing
  <2> QED BY <1>1, <2>1 DEF Inv, WindowInv
<1>5. NextInv'
  <2>1. IsFiniteSet(fresh) /\ Cardinality(fresh) = raced.fresh /\ raced.fresh \in Nat
    BY SamplesFinite DEF Inv, WindowInv
  <2>2. fresh \ NextLeft' \in SUBSET fresh
    OBVIOUS
  <2>3. Cardinality(fresh \ NextLeft') <= Cardinality(fresh)
    BY <2>1, <2>2, FS_Subset
  <2> QED BY <1>1, <1>2, <2>1, <2>3 DEF NextInv
<1>6. OwnInv'
  <2>1. Indices(latencies)' = Indices(latencies)
    BY <1>1 DEF Indices
  <2> QED BY <1>1, <1>2, <2>1 DEF Inv, OwnInv
<1> QED BY <1>3, <1>4, <1>5, <1>6

\* The steps of the job that only read.
LEMMA JobReads ==
    ASSUME Inv, UNCHANGED <<heap, tracker, latencies, own, raced, reports>>, Running, Running',
           OwnLeft' = OwnLeft
    PROVE  HeapInv' /\ WindowInv' /\ ReportInv' /\ NextInv' /\ OwnInv'
<1>1. heap' = heap /\ latencyTracking' = latencyTracking /\ growth' = growth /\ fresh' = fresh /\ latencies' = latencies
  BY DEF tracker
<1>2. HeapInv'
  <2>1. SliceOK(latencyTracking)' /\ SliceOK(latencies)'
    BY <1>1 DEF Inv, HeapInv, SliceOK, Cap
  <2>2. Cap(Len(heap))' = Cap(Len(heap))
    BY <1>1 DEF Cap
  <2> QED BY <1>1, <2>1, <2>2 DEF Inv, HeapInv, Growing
<1>3. NextLeft' \subseteq Used
  <2>1. NextLeft' = NextLeft
    BY <1>1 DEF NextLeft, NextAt, Growing, Indices
  <2> QED BY <2>1 DEF Inv, NextInv
<1>4. \A k \in Indices(latencies) : At(k)' \in Used
  BY <1>1 DEF At, Inv, OwnInv
<1> QED BY <1>2, <1>3, <1>4, JobKeeps

\* An element that is not less than the one before it is in its place.
LEMMA ElementPlaced ==
    ASSUME Inv, Sorting, raced.own = 0,
           Down > 0 => ~(OwnAt(Down) < OwnAt(Down - 1))
    PROVE  \A a, b \in 0..pos.i : a < b => OwnAt(a) < OwnAt(b)
<1>1. Running
  BY DEF Sorting, Running
<1> SUFFICES ASSUME NEW d, d = Down, NEW i, i = pos.i
             PROVE  \A a, b \in 0..i : a < b => OwnAt(a) < OwnAt(b)
  OBVIOUS
<1>2. d \in 0..i /\ i \in Nat /\ i < latencies.len /\ latencies.len \in Nat
  BY DEF Inv, PlaceInv, HeapInv, SliceOK, Down
<1>3. 0..i \subseteq Indices(latencies)
  BY <1>2 DEF Indices
<1>4. \A k \in 0..i : OwnAt(k) \in Nat
  BY <1>1, <1>3, OwnApart
<1>5. d > 0 => OwnAt(d - 1) < OwnAt(d)
  <2> SUFFICES ASSUME d > 0 PROVE OwnAt(d - 1) < OwnAt(d)
    OBVIOUS
  <2>1. d - 1 \in 0..i /\ d - 1 # d
    BY <1>2
  <2>2. OwnAt(d - 1) # OwnAt(d)
    BY <1>1, <1>2, <1>3, <2>1, OwnApart
  <2>3. ~(OwnAt(d) < OwnAt(d - 1))
    OBVIOUS
  <2> QED BY <1>2, <1>4, <2>1, <2>2, <2>3
<1>6. /\ \A a, b \in 0..i : a < b /\ a # d /\ b # d => OwnAt(a) < OwnAt(b)
      /\ \A b \in 0..i : d < b => OwnAt(d) < OwnAt(b)
  BY <1>1 DEF Inv, SortInv
<1> SUFFICES ASSUME NEW a \in 0..i, NEW b \in 0..i, a < b PROVE OwnAt(a) < OwnAt(b)
  OBVIOUS
<1>7. CASE b # d
  BY <1>6, <1>7
<1>8. CASE b = d
  <2>1. d - 1 \in 0..i /\ d > 0 /\ OwnAt(d - 1) < OwnAt(d)
    BY <1>2, <1>5, <1>8
  <2>2. CASE a = d - 1
    BY <1>8, <2>1, <2>2
  <2>3. CASE a # d - 1
    <3>1. a < d - 1 /\ a # d /\ d - 1 # d
      BY <1>2, <1>8, <2>3
    <3>2. OwnAt(a) < OwnAt(d - 1)
      BY <1>6, <2>1, <3>1
    <3> QED BY <1>4, <1>8, <2>1, <3>2
  <2> QED BY <2>2, <2>3
<1> QED BY <1>7, <1>8

\* When an element is in its place, the sort goes on with the next, or is over.
LEMMA NextElementSorted ==
    ASSUME Inv, Sorting, NextElement, UNCHANGED <<growth, latencies, raced, read>>,
           \A k \in Indices(latencies) : OwnAt(k)' = OwnAt(k) /\ At(k)' = OwnAt(k),
           raced.own = 0 => \A a, b \in 0..pos.i : a < b => OwnAt(a) < OwnAt(b)
    PROVE  SortInv'
<1> SUFFICES ASSUME raced.own = 0 PROVE SortInv'
  BY DEF SortInv
<1>1. Running /\ ~Growing /\ ~Growing'
  BY DEF Sorting, Running, Inv, SortInv, Growing
<1>2. pos.i \in Nat /\ pos.i < latencies.len /\ latencies.len \in Nat
  BY DEF Inv, PlaceInv, HeapInv, SliceOK
<1>3. CASE pos.i + 1 < latencies.len
  <2>1. pc' = "compare" /\ pos'.i = pos.i + 1 /\ Down' = pos.i + 1
    BY <1>3 DEF NextElement, Down
  <2>2. \A a \in 0..pos'.i : a # Down' => a \in 0..pos.i /\ a \in Indices(latencies)
    BY <1>2, <2>1 DEF Indices
  <2>3. \A a, b \in 0..pos'.i : a < b /\ a # Down' /\ b # Down' => OwnAt(a)' < OwnAt(b)'
    BY <2>2
  <2>4. \A b \in 0..pos'.i : ~(Down' < b)
    BY <1>2, <2>1
  <2> QED BY <1>1, <2>1, <2>3, <2>4 DEF SortInv, Sorting
<1>4. CASE ~(pos.i + 1 < latencies.len)
  <2>1. pc' = "sum"
    BY <1>4 DEF NextElement
  <2>2. Indices(latencies)' = Indices(latencies) /\ Indices(latencies) = 0..pos.i
    BY <1>2, <1>4 DEF Indices
  <2> QED BY <1>1, <2>1, <2>2 DEF SortInv, Sorting
<1> QED BY <1>3, <1>4

\* What the reports are made of.
LEMMA ReportTypes ==
    ASSUME ReportInv, NEW k \in DOMAIN reports
    PROVE  reports[k].own \subseteq Sample /\ reports[k].read \in Seq(Sample) /\ reports[k].raced \in Nat
<1> DEFINE R == [own : SUBSET Sample, read : Seq(Sample), raced : Nat, tail : Int]
<1>1. reports \in Seq(R)
  BY DEF ReportInv
<1>2. reports[k] \in R
  <2> HIDE DEF R
  <2> QED BY <1>1
<1> QED BY ONLY <1>2

\* What is used was measured.
LEMMA UsedAreSamples ==
    ASSUME Inv
    PROVE  Used \subseteq Sample
<1>1. \A k \in DOMAIN reports : reports[k].own \subseteq Sample
  BY ReportTypes DEF Inv
<1> QED BY <1>1 DEF Inv, WindowInv, Used

\* Where a sort under way reads and writes.
LEMMA SortFacts ==
    ASSUME Inv, Sorting
    PROVE  /\ Running /\ read = <<>> /\ Len(read) = 0
           /\ pos.i \in Nat /\ pos.j \in Nat /\ 1 <= pos.j /\ pos.j <= pos.i /\ pos.i < latencies.len
           /\ latencies.len \in Nat /\ latencies.array \in DOMAIN heap
           /\ latencies.len <= Cap(latencies.array) /\ Cap(latencies.array) \in Nat
           /\ pos.j \in Indices(latencies) /\ pos.j - 1 \in Indices(latencies)
           /\ Used \subseteq Sample
           /\ \A k \in Indices(latencies) : At(k) \in Used /\ At(k) \in Nat /\ OwnAt(k) \in Used
<1>1. Running
  BY DEF Sorting, Running
<1>2. /\ pos.i \in Nat /\ pos.j \in Nat /\ 1 <= pos.j /\ pos.j <= pos.i /\ pos.i < latencies.len
      /\ latencies.len \in Nat /\ latencies.array \in DOMAIN heap /\ heap \in Seq(Blocks)
      /\ latencies.len <= Cap(latencies.array)
  BY DEF Inv, PlaceInv, HeapInv, SliceOK
<1>3. pos.j \in Indices(latencies) /\ pos.j - 1 \in Indices(latencies)
  BY <1>2 DEF Indices
<1>4. read = <<>>
  BY DEF Inv, PlaceInv, Sorting
<1>5. Used \subseteq Sample
  BY UsedAreSamples
<1>6. \A k \in Indices(latencies) : At(k) \in Used /\ OwnAt(k) \in Used
  BY <1>1 DEF Inv, OwnInv, OwnLeft
<1> QED BY <1>1, <1>2, <1>3, <1>4, <1>5, <1>6, Layout, SampleAssumption

\* The order is kept when the same element goes down between the same others.
LEMMA OrderKept ==
    ASSUME Inv, Sorting, Sorting', Down' = Down, pos'.i = pos.i, UNCHANGED <<growth, latencies, raced>>,
           \A k \in Indices(latencies) : OwnAt(k)' = OwnAt(k), NEW j, j = pos'.j,
           pc' = "exchange" => OwnAt(j) < OwnAt(j - 1) /\ j \in Indices(latencies) /\ j - 1 \in Indices(latencies)
    PROVE  SortInv'
<1> SUFFICES ASSUME raced.own = 0 PROVE SortInv'
  BY DEF SortInv
<1> SUFFICES ASSUME NEW d, d = Down, NEW i, i = pos.i
             PROVE  SortInv'
  OBVIOUS
<1>1. Running /\ Running'
  BY DEF Sorting, Running
<1>2. /\ ~Growing
      /\ \A a, b \in 0..i : a < b /\ a # d /\ b # d => OwnAt(a) < OwnAt(b)
      /\ \A b \in 0..i : d < b => OwnAt(d) < OwnAt(b)
  BY <1>1 DEF Inv, SortInv
<1>3. d \in 0..i /\ 0..i \subseteq Indices(latencies)
  <2>1. d = pos.j \/ d = pos.j - 1
    BY DEF Down
  <2> QED BY <2>1, SortFacts DEF Indices
<1>4. ~Growing'
  BY <1>2 DEF Growing
<1>5. /\ \A a, b \in 0..i : a < b /\ a # d /\ b # d => OwnAt(a)' < OwnAt(b)'
      /\ \A b \in 0..i : d < b => OwnAt(d)' < OwnAt(b)'
  BY <1>2, <1>3
<1>6. pc' = "exchange" => OwnAt(j)' < OwnAt(j - 1)'
  BY <1>2
<1> QED BY <1>1, <1>4, <1>5, <1>6 DEF SortInv

LEMMA CompareInv ==
    ASSUME Inv, Compare
    PROVE  Inv'
<1> SUFFICES ASSUME NEW j, j = pos.j PROVE Inv'
  OBVIOUS
<1>1. /\ pc = "compare" /\ Sorting
      /\ UNCHANGED <<heap, tracker, latencies, held, read, own, raced, reports>>
      /\ \/ At(j) < At(j - 1) /\ pc' = "exchange" /\ pos' = pos
         \/ ~(At(j) < At(j - 1)) /\ NextElement
  BY DEF Compare, Less, Sorting
<1>2. /\ Running /\ read = <<>> /\ Len(read) = 0
      /\ pos.i \in Nat /\ pos.j \in Nat /\ 1 <= pos.j /\ pos.j <= pos.i /\ pos.i < latencies.len
      /\ latencies.len \in Nat
      /\ pos.j \in Indices(latencies) /\ pos.j - 1 \in Indices(latencies)
  BY <1>1, SortFacts
<1>3. pc' \in {"exchange", "compare", "sum"} /\ Running'
  BY <1>1 DEF NextElement, Running
<1>4. \A k \in Indices(latencies) : OwnAt(k) = At(k) /\ At(k)' = At(k) /\ OwnAt(k)' = At(k)
  <2> SUFFICES ASSUME NEW k \in Indices(latencies)
               PROVE  OwnAt(k) = At(k) /\ At(k)' = At(k) /\ OwnAt(k)' = At(k)
    OBVIOUS
  <2>1. At(k)' = At(k)
    BY <1>1 DEF At
  <2>2. ~(k < Len(read)) /\ read' = read
    BY <1>1, <1>2 DEF Indices
  <2>3. OwnAt(k) = At(k) /\ OwnAt(k)' = At(k)'
    BY <1>1, <1>3, <2>2 DEF OwnAt
  <2> QED BY <2>1, <2>3
<1>5. Indices(latencies)' = Indices(latencies)
  BY <1>1 DEF Indices
<1>6. OwnLeft' = OwnLeft
  <2>1. OwnLeft' = {OwnAt(k)' : k \in Indices(latencies)} /\ OwnLeft = {OwnAt(k) : k \in Indices(latencies)}
    BY <1>5 DEF OwnLeft
  <2> QED BY ONLY <1>4, <2>1
<1>7. HeapInv' /\ WindowInv' /\ ReportInv' /\ NextInv' /\ OwnInv'
  BY <1>1, <1>2, <1>3, <1>6, JobReads
<1>8. PlaceInv'
  <2>1. /\ latencies' = latencies /\ held' = held /\ read' = <<>> /\ Len(read') = 0
        /\ held \in [left : Sample \cup {0}, right : Sample \cup {0}] /\ read' \in Seq(Sample)
    BY <1>1, <1>2 DEF Inv, PlaceInv
  <2>2. /\ pos' \in [i : Nat, j : Nat]
        /\ pc' # "sum" => 1 <= pos'.j /\ pos'.j <= pos'.i /\ pos'.i < latencies.len
    BY <1>1, <1>2 DEF Inv, PlaceInv, NextElement
  <2> QED BY <1>2, <1>3, <2>1, <2>2 DEF PlaceInv, JobSteps, Sorting
<1>9. SortInv'
  <2>1. CASE At(j) < At(j - 1) /\ pc' = "exchange" /\ pos' = pos
    <3>1. Sorting' /\ Down' = Down /\ pos'.i = pos.i /\ j = pos'.j
      BY <1>1, <2>1 DEF Sorting, Down
    <3>2. OwnAt(j) < OwnAt(j - 1) /\ j \in Indices(latencies) /\ j - 1 \in Indices(latencies)
      BY <1>2, <1>4, <2>1
    <3>3. growth' = growth
      BY <1>1 DEF tracker
    <3> QED BY <1>1, <1>4, <3>1, <3>2, <3>3, OrderKept
  <2>2. CASE ~(At(j) < At(j - 1)) /\ NextElement
    <3>1. Down = j /\ ~(OwnAt(Down) < OwnAt(Down - 1))
      BY <1>1, <1>2, <1>4, <2>2 DEF Down
    <3>2. raced.own = 0 => \A a, b \in 0..pos.i : a < b => OwnAt(a) < OwnAt(b)
      BY <1>1, <3>1, ElementPlaced
    <3>3. growth' = growth /\ latencies' = latencies /\ raced' = raced /\ read' = read
      BY <1>1 DEF tracker
    <3>4. \A k \in Indices(latencies) : OwnAt(k)' = OwnAt(k) /\ At(k)' = OwnAt(k)
      BY <1>4
    <3> QED BY <1>1, <2>2, <3>2, <3>3, <3>4, NextElementSorted
  <2> QED BY <1>1, <2>1, <2>2
<1> QED BY <1>7, <1>8, <1>9 DEF Inv

LEMMA ExchangeInv ==
    ASSUME Inv, Exchange
    PROVE  Inv'
<1> SUFFICES ASSUME NEW j, j = pos.j, NEW i, i = pos.i PROVE Inv'
  OBVIOUS
<1>1. /\ pc = "exchange" /\ Sorting /\ pc' = "first" /\ Running'
      /\ held' = [left |-> At(j - 1), right |-> At(j)]
      /\ UNCHANGED <<heap, tracker, latencies, pos, read, own, raced, reports>>
  BY DEF Exchange, Sorting, Running
<1>2. /\ Running /\ read = <<>> /\ Len(read) = 0
      /\ i \in Nat /\ j \in Nat /\ 1 <= j /\ j <= i /\ i < latencies.len
      /\ latencies.len \in Nat
      /\ j \in Indices(latencies) /\ j - 1 \in Indices(latencies)
      /\ Used \subseteq Sample
      /\ At(j) \in Used /\ At(j - 1) \in Used
  BY <1>1, SortFacts
<1>3. \A k \in Indices(latencies) :
          /\ OwnAt(k) = At(k)
          /\ OwnAt(k)' = IF k = j THEN OwnAt(j - 1) ELSE IF k = j - 1 THEN OwnAt(j) ELSE OwnAt(k)
  <2>1. \A k \in Indices(latencies) : OwnAt(k) = At(k)
    BY <1>1 DEF OwnAt
  <2>2. \A k \in Indices(latencies) : At(k)' = At(k)
    BY <1>1 DEF At
  <2>3. \A k \in Indices(latencies) :
            OwnAt(k)' = IF k = j THEN At(j - 1) ELSE IF k = j - 1 THEN At(j) ELSE At(k)
    BY <1>1, <1>2, <2>2 DEF OwnAt
  <2> QED BY <1>2, <2>1, <2>3
<1>4. Indices(latencies)' = Indices(latencies)
  BY <1>1 DEF Indices
<1>5. OwnLeft' = OwnLeft
  <2>1. OwnLeft' = {OwnAt(k)' : k \in Indices(latencies)} /\ OwnLeft = {OwnAt(k) : k \in Indices(latencies)}
    BY <1>4 DEF OwnLeft
  <2>2. OwnLeft' \subseteq OwnLeft
    BY ONLY <1>2, <1>3, <2>1
  <2>3. OwnLeft \subseteq OwnLeft'
    <3>1. OwnAt(j)' = OwnAt(j - 1) /\ OwnAt(j - 1)' = OwnAt(j)
      BY <1>2, <1>3
    <3> QED BY ONLY <1>2, <1>3, <2>1, <3>1
  <2> QED BY <2>2, <2>3
<1>6. HeapInv' /\ WindowInv' /\ ReportInv' /\ NextInv' /\ OwnInv'
  BY <1>1, <1>2, <1>5, JobReads
<1>7. PlaceInv'
  BY <1>1, <1>2 DEF Inv, PlaceInv, JobSteps, Sorting
<1>8. SortInv'
  <2> SUFFICES ASSUME raced.own = 0 PROVE SortInv'
    BY <1>1 DEF SortInv
  <2>1. /\ ~Growing
        /\ \A a, b \in 0..i : a < b /\ a # j /\ b # j => OwnAt(a) < OwnAt(b)
        /\ \A b \in 0..i : j < b => OwnAt(j) < OwnAt(b)
        /\ OwnAt(j) < OwnAt(j - 1)
    BY <1>1, <1>2 DEF Inv, SortInv, Down
  <2>2. Down' = j - 1 /\ Sorting' /\ pos'.i = i /\ pc' # "exchange"
    BY <1>1 DEF Down, Sorting
  <2>3. 0..i \subseteq Indices(latencies) /\ j \in 0..i /\ j - 1 \in 0..i
    BY <1>2 DEF Indices
  <2>4. \A a, b \in 0..i : a < b /\ a # j - 1 /\ b # j - 1 => OwnAt(a)' < OwnAt(b)'
    <3> SUFFICES ASSUME NEW a \in 0..i, NEW b \in 0..i, a < b, a # j - 1, b # j - 1
                 PROVE  OwnAt(a)' < OwnAt(b)'
      OBVIOUS
    <3>1. CASE a = j
      <4>1. OwnAt(a)' = OwnAt(j - 1) /\ OwnAt(b)' = OwnAt(b) /\ j - 1 < b /\ b # j /\ j - 1 # j
        BY <1>2, <1>3, <2>3, <3>1
      <4> QED BY <2>1, <2>3, <4>1
    <3>2. CASE b = j
      <4>1. OwnAt(b)' = OwnAt(j - 1) /\ OwnAt(a)' = OwnAt(a) /\ a < j - 1 /\ a # j /\ j - 1 # j
        BY <1>2, <1>3, <2>3, <3>2
      <4> QED BY <2>1, <2>3, <4>1
    <3>3. CASE a # j /\ b # j
      <4>1. OwnAt(a)' = OwnAt(a) /\ OwnAt(b)' = OwnAt(b)
        BY <1>3, <2>3, <3>3
      <4> QED BY <2>1, <3>3, <4>1
    <3> QED BY <3>1, <3>2, <3>3
  <2>5. \A b \in 0..i : j - 1 < b => OwnAt(j - 1)' < OwnAt(b)'
    <3> SUFFICES ASSUME NEW b \in 0..i, j - 1 < b PROVE OwnAt(j - 1)' < OwnAt(b)'
      OBVIOUS
    <3>1. OwnAt(j - 1)' = OwnAt(j)
      BY <1>2, <1>3
    <3>2. CASE b = j
      BY <1>2, <1>3, <2>1, <3>1, <3>2
    <3>3. CASE b # j
      <4>1. OwnAt(b)' = OwnAt(b) /\ j < b
        BY <1>2, <1>3, <2>3, <3>3
      <4> QED BY <2>1, <3>1, <4>1
    <3> QED BY <3>2, <3>3
  <2>6. ~Growing'
    BY <1>1, <2>1 DEF Growing, tracker
  <2>7. \A b \in 0..pos'.i : Down' < b => (OwnAt(Down))' < OwnAt(b)'
    BY <2>2, <2>5
  <2> QED BY <1>1, <2>2, <2>4, <2>6, <2>7 DEF SortInv
<1> QED BY <1>6, <1>7, <1>8 DEF Inv

\* An assignment to a place of the job's slice: what the other places, and the next window, see.
LEMMA JobWrites ==
    ASSUME Inv, Sorting, NEW m \in Indices(latencies), NEW v \in Used, Put(m, v),
           UNCHANGED <<tracker, latencies, own, raced, reports>>
    PROVE  /\ HeapInv' /\ At(m)' = v
           /\ \A k \in Indices(latencies) : k # m => At(k)' = At(k)
           /\ NextLeft' \subseteq Used
<1> SUFFICES ASSUME NEW g, g = latencies.array
             PROVE  /\ HeapInv' /\ At(m)' = v
                    /\ \A k \in Indices(latencies) : k # m => At(k)' = At(k)
                    /\ NextLeft' \subseteq Used
  OBVIOUS
<1>1. /\ g \in DOMAIN heap /\ Cap(g) \in Nat /\ latencies.len <= Cap(g) /\ latencies.len \in Nat
      /\ heap \in Seq(Blocks) /\ v \in Sample
      /\ heap' = [heap EXCEPT ![g][m] = v]
      /\ latencyTracking' = latencyTracking /\ growth' = growth /\ fresh' = fresh /\ latencies' = latencies
  BY SortFacts DEF Inv, HeapInv, Put, tracker
<1>2. m \in 0..(Cap(g) - 1)
  BY <1>1 DEF Indices
<1>3. /\ heap' \in Seq(Blocks) /\ Len(heap') = Len(heap) /\ DOMAIN heap' = DOMAIN heap
      /\ \A h \in DOMAIN heap : Cap(h)' = Cap(h)
      /\ heap'[g][m] = v
      /\ \A h \in DOMAIN heap : \A l \in 0..(Cap(h) - 1) :
            h # g \/ l # m => heap'[h][l] = heap[h][l]
  <2>1. v \in Sample \cup {0}
    BY <1>1
  <2>2. Assigned(g, m, v)
    BY <1>1 DEF Assigned
  <2>3. OnlyChanged(g, m, v)
    BY ONLY <1>1, <1>2, <2>1, <2>2, Write
  <2> QED BY ONLY <2>3 DEF OnlyChanged
<1>4. HeapInv'
  <2>1. SliceOK(latencyTracking)' /\ SliceOK(latencies)'
    BY <1>1, <1>3 DEF Inv, HeapInv, SliceOK
  <2>2. Growing => Cap(Len(heap))' = Cap(Len(heap))
    BY <1>3, GrowthFacts
  <2> QED BY <1>1, <1>3, <2>1, <2>2 DEF Inv, HeapInv, Growing
<1>5. At(m)' = v
  BY <1>1, <1>3 DEF At
<1>6. \A k \in Indices(latencies) : k # m => At(k)' = At(k)
  BY <1>1, <1>3 DEF At, Indices
<1>7. NextLeft' \subseteq Used
  <2>1. \A k \in Indices(latencyTracking) : NextAt(k)' \in {NextAt(k), v}
    <3> SUFFICES ASSUME NEW k \in Indices(latencyTracking) PROVE NextAt(k)' \in {NextAt(k), v}
      OBVIOUS
    <3>1. CASE Growing /\ k < growth.copied
      <4>1. NextAt(k)' = heap'[Len(heap)][k] /\ NextAt(k) = heap[Len(heap)][k]
        BY <1>1, <1>3, <3>1 DEF NextAt, Growing
      <4>2. Len(heap) \in DOMAIN heap /\ k \in 0..(Cap(Len(heap)) - 1)
        BY <3>1, GrowthFacts DEF Indices
      <4> QED BY <1>3, <4>1, <4>2
    <3>2. CASE ~(Growing /\ k < growth.copied)
      <4>1. NextAt(k)' = heap'[latencyTracking.array][k] /\ NextAt(k) = heap[latencyTracking.array][k]
        BY <1>1, <3>2 DEF NextAt, Growing
      <4>2. latencyTracking.array \in DOMAIN heap /\ k \in 0..(Cap(latencyTracking.array) - 1)
        BY Layout DEF Indices, Inv, HeapInv, SliceOK
      <4> QED BY <1>3, <4>1, <4>2
    <3> QED BY <3>1, <3>2
  <2>2. Indices(latencyTracking)' = Indices(latencyTracking)
    BY <1>1 DEF Indices
  <2>3. NextLeft \subseteq Used
    BY DEF Inv, NextInv
  <2>4. NextLeft' = {NextAt(k)' : k \in Indices(latencyTracking)} \cup (IF Growing THEN {growth.sample} ELSE {})
    BY <1>1, <2>2 DEF NextLeft, Growing
  <2>5. \A k \in Indices(latencyTracking) : NextAt(k) \in Used
    BY <2>3 DEF NextLeft
  <2>6. Growing => growth.sample \in Used
    BY <2>3 DEF NextLeft
  <2> QED BY ONLY <2>1, <2>4, <2>5, <2>6, v \in Used
<1> QED BY <1>4, <1>5, <1>6, <1>7

LEMMA WriteFirstInv ==
    ASSUME Inv, WriteFirst
    PROVE  Inv'
<1> SUFFICES ASSUME NEW j, j = pos.j PROVE Inv'
  OBVIOUS
<1>1. /\ pc = "first" /\ Sorting /\ pc' = "second" /\ Running' /\ Put(j, held.left)
      /\ UNCHANGED <<tracker, latencies, pos, held, read, own, raced, reports>>
  BY DEF WriteFirst, Sorting, Running
<1>2. /\ Running /\ read = <<>> /\ Len(read) = 0 /\ j \in Nat
      /\ j \in Indices(latencies) /\ j - 1 \in Indices(latencies)
      /\ \A k \in Indices(latencies) : At(k) \in Used /\ OwnAt(k) \in Used
  BY <1>1, SortFacts
<1>3. OwnAt(j) = held.left
  BY <1>1 DEF OwnAt
<1>4. held.left \in Used
  BY <1>2, <1>3
<1>5. /\ HeapInv' /\ At(j)' = held.left
      /\ \A k \in Indices(latencies) : k # j => At(k)' = At(k)
      /\ NextLeft' \subseteq Used
  BY <1>1, <1>2, <1>4, JobWrites
<1>6. \A k \in Indices(latencies) : OwnAt(k)' = OwnAt(k)
  <2> SUFFICES ASSUME NEW k \in Indices(latencies) PROVE OwnAt(k)' = OwnAt(k)
    OBVIOUS
  <2>1. OwnAt(k)' = IF k = j - 1 THEN held.right ELSE At(k)'
    BY <1>1 DEF OwnAt
  <2>2. OwnAt(k) = IF k = j THEN held.left ELSE IF k = j - 1 THEN held.right ELSE At(k)
    BY <1>1 DEF OwnAt
  <2> QED BY <1>2, <1>5, <2>1, <2>2
<1>7. OwnLeft' = OwnLeft
  <2>1. OwnLeft' = {OwnAt(k)' : k \in Indices(latencies)} /\ OwnLeft = {OwnAt(k) : k \in Indices(latencies)}
    BY <1>1 DEF OwnLeft, Indices
  <2> QED BY ONLY <1>6, <2>1
<1>8. \A k \in Indices(latencies) : At(k)' \in Used
  BY <1>2, <1>4, <1>5
<1>9. WindowInv' /\ ReportInv' /\ NextInv' /\ OwnInv'
  BY <1>1, <1>2, <1>5, <1>7, <1>8, JobKeeps
<1>10. PlaceInv'
  BY <1>1, <1>2 DEF Inv, PlaceInv, JobSteps, Sorting
<1>11. SortInv'
  <2>1. Sorting' /\ Down' = Down /\ pos'.i = pos.i /\ j = pos'.j /\ pc' # "exchange" /\ growth' = growth
    BY <1>1 DEF Sorting, Down, tracker
  <2> QED BY <1>1, <1>6, <2>1, OrderKept
<1> QED BY <1>5, <1>9, <1>10, <1>11 DEF Inv

LEMMA WriteSecondInv ==
    ASSUME Inv, WriteSecond
    PROVE  Inv'
<1> SUFFICES ASSUME NEW j, j = pos.j PROVE Inv'
  OBVIOUS
<1>1. /\ pc = "second" /\ Sorting /\ Put(j - 1, held.right)
      /\ \/ j > 1 /\ pc' = "compare" /\ pos' = [pos EXCEPT !.j = @ - 1]
         \/ ~(j > 1) /\ NextElement
      /\ UNCHANGED <<tracker, latencies, held, read, own, raced, reports>>
  BY DEF WriteSecond, Sorting
<1>2. /\ Running /\ read = <<>> /\ Len(read) = 0
      /\ pos.i \in Nat /\ j \in Nat /\ 1 <= j /\ j <= pos.i /\ pos.i < latencies.len /\ latencies.len \in Nat
      /\ j \in Indices(latencies) /\ j - 1 \in Indices(latencies)
      /\ \A k \in Indices(latencies) : At(k) \in Used /\ OwnAt(k) \in Used
  BY <1>1, SortFacts
<1>3. OwnAt(j - 1) = held.right
  BY <1>1 DEF OwnAt
<1>4. held.right \in Used /\ pc' \in {"compare", "sum"} /\ Running'
  BY <1>1, <1>2, <1>3 DEF NextElement, Running
<1>5. /\ HeapInv' /\ At(j - 1)' = held.right
      /\ \A k \in Indices(latencies) : k # j - 1 => At(k)' = At(k)
      /\ NextLeft' \subseteq Used
  BY <1>1, <1>2, <1>4, JobWrites
<1>6. \A k \in Indices(latencies) : OwnAt(k)' = OwnAt(k) /\ At(k)' = OwnAt(k)
  <2> SUFFICES ASSUME NEW k \in Indices(latencies) PROVE OwnAt(k)' = OwnAt(k) /\ At(k)' = OwnAt(k)
    OBVIOUS
  <2>1. ~(k < Len(read)) /\ read' = read
    BY <1>1, <1>2 DEF Indices
  <2>2. OwnAt(k)' = At(k)'
    BY <1>4, <2>1 DEF OwnAt
  <2>3. OwnAt(k) = IF k = j - 1 THEN held.right ELSE At(k)
    BY <1>1 DEF OwnAt
  <2> QED BY <1>2, <1>5, <2>2, <2>3
<1>7. OwnLeft' = OwnLeft
  <2>1. OwnLeft' = {OwnAt(k)' : k \in Indices(latencies)} /\ OwnLeft = {OwnAt(k) : k \in Indices(latencies)}
    BY <1>1 DEF OwnLeft, Indices
  <2> QED BY ONLY <1>6, <2>1
<1>8. \A k \in Indices(latencies) : At(k)' \in Used
  BY <1>2, <1>6
<1>9. WindowInv' /\ ReportInv' /\ NextInv' /\ OwnInv'
  BY <1>1, <1>2, <1>4, <1>5, <1>7, <1>8, JobKeeps
<1>10. PlaceInv'
  <2>1. /\ latencies' = latencies /\ held' = held /\ read' = <<>> /\ Len(read') = 0
        /\ held \in [left : Sample \cup {0}, right : Sample \cup {0}] /\ read' \in Seq(Sample)
    BY <1>1, <1>2 DEF Inv, PlaceInv
  <2>2. pos \in [i : Nat, j : Nat]
    BY DEF Inv, PlaceInv
  <2>3. /\ pos' \in [i : Nat, j : Nat]
        /\ pc' # "sum" => 1 <= pos'.j /\ pos'.j <= pos'.i /\ pos'.i < latencies.len
    BY <1>1, <1>2, <2>2 DEF NextElement
  <2> QED BY <1>2, <1>4, <2>1, <2>3 DEF PlaceInv, JobSteps, Sorting
<1>11. SortInv'
  <2>1. growth' = growth /\ latencies' = latencies /\ raced' = raced /\ read' = read
    BY <1>1 DEF tracker
  <2>2. CASE j > 1 /\ pc' = "compare" /\ pos' = [pos EXCEPT !.j = @ - 1]
    <3>1. pos'.i = pos.i /\ pos'.j = j - 1
      BY <2>2 DEF Inv, PlaceInv
    <3>2. Sorting' /\ Down' = Down /\ pc' # "exchange"
      BY <1>1, <2>2, <3>1 DEF Sorting, Down
    <3> QED BY <1>1, <1>6, <2>1, <3>1, <3>2, OrderKept
  <2>3. CASE ~(j > 1) /\ NextElement
    <3>1. Down = 0
      BY <1>1, <1>2, <2>3 DEF Down
    <3>2. raced.own = 0 => \A a, b \in 0..pos.i : a < b => OwnAt(a) < OwnAt(b)
      BY <1>1, <3>1, ElementPlaced
    <3> QED BY <1>1, <1>6, <2>1, <2>3, <3>2, NextElementSorted
  <2> QED BY <1>1, <2>2, <2>3
<1> QED BY <1>5, <1>9, <1>10, <1>11 DEF Inv

LEMMA SwapInv ==
    ASSUME Inv, Swap
    PROVE  Inv'
<1> SUFFICES ASSUME NEW g, g = latencyTracking.array, NEW n, n = latencyTracking.len PROVE Inv'
  OBVIOUS
<1>1. /\ pc = "idle" /\ ~Growing
      /\ latencies' = latencyTracking /\ latencyTracking' = [array |-> g, len |-> 0] /\ heap' = heap
      /\ pos' = IF n > 1 THEN [i |-> 1, j |-> 1] ELSE [i |-> 0, j |-> 0]
      /\ pc' = IF n > 1 THEN "compare" ELSE "sum"
      /\ own' = fresh /\ fresh' = {} /\ raced' = [fresh |-> 0, own |-> raced.fresh]
      /\ UNCHANGED <<growth, held, read, reports>>
  BY DEF Swap, Truncated, Unlocked, Inv, HeapInv, SliceOK
<1>2. /\ ~Running /\ Running' /\ own = {} /\ read = <<>> /\ Len(read) = 0 /\ n \in Nat
      /\ g \in Nat /\ g \in DOMAIN heap /\ Cap(g) \in Nat /\ n <= Cap(g)
      /\ Cardinality(fresh) = n /\ n <= MaxWindow /\ fresh \subseteq Sample /\ raced.fresh \in Nat
  <2>1. ~Running /\ Running'
    BY <1>1 DEF Running
  <2>2. own = {} /\ fresh \subseteq Sample /\ raced.fresh \in Nat
    BY <2>1 DEF Inv, WindowInv
  <2>3. read = <<>>
    BY <1>1 DEF Inv, PlaceInv
  <2>4. n \in Nat /\ g \in Nat /\ g \in DOMAIN heap /\ Cap(g) \in Nat /\ n <= Cap(g)
    BY Layout DEF Inv, HeapInv, SliceOK
  <2>5. Cardinality(fresh) = n /\ n <= MaxWindow
    BY <1>1, <2>4 DEF Inv, WindowInv, Beginning
  <2> QED BY <2>1, <2>2, <2>3, <2>4, <2>5
<1>3. Used' = Used /\ ReportInv'
  <2>1. Used' = Used
    BY <1>1, <1>2 DEF Used
  <2>2. fresh \cup own \subseteq fresh' \cup own' /\ \A k \in DOMAIN reports : reports[k].own \cap (fresh' \cup own') = {}
    BY <1>1, <1>2 DEF Inv, ReportInv
  <2> QED BY <1>1, <2>1, <2>2, ReportsStay
<1>4. HeapInv'
  <2>1. SliceOK(latencyTracking)'
    BY <1>1, <1>2 DEF SliceOK, Cap
  <2>2. SliceOK(latencies)'
    BY <1>1 DEF SliceOK, Cap, Inv, HeapInv
  <2>3. ~Growing'
    BY <1>1 DEF Growing
  <2> QED BY <1>1, <2>1, <2>2, <2>3 DEF Inv, HeapInv
<1>5. PlaceInv'
  <2>1. CASE n > 1
    BY <1>1, <1>2, <2>1 DEF Inv, PlaceInv, JobSteps, Sorting
  <2>2. CASE ~(n > 1)
    BY <1>1, <1>2, <2>2 DEF Inv, PlaceInv, JobSteps, Sorting
  <2> QED BY <2>1, <2>2
<1>6. WindowInv'
  <2>1. Beginning' = 0
    BY <1>1 DEF Beginning, Growing
  <2>2. Cardinality({}) = 0 /\ MaxWindow \in Nat
    BY FS_EmptySet, BoundAssumption
  <2> QED BY <1>1, <1>2, <2>1, <2>2 DEF WindowInv
<1>7. NextInv'
  <2>1. NextLeft' = {}
    BY <1>1 DEF NextLeft, Indices, Growing
  <2>2. Cardinality(fresh' \ NextLeft') = 0
    BY <1>1, FS_EmptySet
  <2> QED BY <1>1, <2>1, <2>2 DEF NextInv
<1>8. Indices(latencies)' = Indices(latencyTracking) /\ Indices(latencyTracking) = 0..(n - 1)
  BY <1>1 DEF Indices
<1>9. \A k \in 0..(n - 1) : At(k)' = NextAt(k) /\ OwnAt(k)' = NextAt(k)
  <2> SUFFICES ASSUME NEW k \in 0..(n - 1) PROVE At(k)' = NextAt(k) /\ OwnAt(k)' = NextAt(k)
    OBVIOUS
  <2>1. At(k)' = NextAt(k)
    BY <1>1 DEF At, NextAt
  <2>2. read' = <<>> /\ ~(k < Len(read))
    BY <1>1, <1>2
  <2>3. OwnAt(k)' = At(k)'
    BY <1>1, <2>2 DEF OwnAt
  <2> QED BY <2>1, <2>3
<1>10. OwnInv'
  <2>1. NextLeft = {NextAt(k) : k \in 0..(n - 1)}
    BY <1>1, <1>8 DEF NextLeft
  <2>2. OwnLeft' = {OwnAt(k)' : k \in 0..(n - 1)}
    BY <1>8 DEF OwnLeft
  <2>3. OwnLeft' = NextLeft
    BY ONLY <1>9, <2>1, <2>2
  <2>4. NextLeft \subseteq Used /\ Cardinality(fresh \ NextLeft) <= raced.fresh
    BY DEF Inv, NextInv
  <2>5. \A k \in 0..(n - 1) : At(k)' \in Used
    BY <1>9, <2>1, <2>4
  <2> QED BY <1>1, <1>3, <1>8, <2>3, <2>4, <2>5 DEF OwnInv
<1>11. SortInv'
  <2>1. ~Growing'
    BY <1>1 DEF Growing
  <2>2. CASE n > 1
    <3>1. Down' = 1 /\ pos'.i = 1 /\ pc' = "compare"
      BY <1>1, <2>2 DEF Down
    <3>2. /\ \A a, b \in 0..1 : ~(a < b /\ a # 1 /\ b # 1)
          /\ \A b \in 0..1 : ~(1 < b)
      OBVIOUS
    <3> QED BY <2>1, <3>1, <3>2 DEF SortInv, Sorting
  <2>3. CASE ~(n > 1)
    <3>1. \A a, b \in 0..(n - 1) : ~(a < b)
      BY <1>2, <2>3
    <3>2. \A k \in 0..(n - 1) : At(k)' = OwnAt(k)'
      BY <1>9
    <3>3. pc' = "sum"
      BY <1>1, <2>3
    <3> QED BY <1>8, <2>1, <3>1, <3>2, <3>3 DEF SortInv, Sorting
  <2> QED BY <2>2, <2>3
<1> QED BY <1>3, <1>4, <1>5, <1>6, <1>7, <1>10, <1>11 DEF Inv

\* While the job sums, the order stays as the sort has left it.
LEMMA SumKeepsOrder ==
    ASSUME Inv, ~Sorting, Running, ~Sorting', UNCHANGED <<heap, latencies, growth, raced>>,
           \A k \in Indices(latencies) : OwnAt(k)' = OwnAt(k)
    PROVE  SortInv'
<1>1. \A k \in Indices(latencies) : At(k)' = At(k)
  BY DEF At
<1>2. Indices(latencies)' = Indices(latencies)
  BY DEF Indices
<1> QED BY <1>1, <1>2 DEF Inv, SortInv, Growing

LEMMA SumOneInv ==
    ASSUME Inv, SumOne
    PROVE  Inv'
<1> SUFFICES ASSUME NEW l, l = Len(read), NEW v, v = At(l) PROVE Inv'
  OBVIOUS
<1>1. /\ pc = "sum" /\ pc' = "sum" /\ Running /\ Running' /\ ~Sorting /\ ~Sorting'
      /\ l < latencies.len /\ read' = Append(read, v)
      /\ UNCHANGED <<heap, tracker, latencies, pos, held, own, raced, reports>>
  BY DEF SumOne, Sorting, Running
<1>2. read \in Seq(Sample) /\ l \in Nat /\ latencies.len \in Nat /\ l \in Indices(latencies)
  <2>1. read \in Seq(Sample) /\ latencies.len \in Nat
    BY DEF Inv, PlaceInv, HeapInv, SliceOK
  <2>2. l \in Nat
    BY <2>1
  <2> QED BY <1>1, <2>1, <2>2 DEF Indices
<1>3. v \in Sample
  <2>1. v \in Used
    BY <1>1, <1>2 DEF Inv, OwnInv
  <2> QED BY <2>1, UsedAreSamples
<1>4. /\ read' \in Seq(Sample) /\ Len(read') = l + 1 /\ read'[l + 1] = v
      /\ \A m \in 1..l : read'[m] = read[m]
  BY <1>1, <1>2, <1>3
<1>5. \A k \in Indices(latencies) : OwnAt(k)' = OwnAt(k)
  <2> SUFFICES ASSUME NEW k \in Indices(latencies) PROVE OwnAt(k)' = OwnAt(k)
    OBVIOUS
  <2>1. OwnAt(k) = IF k < l THEN read[k + 1] ELSE At(k)
    BY <1>1 DEF OwnAt
  <2>2. OwnAt(k)' = IF k < l + 1 THEN read'[k + 1] ELSE At(k)'
    BY <1>1, <1>4 DEF OwnAt
  <2>3. At(k)' = At(k) /\ k \in Nat
    BY <1>1, <1>2 DEF At, Indices
  <2>4. CASE k < l
    BY <1>2, <1>4, <2>1, <2>2, <2>3, <2>4
  <2>5. CASE k = l
    BY <1>2, <1>4, <2>1, <2>2, <2>3, <2>5
  <2>6. CASE k > l
    BY <1>2, <1>4, <2>1, <2>2, <2>3, <2>6
  <2> QED BY <1>2, <2>3, <2>4, <2>5, <2>6
<1>6. OwnLeft' = OwnLeft
  <2>1. OwnLeft' = {OwnAt(k)' : k \in Indices(latencies)} /\ OwnLeft = {OwnAt(k) : k \in Indices(latencies)}
    BY <1>1 DEF OwnLeft, Indices
  <2> QED BY ONLY <1>5, <2>1
<1>7. HeapInv' /\ WindowInv' /\ ReportInv' /\ NextInv' /\ OwnInv'
  BY <1>1, <1>6, JobReads
<1>8. PlaceInv'
  BY <1>1, <1>2, <1>4 DEF Inv, PlaceInv
<1>9. SortInv'
  <2>1. growth' = growth
    BY <1>1 DEF tracker
  <2> QED BY <1>1, <1>5, <2>1, SumKeepsOrder
<1> QED BY <1>7, <1>8, <1>9 DEF Inv

LEMMA EndSumInv ==
    ASSUME Inv, EndSum
    PROVE  Inv'
<1>1. /\ pc = "sum" /\ pc' = "tail" /\ Running /\ Running' /\ ~Sorting /\ ~Sorting'
      /\ Len(read) = latencies.len
      /\ UNCHANGED <<heap, tracker, latencies, pos, held, read, own, raced, reports>>
  BY DEF EndSum, Sorting, Running
<1>2. \A k \in Indices(latencies) : OwnAt(k)' = OwnAt(k)
  <2>1. \A k \in Indices(latencies) : At(k)' = At(k)
    BY <1>1 DEF At
  <2> QED BY <1>1, <2>1 DEF OwnAt
<1>3. OwnLeft' = OwnLeft
  <2>1. OwnLeft' = {OwnAt(k)' : k \in Indices(latencies)} /\ OwnLeft = {OwnAt(k) : k \in Indices(latencies)}
    BY <1>1 DEF OwnLeft, Indices
  <2> QED BY ONLY <1>2, <2>1
<1>4. HeapInv' /\ WindowInv' /\ ReportInv' /\ NextInv' /\ OwnInv'
  BY <1>1, <1>3, JobReads
<1>5. PlaceInv'
  BY <1>1 DEF Inv, PlaceInv, JobSteps
<1>6. SortInv'
  <2>1. growth' = growth
    BY <1>1 DEF tracker
  <2> QED BY <1>1, <1>2, <2>1, SumKeepsOrder
<1> QED BY <1>4, <1>5, <1>6 DEF Inv

--------------------------------------------------------------------------------
(* The report.                                                             *)

\* With up to six latencies the tail is the last of the sorted slice.
LEMMA TailIsLast ==
    ASSUME NEW n \in 1..6
    PROVE  TailIndex(n) = n - 1
<1>1. n = 1 \/ n = 2 \/ n = 3 \/ n = 4 \/ n = 5 \/ n = 6
  OBVIOUS
<1> QED BY <1>1 DEF TailIndex

\* The largest of a set of numbers is the one that is.
LEMMA LargestIs ==
    ASSUME NEW S, S \subseteq Nat, NEW v \in S, \A w \in S : w <= v
    PROVE  Largest(S) = v
<1>1. \A u \in S : (\A w \in S : w <= u) => u = v
  <2> SUFFICES ASSUME NEW u \in S, \A w \in S : w <= u PROVE u = v
    OBVIOUS
  <2>1. v <= u /\ u <= v /\ u \in Nat /\ v \in Nat
    OBVIOUS
  <2> QED BY <2>1
<1> QED BY <1>1 DEF Largest

\* What the sum has read when it ends, and the tail of a window with latencies.
LEMMA SumIsOver ==
    ASSUME Inv, pc = "tail"
    PROVE  /\ read \in Seq(Sample) /\ Len(read) = latencies.len /\ latencies.len \in 0..6
           /\ \A k \in Indices(latencies) : OwnAt(k) = read[k + 1]
           /\ OwnLeft = Values(read)
           /\ latencies.len > 0 =>
                /\ TailIndex(latencies.len) = latencies.len - 1
                /\ latencies.len - 1 \in Indices(latencies)
<1>1. read \in Seq(Sample) /\ Len(read) = latencies.len /\ latencies.len \in Nat /\ latencies.len <= MaxWindow
  BY DEF Inv, PlaceInv, HeapInv, SliceOK, WindowInv
<1>2. latencies.len \in 0..6
  BY <1>1, BoundAssumption
<1>3. \A k \in Indices(latencies) : OwnAt(k) = read[k + 1]
  BY <1>1 DEF OwnAt, Indices
<1>4. OwnLeft = Values(read)
  <2>1. DOMAIN read = 1..latencies.len
    BY <1>1
  <2>2. \A k \in Indices(latencies) : k + 1 \in DOMAIN read
    BY <1>1, <2>1 DEF Indices
  <2>3. \A m \in DOMAIN read : m - 1 \in Indices(latencies) /\ OwnAt(m - 1) = read[m]
    <3> SUFFICES ASSUME NEW m \in DOMAIN read PROVE m - 1 \in Indices(latencies) /\ OwnAt(m - 1) = read[m]
      OBVIOUS
    <3>1. m - 1 \in Indices(latencies) /\ m \in Nat
      BY <1>1, <2>1 DEF Indices
    <3>2. OwnAt(m - 1) = read[(m - 1) + 1] /\ (m - 1) + 1 = m
      BY <1>3, <3>1
    <3> QED BY <3>1, <3>2
  <2> QED BY <1>3, <2>2, <2>3 DEF OwnLeft, Values
<1>5. latencies.len > 0 => TailIndex(latencies.len) = latencies.len - 1
  BY <1>2, TailIsLast
<1>6. latencies.len > 0 => latencies.len - 1 \in Indices(latencies)
  BY <1>1 DEF Indices
<1> QED BY <1>1, <1>2, <1>3, <1>4, <1>5, <1>6

\* A report on a window that no append shared with its job is exact.
LEMMA CleanWindow ==
    ASSUME Inv, pc = "tail", raced.own = 0
    PROVE  /\ Values(read) = own
           /\ \A m \in 1..(Len(read) - 1) : read[m] < read[m + 1]
           /\ latencies.len = 0 => own = {}
           /\ latencies.len > 0 => own # {} /\ At(TailIndex(latencies.len)) = Largest(own)
<1> SUFFICES ASSUME NEW n, n = latencies.len
             PROVE  /\ Values(read) = own
                    /\ \A m \in 1..(Len(read) - 1) : read[m] < read[m + 1]
                    /\ n = 0 => own = {}
                    /\ n > 0 => own # {} /\ At(TailIndex(n)) = Largest(own)
  OBVIOUS
<1>1. Running /\ ~Sorting
  BY DEF Running, Sorting
<1>2. /\ Len(read) = n /\ n \in Nat
      /\ \A k \in Indices(latencies) : OwnAt(k) = read[k + 1]
      /\ OwnLeft = Values(read)
      /\ n > 0 => TailIndex(n) = n - 1 /\ n - 1 \in Indices(latencies)
  BY SumIsOver
<1>3. /\ OwnLeft = own
      /\ \A k \in Indices(latencies) : OwnAt(k) \in own /\ OwnAt(k) \in Nat
  BY <1>1, OwnApart
<1>4. /\ \A a, b \in Indices(latencies) : a < b => OwnAt(a) < OwnAt(b)
      /\ \A k \in Indices(latencies) : At(k) = OwnAt(k)
  BY <1>1 DEF Inv, SortInv
<1>5. \A m \in 1..(Len(read) - 1) : read[m] < read[m + 1]
  <2> SUFFICES ASSUME NEW m \in 1..(n - 1) PROVE read[m] < read[m + 1]
    BY <1>2
  <2>1. m - 1 \in Indices(latencies) /\ m \in Indices(latencies) /\ m - 1 < m
    BY <1>2 DEF Indices
  <2>2. OwnAt(m - 1) = read[(m - 1) + 1] /\ (m - 1) + 1 = m /\ OwnAt(m) = read[m + 1]
    BY <1>2, <2>1
  <2> QED BY <1>4, <2>1, <2>2
<1>6. n = 0 => own = {}
  BY <1>2, <1>3 DEF OwnLeft, Indices
<1>7. ASSUME n > 0 PROVE own # {} /\ At(TailIndex(n)) = Largest(own)
  <2>1. n - 1 \in Indices(latencies) /\ TailIndex(n) = n - 1
    BY <1>2, <1>7
  <2>2. At(n - 1) = OwnAt(n - 1) /\ OwnAt(n - 1) \in own
    BY <1>3, <1>4, <2>1
  <2>3. \A w \in own : w <= OwnAt(n - 1)
    <3> SUFFICES ASSUME NEW k \in Indices(latencies) PROVE OwnAt(k) <= OwnAt(n - 1)
      BY <1>3 DEF OwnLeft
    <3>1. k = n - 1 \/ k < n - 1
      BY <1>2 DEF Indices
    <3>2. OwnAt(k) \in Nat /\ OwnAt(n - 1) \in Nat
      BY <1>3, <2>1
    <3> QED BY <1>4, <2>1, <3>1, <3>2
  <2>4. own \subseteq Nat
    BY SampleAssumption DEF Inv, WindowInv
  <2>5. Largest(own) = OwnAt(n - 1)
    BY <2>2, <2>3, <2>4, LargestIs
  <2> QED BY <2>1, <2>2, <2>5
<1> QED BY <1>2, <1>3, <1>5, <1>6, <1>7

LEMMA TakeTailInv ==
    ASSUME Inv, TakeTail
    PROVE  Inv'
<1> SUFFICES ASSUME NEW n, n = latencies.len, NEW t, t = IF n > 0 THEN At(TailIndex(n)) ELSE NoLatency
             PROVE  Inv'
  OBVIOUS
<1> DEFINE r == [own |-> own, read |-> read, raced |-> raced.own, tail |-> t]
           R == [own : SUBSET Sample, read : Seq(Sample), raced : Nat, tail : Int]
           last == Len(reports) + 1
<1>1. /\ pc = "tail" /\ pc' = "idle" /\ Running /\ ~Running'
      /\ reports' = Append(reports, r)
      /\ read' = <<>> /\ held' = [left |-> 0, right |-> 0] /\ own' = {}
      /\ UNCHANGED <<heap, tracker, latencies, pos, raced>>
  BY DEF TakeTail, Running
<1>2. latencyTracking' = latencyTracking /\ growth' = growth /\ fresh' = fresh
  BY <1>1 DEF tracker
<1>3. /\ read \in Seq(Sample) /\ Len(read) = n /\ n \in Nat
      /\ OwnLeft = Values(read)
      /\ n > 0 => TailIndex(n) = n - 1 /\ n - 1 \in Indices(latencies)
  BY <1>1, SumIsOver
<1>4. own \subseteq Sample /\ raced.own \in Nat /\ Cardinality(own) = n /\ fresh \cap own = {}
  BY <1>1 DEF Inv, WindowInv
<1>5. t = NoLatency \/ (t \in Used /\ t \in Sample)
  <2>1. CASE n > 0
    <3>1. At(n - 1) \in Used
      BY <1>1, <1>3, <2>1 DEF Inv, OwnInv
    <3> QED BY <1>3, <2>1, <3>1, UsedAreSamples
  <2>2. CASE ~(n > 0)
    BY <2>2
  <2> QED BY <2>1, <2>2
<1>6. r \in R
  <2>1. t \in Int
    <3>1. NoLatency \in Int
      BY DEF NoLatency
    <3>2. \A v \in Sample : v \in Int
      BY SampleAssumption
    <3> QED BY <1>5, <3>1, <3>2
  <2> QED BY <1>3, <1>4, <2>1
<1>7. r.own = own /\ r.read = read /\ r.raced = raced.own /\ r.tail = t
  OBVIOUS
<1>8. reports \in Seq(R)
  BY DEF Inv, ReportInv
<1> HIDE DEF r, R
<1>9. /\ reports' \in Seq(R) /\ last \in DOMAIN reports' /\ reports'[last] = r
      /\ last \notin DOMAIN reports
      /\ DOMAIN reports' = DOMAIN reports \cup {last}
      /\ \A k \in DOMAIN reports : reports'[k] = reports[k]
  BY <1>1, <1>6, <1>8
<1> HIDE DEF last
<1>10. \A k \in DOMAIN reports' : k = last \/ (k \in DOMAIN reports /\ reports'[k] = reports[k])
  BY <1>9
<1>11. \A k \in DOMAIN reports : reports[k].own \cap (fresh \cup own) = {}
  BY DEF Inv, ReportInv
<1>12. Used' = Used
  <2>1. UNION {reports'[k].own : k \in DOMAIN reports'} = own \cup UNION {reports[k].own : k \in DOMAIN reports}
    BY ONLY <1>7, <1>9
  <2> QED BY <1>1, <1>2, <2>1 DEF Used
<1>13. ReportInv'
  <2>1. reports' \in Seq([own : SUBSET Sample, read : Seq(Sample), raced : Nat, tail : Int])
    BY <1>9 DEF R
  <2>2. \A k \in DOMAIN reports' : reports'[k].own \cap (fresh' \cup own') = {}
    BY <1>1, <1>2, <1>4, <1>7, <1>9, <1>10, <1>11
  <2>3. ReportSizeIsExact'
    <3>1. ReportSizeIsExact
      BY DEF Inv, ReportInv
    <3>2. \A k \in DOMAIN reports' : Len(reports'[k].read) = Cardinality(reports'[k].own)
      BY <1>3, <1>4, <1>7, <1>9, <1>10, <3>1 DEF ReportSizeIsExact
    <3>3. \A k \in DOMAIN reports : reports[k].own \cap own = {}
      BY <1>11
    <3>4. \A k, m \in DOMAIN reports' : k # m => reports'[k].own \cap reports'[m].own = {}
      BY <1>7, <1>9, <1>10, <3>1, <3>3 DEF ReportSizeIsExact
    <3> QED BY <3>2, <3>4 DEF ReportSizeIsExact
  <2>4. NoPhantom'
    <3>1. NoPhantom
      BY DEF Inv, ReportInv
    <3>2. Values(r.read) \subseteq Used /\ r.tail \in Used \cup {NoLatency}
      BY <1>1, <1>3, <1>5, <1>7 DEF Inv, OwnInv
    <3>3. \A k \in DOMAIN reports' :
              Values(reports'[k].read) \subseteq Used /\ reports'[k].tail \in Used \cup {NoLatency}
      BY <1>9, <1>10, <3>1, <3>2 DEF NoPhantom
    <3> QED BY <1>12, <3>3 DEF NoPhantom, Values, NoLatency
  <2>5. DamageIsBounded'
    <3>1. DamageIsBounded
      BY DEF Inv, ReportInv
    <3>2. Cardinality(r.own \ Values(r.read)) <= r.raced
      BY <1>1, <1>3, <1>7 DEF Inv, OwnInv
    <3>3. \A k \in DOMAIN reports' : Cardinality(reports'[k].own \ Values(reports'[k].read)) <= reports'[k].raced
      BY <1>9, <1>10, <3>1, <3>2 DEF DamageIsBounded
    <3> QED BY <3>3 DEF DamageIsBounded, Values
  <2>6. CleanReportIsExact'
    <3> SUFFICES ASSUME NEW k \in DOMAIN reports', NEW q, q = reports'[k], q.raced = 0
                 PROVE  /\ Values(q.read) = q.own
                        /\ \A m \in 1..(Len(q.read) - 1) : q.read[m] < q.read[m + 1]
                        /\ q.tail = IF q.own = {} THEN NoLatency ELSE Largest(q.own)
      BY DEF CleanReportIsExact, Values, NoLatency, Largest
    <3>1. CASE k = last
      <4>1. q = r /\ raced.own = 0
        BY <1>7, <1>9, <3>1
      <4>2. /\ Values(read) = own
            /\ \A m \in 1..(Len(read) - 1) : read[m] < read[m + 1]
            /\ n = 0 => own = {}
            /\ n > 0 => own # {} /\ At(TailIndex(n)) = Largest(own)
        BY <1>1, <4>1, CleanWindow
      <4>3. t = IF own = {} THEN NoLatency ELSE Largest(own)
        BY <1>3, <4>2
      <4> QED BY <1>7, <4>1, <4>2, <4>3
    <3>2. CASE k \in DOMAIN reports /\ reports'[k] = reports[k]
      BY <3>2 DEF Inv, ReportInv, CleanReportIsExact
    <3> QED BY <1>10, <3>1, <3>2
  <2> QED BY <2>1, <2>2, <2>3, <2>4, <2>5, <2>6 DEF ReportInv
<1>14. HeapInv'
  <2>1. heap' = heap /\ latencies' = latencies
    BY <1>1
  <2>2. SliceOK(latencyTracking)' /\ SliceOK(latencies)'
    BY <1>2, <2>1 DEF Inv, HeapInv, SliceOK, Cap
  <2>3. Cap(Len(heap))' = Cap(Len(heap))
    BY <2>1 DEF Cap
  <2> QED BY <1>2, <2>1, <2>2, <2>3 DEF Inv, HeapInv, Growing
<1>15. PlaceInv'
  <2>1. read' \in Seq(Sample)
    BY <1>1
  <2> QED BY <1>1, <2>1 DEF Inv, PlaceInv, JobSteps, Sorting
<1>16. WindowInv'
  <2>1. Beginning' = Beginning /\ latencies' = latencies /\ raced' = raced
    BY <1>1, <1>2 DEF Beginning, Growing
  <2> QED BY <1>1, <1>2, <2>1 DEF Inv, WindowInv
<1>17. NextInv'
  <2>1. NextLeft' = NextLeft
    BY <1>1, <1>2 DEF NextLeft, NextAt, Growing, Indices
  <2> QED BY <1>1, <1>2, <1>12, <2>1, NextUntouched
<1>18. OwnInv' /\ SortInv'
  BY <1>1 DEF OwnInv, SortInv
<1> QED BY <1>13, <1>14, <1>15, <1>16, <1>17, <1>18 DEF Inv

--------------------------------------------------------------------------------
(* The theorems.                                                           *)

LEMMA InitInv == Init => Inv
<1> SUFFICES ASSUME Init PROVE Inv
  OBVIOUS
<1>1. /\ heap = <<Array(0)>> /\ latencyTracking = Empty /\ growth = None /\ pc = "idle" /\ latencies = Empty
      /\ pos = [i |-> 0, j |-> 0] /\ held = [left |-> 0, right |-> 0] /\ read = <<>>
      /\ fresh = {} /\ own = {} /\ raced = [fresh |-> 0, own |-> 0] /\ reports = <<>>
  BY DEF Init
<1>2. ~Growing /\ ~Running /\ ~Sorting
  BY <1>1 DEF Growing, Running, Sorting
<1>3. HeapInv
  <2>1. Array(0) \in Blocks
    BY DEF Array, Blocks, Block
  <2>2. heap \in Seq(Blocks) /\ DOMAIN heap = {1}
    BY <1>1, <2>1
  <2>3. Cap(1) \in Nat
    BY <2>2, Layout
  <2>4. SliceOK(Empty)
    BY <2>2, <2>3 DEF SliceOK, Empty
  <2> QED BY <1>1, <1>2, <2>2, <2>4 DEF HeapInv, None, Empty
<1>4. PlaceInv
  <2>1. read \in Seq(Sample)
    BY <1>1
  <2> QED BY <1>1, <1>2, <2>1 DEF PlaceInv, JobSteps
<1>5. WindowInv
  <2>1. Cardinality({}) = 0 /\ MaxWindow \in Nat
    BY FS_EmptySet, BoundAssumption
  <2> QED BY <1>1, <1>2, <2>1 DEF WindowInv, Beginning, Empty
<1>6. ReportInv
  <2>1. reports \in Seq([own : SUBSET Sample, read : Seq(Sample), raced : Nat, tail : Int])
    BY <1>1
  <2>2. DOMAIN reports = {}
    BY <1>1
  <2> QED BY <2>1, <2>2 DEF ReportInv, ReportSizeIsExact, NoPhantom, DamageIsBounded, CleanReportIsExact
<1>7. NextInv
  <2>1. NextLeft = {}
    BY <1>1, <1>2 DEF NextLeft, Indices, Empty
  <2>2. Cardinality(fresh \ NextLeft) = 0
    BY <1>1, FS_EmptySet
  <2> QED BY <1>1, <2>1, <2>2 DEF NextInv
<1>8. OwnInv /\ SortInv
  BY <1>2 DEF OwnInv, SortInv
<1> QED BY <1>3, <1>4, <1>5, <1>6, <1>7, <1>8 DEF Inv

\* A step that changes nothing keeps the invariant.
LEMMA StutterInv ==
    ASSUME Inv, UNCHANGED vars
    PROVE  Inv'
<1>1. /\ heap' = heap /\ latencyTracking' = latencyTracking /\ growth' = growth /\ pc' = pc
      /\ latencies' = latencies /\ pos' = pos /\ held' = held /\ read' = read
      /\ fresh' = fresh /\ own' = own /\ raced' = raced /\ reports' = reports
  BY DEF vars
<1>2. HeapInv' /\ PlaceInv' /\ WindowInv'
  BY <1>1 DEF Inv, HeapInv, SliceOK, Cap, Growing, PlaceInv, Sorting, WindowInv, Beginning, Running
<1>3. ReportInv' /\ NextInv'
  <2>1. ReportInv'
    BY <1>1, ReportsStay DEF Inv, ReportInv
  <2>2. NextLeft' = NextLeft /\ Used' = Used
    BY <1>1 DEF NextLeft, NextAt, Growing, Indices, Used
  <2> QED BY <1>1, <2>1, <2>2, NextUntouched
<1>4. OwnInv' /\ SortInv'
  <2>1. \A k \in Indices(latencies) : At(k)' = At(k) /\ OwnAt(k)' = OwnAt(k)
    BY <1>1 DEF At, OwnAt
  <2>2. OwnLeft' = OwnLeft /\ Used' = Used /\ Indices(latencies)' = Indices(latencies)
    BY <1>1 DEF OwnLeft, OwnAt, At, Indices, Used
  <2>3. OwnInv'
    BY <1>1, <2>1, <2>2 DEF Inv, OwnInv, Running
  <2>4. SortInv'
    BY <1>1 DEF Inv, SortInv, Running, Growing, Sorting, Down, OwnAt, At, Indices
  <2> QED BY <2>3, <2>4
<1> QED BY <1>2, <1>3, <1>4 DEF Inv

LEMMA SpecInv == Spec => []Inv
<1>1. Init => Inv
  BY InitInv
<1>2. Inv /\ [Next]_vars => Inv'
  <2> SUFFICES ASSUME Inv, [Next]_vars PROVE Inv'
    OBVIOUS
  <2>1. CASE \E v \in Sample : AppendInPlace(v) \/ BeginGrowth(v)
    BY <2>1, AppendInPlaceInv, BeginGrowthInv
  <2>2. CASE CopyOne \/ EndGrowth
    BY <2>2, CopyOneInv, EndGrowthInv
  <2>3. CASE Swap \/ Compare \/ Exchange \/ WriteFirst \/ WriteSecond
    BY <2>3, SwapInv, CompareInv, ExchangeInv, WriteFirstInv, WriteSecondInv
  <2>4. CASE SumOne \/ EndSum \/ TakeTail
    BY <2>4, SumOneInv, EndSumInv, TakeTailInv
  <2>5. CASE UNCHANGED vars
    BY <2>5, StutterInv
  <2> QED BY <2>1, <2>2, <2>3, <2>4, <2>5 DEF Next
<1> QED BY <1>1, <1>2, PTL DEF Spec

\* The slices lie within the arrays, and the job's places within its slice.
THEOREM WindowTypeCorrect == Spec => []TypeOK
<1>1. Inv => TypeOK
  <2> SUFFICES ASSUME Inv PROVE TypeOK
    OBVIOUS
  <2>1. \A g \in DOMAIN heap : heap[g] \in [0..(Cap(g) - 1) -> Sample \cup {0}]
    BY Layout DEF Inv, HeapInv, Block
  <2>2. /\ latencyTracking.array \in DOMAIN heap /\ latencyTracking.len \in 0..Cap(latencyTracking.array)
        /\ latencies.array \in DOMAIN heap /\ latencies.len \in 0..Cap(latencies.array)
    BY Layout DEF Inv, HeapInv, SliceOK
  <2> QED BY <2>1, <2>2 DEF Inv, TypeOK, HeapInv, PlaceInv, WindowInv
<1> QED BY <1>1, SpecInv, PTL

\* No report averages, or gives for its tail, a number that reportOrders did not measure,
\* although the job reads elements that the appends of the next window overwrite.
THEOREM ReportsHoldNoPhantom == Spec => []NoPhantom
<1>1. Inv => NoPhantom
  BY DEF Inv, ReportInv
<1> QED BY <1>1, SpecInv, PTL

\* updateSLOEnforcement divides by the number of samples of its own window, and no sample
\* is counted in two windows.
THEOREM ReportSizesAreExact == Spec => []ReportSizeIsExact
<1>1. Inv => ReportSizeIsExact
  BY DEF Inv, ReportInv
<1> QED BY <1>1, SpecInv, PTL

\* A report misses no more of its samples than appends met a job.
THEOREM ReportsLoseLittle == Spec => []DamageIsBounded
<1>1. Inv => DamageIsBounded
  BY DEF Inv, ReportInv
<1> QED BY <1>1, SpecInv, PTL

\* The sort and the sum are right when no append met the job: the mean is that of the
\* window's samples, and the tail is the largest of them.
THEOREM CleanReportsAreExact == Spec => []CleanReportIsExact
<1>1. Inv => CleanReportIsExact
  BY DEF Inv, ReportInv
<1> QED BY <1>1, SpecInv, PTL

================================================================================
