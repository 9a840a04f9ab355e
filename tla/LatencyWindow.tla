----------------------------- MODULE LatencyWindow -----------------------------
(***************************************************************************)
(* The latencies of one reporting window, between reportOrders, which      *)
(* appends them, and updateSLOEnforcement, which takes them every five     *)
(* seconds (src/sloobserver/observer.go).  Both hold latencyTrackingLock   *)
(* while they touch the slice header, but                                  *)
(*                                                                         *)
(*     latencies := latencyTracking; latencyTracking = latencyTracking[:0] *)
(*                                                                         *)
(* leaves both slices on one backing array: the appends of the next window *)
(* overwrite what the job is still sorting and summing without the lock.   *)
(* A data race: each read and write of an array element is an action here. *)
(* The comparisons and exchanges are those of sort.Slice, which sorts      *)
(* slices of up to six elements by insertion in every version of Go; for   *)
(* more it does others first, and windows here hold no more than that.     *)
(***************************************************************************)
EXTENDS Integers, Sequences, FiniteSets

CONSTANTS
    Sample,      \* the latencies, each measured once
    MaxWindow,   \* bound: the latencies of a window
    MaxReports   \* bound: the runs of the job

ASSUME SampleAssumption == Sample \subseteq Nat \ {0} /\ IsFiniteSet(Sample)
ASSUME BoundAssumption == MaxWindow \in 0..6 /\ MaxReports \in Nat

VARIABLES
    heap,             \* the backing arrays, in the order they were allocated
    latencyTracking,  \* the slice: [array, len]
    growth,           \* the append that copies to a larger array: [from, copied, sample], or None
    pc,               \* what the job does next
    latencies,        \* the job's slice
    pos,              \* its place in the sort: [i, j]; in the sum: i
    held,             \* the two elements an exchange has read
    read,             \* the elements the sum has read
    fresh,            \* history: the samples appended since the last swap
    own,              \* history: the samples of the job's window
    raced,            \* history: how many appends met a job, for [fresh, own]
    reports           \* the finished reports: [own, read, tail, raced]

tracker == <<latencyTracking, growth, fresh>>
job == <<pc, latencies, pos, held, read, own>>
vars == <<heap, latencyTracking, growth, pc, latencies, pos, held, read, fresh, own, raced, reports>>

Empty == [array |-> 1, len |-> 0]
None == [from |-> Empty, copied |-> 0, sample |-> 0]
JobSteps == {"idle", "compare", "exchange", "first", "second", "sum", "tail"}

Cap(g) == Cardinality(DOMAIN heap[g])
Array(n) == [k \in 0..(n - 1) |-> 0]

TypeOK ==
    /\ \A g \in DOMAIN heap : heap[g] \in [0..(Cap(g) - 1) -> Sample \cup {0}]
    /\ latencyTracking.array \in DOMAIN heap
    /\ latencyTracking.len \in 0..Cap(latencyTracking.array)
    /\ growth \in [from : [array : Nat, len : Nat], copied : Nat, sample : Sample \cup {0}]
    /\ pc \in JobSteps
    /\ latencies.array \in DOMAIN heap /\ latencies.len \in 0..Cap(latencies.array)
    /\ pos \in [i : Nat, j : Nat]
    /\ held \in [left : Sample \cup {0}, right : Sample \cup {0}]
    /\ read \in Seq(Sample)
    /\ fresh \subseteq Sample /\ own \subseteq Sample
    /\ raced \in [fresh : Nat, own : Nat]

Init ==
    /\ heap = <<Array(0)>>
    /\ latencyTracking = Empty
    /\ growth = None
    /\ pc = "idle"
    /\ latencies = Empty
    /\ pos = [i |-> 0, j |-> 0]
    /\ held = [left |-> 0, right |-> 0]
    /\ read = <<>>
    /\ fresh = {}
    /\ own = {}
    /\ raced = [fresh |-> 0, own |-> 0]
    /\ reports = <<>>

--------------------------------------------------------------------------------
(* append(latencyTracking, latency), under the lock.                       *)

Growing == growth # None
NoLock == TRUE

\* An append that copies holds latencyTrackingLock while it does.
Unlocked == ~Growing
Running == pc # "idle"
Used == fresh \cup own \cup UNION {reports[k].own : k \in DOMAIN reports}

\* The append joins the window; if the job is running, it may damage that job's window,
\* and the job may damage it.
Joins(v) ==
    /\ fresh' = fresh \cup {v}
    /\ raced' = IF Running THEN [fresh |-> raced.fresh + 1, own |-> raced.own + 1] ELSE raced

\* There is room: one element is written and the slice is one longer.
AppendInPlace(v) ==
    LET s == latencyTracking
    IN  /\ Unlocked
        /\ v \notin Used /\ s.len < MaxWindow
        /\ s.len < Cap(s.array)
        /\ heap' = [heap EXCEPT ![s.array][s.len] = v]
        /\ latencyTracking' = [s EXCEPT !.len = @ + 1]
        /\ Joins(v)
        /\ UNCHANGED <<growth, job, reports>>

\* What append allocates when the array is full.
GrownCap(n) == IF n = 0 THEN 1 ELSE 2 * n

\* The array is full: a new one is allocated, of twice the capacity.
BeginGrowth(v) ==
    LET s == latencyTracking
    IN  /\ Unlocked
        /\ ~Growing
        /\ v \notin Used /\ s.len < MaxWindow
        /\ s.len = Cap(s.array)
        /\ heap' = Append(heap, Array(GrownCap(s.len)))
        /\ growth' = [from |-> s, copied |-> 0, sample |-> v]
        /\ Joins(v)
        /\ UNCHANGED <<latencyTracking, job, reports>>

CopyOne ==
    LET s == growth.from
        new == Len(heap)
    IN  /\ Growing
        /\ growth.copied < s.len
        /\ heap' = [heap EXCEPT ![new][growth.copied] = heap[s.array][growth.copied]]
        /\ growth' = [growth EXCEPT !.copied = @ + 1]
        /\ UNCHANGED <<latencyTracking, fresh, job, raced, reports>>

EndGrowth ==
    LET s == growth.from
        new == Len(heap)
    IN  /\ Growing
        /\ growth.copied = s.len
        /\ heap' = [heap EXCEPT ![new][s.len] = growth.sample]
        /\ latencyTracking' = [array |-> new, len |-> s.len + 1]
        /\ growth' = None
        /\ UNCHANGED <<fresh, job, raced, reports>>

--------------------------------------------------------------------------------
(* The job.                                                                *)

MadeZeroed ==
    /\ heap' = Append(heap, Array(latencyTracking.len))
    /\ latencyTracking' = [array |-> Len(heap) + 1, len |-> latencyTracking.len]

\* latencyTracking[:0]: the same array, from its start.
Truncated ==
    /\ latencyTracking' = [latencyTracking EXCEPT !.len = 0]
    /\ UNCHANGED heap

At(k) == heap[latencies.array][k]
Put(k, v) == heap' = [heap EXCEPT ![latencies.array][k] = v]

NotLess(v, w) == v > w
Less(v, w) == v < w

\* The insertion sort's next comparison when element i has found its place.
NextElement ==
    /\ pos' = IF pos.i + 1 < latencies.len THEN [i |-> pos.i + 1, j |-> pos.i + 1] ELSE [i |-> 0, j |-> 0]
    /\ pc' = IF pos.i + 1 < latencies.len THEN "compare" ELSE "sum"

\* Under the lock, the job takes the slice and leaves the array to the next window.
Swap ==
    /\ pc = "idle"
    /\ Unlocked
    /\ Len(reports) < MaxReports
    /\ latencies' = latencyTracking
    /\ Truncated
    /\ pos' = IF latencyTracking.len > 1 THEN [i |-> 1, j |-> 1] ELSE [i |-> 0, j |-> 0]
    /\ pc' = IF latencyTracking.len > 1 THEN "compare" ELSE "sum"
    /\ own' = fresh
    /\ fresh' = {}
    /\ raced' = [fresh |-> 0, own |-> raced.fresh]
    /\ UNCHANGED <<growth, held, read, reports>>

\* less(j, j - 1)
Compare ==
    /\ pc = "compare"
    /\ IF Less(At(pos.j), At(pos.j - 1))
       THEN pc' = "exchange" /\ UNCHANGED pos
       ELSE NextElement
    /\ UNCHANGED <<heap, tracker, latencies, held, read, own, raced, reports>>

\* swap(j, j - 1): two reads, then two writes.
Exchange ==
    /\ pc = "exchange"
    /\ held' = [left |-> At(pos.j - 1), right |-> At(pos.j)]
    /\ pc' = "first"
    /\ UNCHANGED <<heap, tracker, latencies, pos, read, own, raced, reports>>

WriteFirst ==
    /\ pc = "first"
    /\ Put(pos.j, held.left)
    /\ pc' = "second"
    /\ UNCHANGED <<tracker, latencies, pos, held, read, own, raced, reports>>

WriteSecond ==
    /\ pc = "second"
    /\ Put(pos.j - 1, held.right)
    /\ IF pos.j > 1
       THEN pc' = "compare" /\ pos' = [pos EXCEPT !.j = @ - 1]
       ELSE NextElement
    /\ UNCHANGED <<tracker, latencies, held, read, own, raced, reports>>

\* for _, lat := range latencies: the mean and the standard deviation.
SumOne ==
    /\ pc = "sum"
    /\ Len(read) < latencies.len
    /\ read' = Append(read, At(Len(read)))
    /\ UNCHANGED <<heap, tracker, pc, latencies, pos, held, own, raced, reports>>

EndSumLate ==
    /\ pc = "sum"
    /\ Len(read) > latencies.len
    /\ pc' = "tail"
    /\ UNCHANGED <<heap, tracker, latencies, pos, held, read, own, raced, reports>>

EndSum ==
    /\ pc = "sum"
    /\ Len(read) = latencies.len
    /\ pc' = "tail"
    /\ UNCHANGED <<heap, tracker, latencies, pos, held, read, own, raced, reports>>

\* int(0.99*float64(len(latencies)))
TailIndex(n) == (99 * n) \div 100

NoLatency == -1

\* The tail latency is read last, and the report is made.
TakeTail ==
    LET n == latencies.len
    IN  /\ pc = "tail"
        /\ reports' = Append(reports,
               [own |-> own, read |-> read, raced |-> raced.own,
                tail |-> IF n > 0 THEN At(TailIndex(n)) ELSE NoLatency])
        /\ pc' = "idle"
        /\ read' = <<>>
        /\ held' = [left |-> 0, right |-> 0]
        /\ own' = {}
        /\ UNCHANGED <<heap, tracker, latencies, pos, raced>>

Next ==
    \/ \E v \in Sample : AppendInPlace(v) \/ BeginGrowth(v)
    \/ CopyOne \/ EndGrowth
    \/ Swap \/ Compare \/ Exchange \/ WriteFirst \/ WriteSecond
    \/ SumOne \/ EndSum \/ TakeTail

Spec == Init /\ [][Next]_vars
FairSpec == Spec /\ WF_vars(CopyOne \/ EndGrowth)
                 /\ WF_vars(Compare \/ Exchange \/ WriteFirst \/ WriteSecond \/ SumOne \/ EndSum \/ TakeTail)

--------------------------------------------------------------------------------
(* Properties.                                                             *)

Values(s) == {s[k] : k \in DOMAIN s}
Largest(S) == CHOOSE v \in S : \A w \in S : w <= v

\* A report whose window no append shared with a running job, neither this one nor the one
\* before it, averages exactly the samples of its window, in order, and its tail is the
\* largest of them (n < 100).
CleanReportIsExact ==
    \A k \in DOMAIN reports :
        LET r == reports[k]
        IN  r.raced = 0 =>
              /\ Values(r.read) = r.own
              /\ \A m \in 1..(Len(r.read) - 1) : r.read[m] < r.read[m + 1]
              /\ r.tail = IF r.own = {} THEN NoLatency ELSE Largest(r.own)

\* An append that meets a job costs each of the two windows one sample at most: a report
\* misses no more of its samples than appends met a job.
DamageIsBounded ==
    \A k \in DOMAIN reports :
        Cardinality(reports[k].own \ Values(reports[k].read)) <= reports[k].raced

\* However the appends and the sort overwrite each other, a report divides by the number
\* of samples of its own window: each sample is counted in one window and no other.
ReportSizeIsExact ==
    /\ \A k \in DOMAIN reports : Len(reports[k].read) = Cardinality(reports[k].own)
    /\ \A k, l \in DOMAIN reports : k # l => reports[k].own \cap reports[l].own = {}

\* A report never averages a number that was not measured: no element beyond what was
\* written, no half of a copy.
NoPhantom ==
    \A k \in DOMAIN reports :
        /\ Values(reports[k].read) \subseteq Used
        /\ reports[k].tail \in Used \cup {NoLatency}

\* A job that has taken a window reports it: the sort ends whatever is written under it.
JobEnds == (pc # "idle") ~> (pc = "idle")
================================================================================
