-------------------------- MODULE LoadGeneratorProofs --------------------------
(***************************************************************************)
(* The generators genorders.py and genburst.py lose no request and read    *)
(* none twice, print lines that make sense, keep their rates near those    *)
(* asked for and make the same requests in each burst, for any floats, any *)
(* number of requests and any answers.  The arguments: the results on the  *)
(* queue and those the tracker will put back are all different, and none   *)
(* is the one in the sender's hand; each thread moves one at a time, and   *)
(* the tracker takes no more than were on the queue when it looked.        *)
(* Rounding keeps numbers in order.  The positions of a burst follow from  *)
(* its arguments and not from the burst before: those that two bursts      *)
(* reach at their ends are the same.                                       *)
(***************************************************************************)
EXTENDS LoadGenerator, TLAPS, FiniteSetTheorems, WellFoundedInduction

\* No element is twice in one of the two sequences, or in both.
Once(s) == \A k, l \in DOMAIN s : s[k] = s[l] => k = l
Apart(s, t) ==
    /\ Once(s) /\ Once(t)
    /\ \A k \in DOMAIN s, l \in DOMAIN t : s[k] # t[l]

\* The result the sender holds is on neither.
NotYetPut ==
    spc = "put" =>
        /\ \A k \in DOMAIN pendingRequests : pendingRequests[k] # Len(results)
        /\ \A k \in DOMAIN waiting : waiting[k] # Len(results)
        /\ Len(results) > 0

\* The tracker takes results the queue held when it looked, and the sender only adds to it.
NumIsThere == tpc = "take" => num <= Len(pendingRequests)

\* Where the requests made are, and which of them were counted.
NotCounted == IF spc = "inc" THEN 1 ELSE 0
Somewhere == Len(results) = InHand + (Len(pendingRequests) + Len(waiting)) + (recv + errors)
Counts == Len(results) = InHand + NotCounted + sent
SomeSucceeded == succ <= recv

ThreadsInv ==
    /\ ThreadsTypeOK
    /\ Apart(pendingRequests, waiting)
    /\ NotYetPut /\ NumIsThere
    /\ Somewhere /\ Counts /\ SomeSucceeded

Inv == TypeOK /\ RateStaysNear /\ ThreadsInv

--------------------------------------------------------------------------------
(* Floats.                                                                 *)

\* Every set of natural numbers has a smallest.
LEMMA LeastExists ==
    ASSUME NEW S, S \subseteq Nat, S # {}
    PROVE  \E m \in S : \A x \in S : m <= x
<1> DEFINE R == OpToRel(<, Nat)
<1>1. \A x, y \in Nat : x < y => <<x, y>> \in R
  BY DEF OpToRel
<1>2. IsWellFoundedOn(R, Nat)
  BY NatLessThanWellFounded
<1> HIDE DEF R
<1>3. PICK m \in S : \A y \in S : ~(<<y, m>> \in R)
  BY <1>2, WFMin
<1>4. ASSUME NEW y \in S PROVE m <= y
  <2>1. y \in Nat /\ m \in Nat /\ ~(y < m)
    BY <1>1, <1>3
  <2> QED BY <2>1
<1> QED BY <1>4

\* No float is nearer than those Round chooses from.
LEMMA ErrorIsLeast ==
    ASSUME NEW x \in Int
    PROVE  /\ Error(x) \in Nat /\ Nearest(x) # {}
           /\ \A f \in Floats : Error(x) <= Absolute(x - f)
<1> DEFINE D == {d \in Nat : At(x, d) # {}}
           a == Absolute(x)
<1>1. Floats \subseteq Int /\ 0 \in Floats /\ a \in Nat
  BY FloatsAssumption DEF Absolute
<1>2. a \in D
  <2>1. 0 \in {x - a, x + a}
    BY DEF Absolute
  <2> QED BY <1>1, <2>1 DEF At
<1>3. PICK m \in D : \A d \in D : m <= d
  <2>1. D \subseteq Nat /\ D # {}
    BY <1>2
  <2> HIDE DEF D
  <2> QED BY <2>1, LeastExists
<1>4. m \in 0 .. a /\ At(x, m) # {} /\ \A e \in 0 .. m - 1 : At(x, e) = {}
  <2>1. m \in Nat /\ m <= a /\ At(x, m) # {}
    BY <1>2, <1>3
  <2>2. \A e \in 0 .. m - 1 : e \in Nat /\ ~(m <= e)
    BY <2>1
  <2> QED BY <1>1, <1>3, <2>1, <2>2
<1> DEFINE e == Error(x)
<1>5. e \in 0 .. a /\ At(x, e) # {} /\ \A d \in 0 .. e - 1 : At(x, d) = {}
  BY <1>4 DEF Error
<1>6. ASSUME NEW f \in Floats, ~(e <= Absolute(x - f)) PROVE FALSE
  <2> DEFINE d == Absolute(x - f)
  <2>1. d \in Nat /\ f \in Int /\ f \in {x - d, x + d}
    BY <1>1 DEF Absolute
  <2> HIDE DEF e
  <2>2. d \in 0 .. e - 1 /\ f \in At(x, d)
    BY <1>5, <1>6, <2>1 DEF At
  <2> QED BY <1>5, <2>2
<1> QED BY <1>1, <1>5, <1>6 DEF Nearest

\* What Round returns is a float and nearest to its argument.
LEMMA RoundIsNearest ==
    ASSUME NEW x \in Int
    PROVE  /\ Round(x) \in Floats /\ Round(x) \in Int
           /\ \A f \in Floats : Absolute(x - Round(x)) <= Absolute(x - f)
<1> DEFINE e == Error(x)
           Chosen(f) == \A g \in Nearest(x) \ {f} : Even(f, 2 * e)
<1>1. /\ e \in Nat /\ Nearest(x) # {} /\ Nearest(x) = {x - e, x + e} \cap Floats
      /\ \A f \in Floats : f \in Int /\ e <= Absolute(x - f)
  BY ErrorIsLeast, FloatsAssumption DEF Nearest, At
<1> HIDE DEF e
<1>2. \E f \in Nearest(x) : Chosen(f)
  <2>1. CASE x - e \in Floats /\ x + e \in Floats /\ e # 0
    <3> DEFINE l == x - e
               h == x + e
    <3>1. l \in Int /\ h \in Int /\ l < h /\ h - l = 2 * e
      BY <1>1, <2>1
    <3>2. ASSUME NEW f \in Floats PROVE f <= l \/ h <= f
      <4>1. f \in Int /\ e <= Absolute(x - f)
        BY <1>1
      <4> QED BY <1>1, <4>1 DEF Absolute
    <3>3. Neighbours(l, h)
      BY <3>1, <3>2 DEF Neighbours
    <3>4. Even(l, 2 * e) \/ Even(h, 2 * e)
      BY <2>1, <3>1, <3>3, FloatsAssumption
    <3>5. l \in Nearest(x) /\ h \in Nearest(x)
      BY <1>1, <2>1
    <3> QED BY <3>4, <3>5
  <2>2. CASE x - e \notin Floats
    <3>1. Nearest(x) = {x + e}
      BY <1>1, <2>2
    <3> QED BY <3>1
  <2>3. CASE x + e \notin Floats
    <3>1. Nearest(x) = {x - e}
      BY <1>1, <2>3
    <3> QED BY <3>1
  <2>4. CASE e = 0
    <3>1. x - e = x + e
      BY <1>1, <2>4
    <3>2. \A f, g \in Nearest(x) : f = g
      BY <1>1, <3>1
    <3> QED BY <1>1, <3>2
  <2> QED BY <2>1, <2>2, <2>3, <2>4
<1>3. Round(x) \in Nearest(x)
  <2>1. Round(x) = CHOOSE f \in Nearest(x) : Chosen(f)
    BY DEF Round, e
  <2> HIDE DEF Chosen
  <2> QED BY <1>2, <2>1
<1>4. Absolute(x - Round(x)) = e
  <2>1. Round(x) \in {x - e, x + e}
    BY <1>1, <1>3
  <2>2. CASE Round(x) = x - e
    <3>1. x - Round(x) = e
      BY <1>1, <2>2
    <3> QED BY <1>1, <3>1 DEF Absolute
  <2>3. CASE Round(x) = x + e
    <3>1. x - Round(x) = -e
      BY <1>1, <2>3
    <3> QED BY <1>1, <3>1 DEF Absolute
  <2> QED BY <2>1, <2>2, <2>3
<1> QED BY <1>1, <1>3, <1>4

\* A float is not rounded.
LEMMA FloatsStay ==
    ASSUME NEW f \in Floats
    PROVE  Round(f) = f
<1>1. f \in Int
  BY FloatsAssumption
<1>2. Round(f) \in Int /\ Absolute(f - Round(f)) <= Absolute(f - f)
  BY <1>1, RoundIsNearest
<1> QED BY <1>1, <1>2 DEF Absolute

\* Rounding keeps numbers in order.
LEMMA RoundGrows ==
    ASSUME NEW x \in Int, NEW y \in Int, x <= y
    PROVE  Round(x) <= Round(y)
<1> DEFINE f == Round(x)
           g == Round(y)
<1>1. /\ f \in Int /\ g \in Int
      /\ Absolute(x - f) <= Absolute(x - g) /\ Absolute(y - g) <= Absolute(y - f)
  BY RoundIsNearest
<1>2. CASE x = y
  BY <1>1, <1>2
<1>3. CASE x < y
  <2> HIDE DEF f, g
  <2>1. f <= g
    BY <1>1, <1>3 DEF Absolute
  <2> QED BY <2>1 DEF f, g
<1> QED BY <1>2, <1>3

--------------------------------------------------------------------------------
(* Two sequences apart.                                                    *)

\* The head of one sequence goes to the end of the other, or is dropped.
LEMMA HeadMoves ==
    ASSUME NEW S, NEW s \in Seq(S), NEW t \in Seq(S), s # <<>>, Apart(s, t)
    PROVE  Apart(Tail(s), t) /\ Apart(Tail(s), Append(t, Head(s)))
<1>1. /\ DOMAIN Tail(s) = 1..(Len(s) - 1) /\ 1 \in DOMAIN s /\ Head(s) = s[1]
      /\ \A k \in DOMAIN Tail(s) : k + 1 \in DOMAIN s /\ k + 1 # 1 /\ Tail(s)[k] = s[k + 1]
  OBVIOUS
<1>2. \A k, l \in DOMAIN Tail(s) : k + 1 = l + 1 => k = l
  BY <1>1
<1>3. Once(Tail(s)) /\ \A k \in DOMAIN Tail(s) : Tail(s)[k] # Head(s)
  BY <1>1, <1>2 DEF Apart, Once
<1>4. \A k \in DOMAIN Tail(s), l \in DOMAIN t : Tail(s)[k] # t[l]
  BY <1>1 DEF Apart
<1>5. \A k \in DOMAIN Append(t, Head(s)) :
         \/ k \in DOMAIN t /\ Append(t, Head(s))[k] = t[k]
         \/ k = Len(t) + 1 /\ Append(t, Head(s))[k] = Head(s)
  <2>1. Head(s) \in S
    OBVIOUS
  <2> QED
    BY <2>1
<1>6. \A l \in DOMAIN t : t[l] # Head(s)
  BY <1>1 DEF Apart
<1>7. Once(Append(t, Head(s)))
  BY <1>5, <1>6 DEF Apart, Once
<1>8. \A k \in DOMAIN Tail(s), l \in DOMAIN Append(t, Head(s)) :
         Tail(s)[k] # Append(t, Head(s))[l]
  BY <1>3, <1>4, <1>5
<1> QED
  BY <1>3, <1>4, <1>7, <1>8 DEF Apart

LEMMA ApartIsMutual ==
    ASSUME NEW s, NEW t, Apart(s, t)
    PROVE  Apart(t, s)
BY DEF Apart

\* A new element is put behind one of the two.
LEMMA NewIsApart ==
    ASSUME NEW S, NEW s \in Seq(S), NEW t \in Seq(S), Apart(s, t), NEW x,
           \A k \in DOMAIN s : s[k] # x, \A k \in DOMAIN t : t[k] # x
    PROVE  Apart(Append(s, x), t)
<1> DEFINE T == S \cup {x}
<1>1. s \in Seq(T) /\ x \in T
  OBVIOUS
<1>2. \A k \in DOMAIN Append(s, x) :
         \/ k \in DOMAIN s /\ Append(s, x)[k] = s[k]
         \/ k = Len(s) + 1 /\ Append(s, x)[k] = x
  <2> HIDE DEF T
  <2> QED
    BY <1>1
<1> QED
  BY <1>2 DEF Apart, Once

\* As many elements as places.
LEMMA OnceCounted ==
    ASSUME NEW S, NEW s \in Seq(S), NEW t \in Seq(S), Apart(s, t)
    PROVE  Cardinality(Elements(s \o t)) = Len(s \o t) /\ Len(s \o t) = Len(s) + Len(t)
<1> DEFINE h == s \o t
           E == Elements(h)
<1>1. /\ h \in Seq(S) /\ Len(h) = Len(s) + Len(t) /\ DOMAIN h = 1..Len(h)
      /\ Len(s) \in Nat /\ Len(t) \in Nat /\ Len(h) \in Nat
  OBVIOUS
<1>2. \A k \in DOMAIN h : \/ k \in DOMAIN s /\ h[k] = s[k]
                          \/ k - Len(s) \in DOMAIN t /\ h[k] = t[k - Len(s)]
  OBVIOUS
<1>3. ASSUME NEW k \in DOMAIN h, NEW l \in DOMAIN h, h[k] = h[l]
      PROVE  k = l
  <2>1. k \in Nat /\ l \in Nat
    BY <1>1
  <2>2. CASE k \in DOMAIN s /\ h[k] = s[k]
    BY <2>2, <1>2, <1>3 DEF Apart, Once
  <2>3. CASE k - Len(s) \in DOMAIN t /\ h[k] = t[k - Len(s)]
    <3>1. l - Len(s) \in DOMAIN t /\ h[l] = t[l - Len(s)]
      BY <2>3, <1>2, <1>3 DEF Apart
    <3>2. k - Len(s) = l - Len(s)
      BY <2>3, <3>1, <1>3 DEF Apart, Once
    <3> HIDE DEF h
    <3> QED
      BY <2>1, <3>2, <1>1
  <2> QED
    BY <2>2, <2>3, <1>2
<1>4. h \in [1..Len(h) -> E] /\ \A e \in E : \E k \in 1..Len(h) : h[k] = e
  <2> HIDE DEF h
  <2> QED
    BY <1>1 DEF Elements
<1>5. h \in Bijection(1..Len(h), E)
  <2> HIDE DEF h, E
  <2>1. IsInjective(h)
    BY <1>3 DEF IsInjective
  <2> QED
    BY <1>4, <2>1 DEF Bijection, Injection, Surjection
<1>6. Cardinality(E) = Len(h)
  <2> HIDE DEF h, E
  <2> QED
    BY <1>1, <1>5, FS_CountingElements DEF ExistsBijection
<1> QED
  BY <1>1, <1>6

--------------------------------------------------------------------------------
(* The sender and its plan.                                                *)

\* int(rate * seconds) requests are a natural number of them.
LEMMA OrdersIsNat ==
    ASSUME NEW r \in Int, NEW seconds \in Nat
    PROVE  Orders(r, seconds) \in Nat
<1> DEFINE n == Round(r * seconds)
<1>1. n \in Int
  <2>1. r * seconds \in Int
    OBVIOUS
  <2> QED BY <2>1, RoundIsNearest
<1> HIDE DEF n
<1>2. ~(n < 0) => n \div Unit \in Nat
  BY <1>1, UnitAssumption
<1> QED
  BY <1>2 DEF Orders, n

LEMMA ArgsFields ==
    ASSUME NEW a \in Args
    PROVE  /\ a.srate \in Floats /\ a.erate \in Floats /\ a.acc \in Floats
           /\ a.srate \in Int /\ a.erate \in Int /\ a.acc \in Int
           /\ a.hduration \in Nat /\ a.lduration \in Nat /\ a.period \in Nat
           /\ a.program \in {"orders", "burst"} /\ (a.program = "orders" => a.period = 1)
BY ArgsAssumption, FloatsAssumption

\* A climb passes its high rate by no more than a step, nor a fall its low one.
Highest(a) == Max({a.srate, Round(a.erate + a.acc)})
Lowest(a) == Round(a.srate - a.acc)
Near(a, r) == a.acc >= 0 => r <= Highest(a) /\ r >= Lowest(a)

LEMMA HighestIsLarger ==
    ASSUME NEW x \in Int, NEW y \in Int
    PROVE  x <= Max({x, y}) /\ y <= Max({x, y}) /\ Max({x, y}) \in {x, y}
<1> DEFINE Largest(m) == \A z \in {x, y} : m >= z
<1>1. \E m \in {x, y} : Largest(m)
  <2>1. CASE x >= y
    BY <2>1
  <2>2. CASE y >= x
    BY <2>2
  <2> QED BY <2>1, <2>2
<1>2. Max({x, y}) = CHOOSE m \in {x, y} : Largest(m)
  BY DEF Max
<1>3. Max({x, y}) \in {x, y} /\ Largest(Max({x, y}))
  <2> HIDE DEF Largest
  <2> QED BY <1>1, <1>2
<1> QED BY <1>3

LEMMA NearTypes ==
    ASSUME NEW a \in Args
    PROVE  /\ Highest(a) \in Int /\ a.srate <= Highest(a) /\ Round(a.erate + a.acc) <= Highest(a)
           /\ Lowest(a) \in Int
<1> DEFINE next == Round(a.erate + a.acc)
<1>1. a.srate \in Int /\ a.erate + a.acc \in Int /\ a.srate - a.acc \in Int
  BY ArgsFields
<1>2. next \in Int /\ Lowest(a) \in Int
  BY <1>1, RoundIsNearest DEF Lowest
<1> HIDE DEF next
<1> QED BY <1>1, <1>2, HighestIsLarger DEF Highest, next

\* The rate a burst starts with.
LEMMA StartIsNear ==
    ASSUME NEW a \in Args
    PROVE  Near(a, a.srate)
<1> SUFFICES ASSUME a.acc >= 0 PROVE a.srate <= Highest(a) /\ a.srate >= Lowest(a)
  BY DEF Near
<1>1. /\ a.srate \in Floats /\ a.srate \in Int /\ a.srate - a.acc \in Int
      /\ a.srate - a.acc <= a.srate
  BY ArgsFields
<1>2. Lowest(a) <= a.srate
  BY <1>1, RoundGrows, FloatsStay DEF Lowest
<1> QED BY <1>1, <1>2, NearTypes

\* A step of the climb is taken below the high rate, and one of the fall above the low one.
LEMMA RiseIsNear ==
    ASSUME NEW a \in Args, NEW r \in Floats, Near(a, r), r < a.erate
    PROVE  Round(r + a.acc) \in Floats /\ Near(a, Round(r + a.acc))
<1>1. /\ r \in Int /\ a.erate \in Int /\ a.acc \in Int
      /\ r + a.acc \in Int /\ a.erate + a.acc \in Int /\ r + a.acc <= a.erate + a.acc
  BY ArgsFields, FloatsAssumption
<1> DEFINE next == Round(r + a.acc)
<1>2. next \in Floats /\ next \in Int
  BY <1>1, RoundIsNearest
<1>3. next <= Highest(a)
  <2>1. next <= Round(a.erate + a.acc) /\ Round(a.erate + a.acc) \in Int
    BY <1>1, RoundGrows, RoundIsNearest
  <2> HIDE DEF next
  <2> QED BY <1>2, <2>1, NearTypes
<1>4. ASSUME a.acc >= 0 PROVE next >= Lowest(a)
  <2>1. r <= r + a.acc
    BY <1>1, <1>4
  <2>2. r <= next
    BY <1>1, <2>1, RoundGrows, FloatsStay
  <2>3. r >= Lowest(a)
    BY <1>4 DEF Near
  <2> HIDE DEF next
  <2> QED BY <1>1, <1>2, <2>2, <2>3, NearTypes
<1> QED BY <1>2, <1>3, <1>4 DEF Near

LEMMA FallIsNear ==
    ASSUME NEW a \in Args, NEW r \in Floats, Near(a, r), r > a.srate
    PROVE  Round(r - a.acc) \in Floats /\ Near(a, Round(r - a.acc))
<1>1. r \in Int /\ a.srate \in Int /\ a.acc \in Int
  BY ArgsFields, FloatsAssumption
<1>2. r - a.acc \in Int /\ a.srate - a.acc \in Int /\ a.srate - a.acc <= r - a.acc
  BY <1>1
<1> DEFINE next == Round(r - a.acc)
<1>3. next \in Floats /\ next \in Int
  BY <1>2, RoundIsNearest
<1>4. next >= Lowest(a)
  <2>1. Lowest(a) <= next
    BY <1>2, RoundGrows DEF Lowest
  <2> HIDE DEF next
  <2> QED BY <1>3, <2>1, NearTypes
<1>5. ASSUME a.acc >= 0 PROVE next <= Highest(a)
  <2>1. r - a.acc <= r
    BY <1>1, <1>5
  <2>2. next <= r
    BY <1>1, <1>2, <2>1, RoundGrows, FloatsStay
  <2>3. r <= Highest(a)
    BY <1>5 DEF Near
  <2> HIDE DEF next
  <2> QED BY <1>1, <1>3, <2>2, <2>3, NearTypes
<1> QED BY <1>3, <1>4, <1>5 DEF Near

\* The rates that the plan goes through.
LEMMA PlanRates ==
    ASSUME TypeOK, RateStaysNear, Plan
    PROVE  args' \in Args /\ phase' \in {"steady", "rise", "high", "fall", "low"}
           /\ rate' \in Floats /\ period' \in Nat /\ first' \in Nat /\ left' \in Nat
           /\ RateStaysNear'
<1>1. /\ args.srate \in Floats /\ args.hduration \in Nat /\ args.lduration \in Nat
      /\ StepSize \in Nat
  BY ArgsFields, StepAssumption DEF TypeOK
<1>2. /\ rate \in Floats /\ rate \in Int /\ period \in Nat /\ first \in Nat /\ sent \in Nat
      /\ args' = args /\ args \in Args /\ left \in Nat
  BY FloatsAssumption DEF Plan, TypeOK, ThreadsTypeOK
<1>3. Near(args, rate)
  BY DEF RateStaysNear, Near, Highest, Lowest
<1>4. ASSUME Near(args, rate') PROVE RateStaysNear'
  <2>1. args.acc >= 0 => rate' <= Max({args.srate, Round(args.erate + args.acc)})
                         /\ rate' >= Round(args.srate - args.acc)
    BY <1>4 DEF Near, Highest, Lowest
  <2> QED BY <1>2, <2>1 DEF RateStaysNear
<1>5. \A seconds \in Nat : Orders(rate, seconds) \in Nat
  BY <1>2, OrdersIsNat
<1>6. CASE Steady
  BY <1>1, <1>2, <1>3, <1>4, <1>5, <1>6 DEF Steady, TypeOK
<1>7. CASE Rise
  <2>1. rate < args.erate /\ rate' = Round(rate + args.acc)
    BY <1>7 DEF Rise
  <2>2. rate' \in Floats /\ Near(args, rate')
    BY <1>2, <1>3, <2>1, RiseIsNear
  <2> QED BY <1>1, <1>2, <1>4, <1>5, <1>7, <2>2 DEF Rise, TypeOK
<1>8. CASE High
  BY <1>1, <1>2, <1>3, <1>4, <1>5, <1>8 DEF High, TypeOK
<1>9. CASE Fall
  <2>1. rate > args.srate /\ rate' = Round(rate - args.acc)
    BY <1>9 DEF Fall
  <2>2. rate' \in Floats /\ Near(args, rate')
    BY <1>2, <1>3, <2>1, FallIsNear
  <2> QED BY <1>1, <1>2, <1>4, <1>5, <1>9, <2>2 DEF Fall, TypeOK
<1>10. CASE Low
  BY <1>1, <1>2, <1>3, <1>4, <1>5, <1>10 DEF Low, TypeOK
<1>11. CASE NextPeriod
  <2>1. period' \in Nat
    BY <1>2, <1>11 DEF NextPeriod, NextRate
  <2>2. Near(args, rate')
    BY <1>2, <1>11, StartIsNear DEF NextPeriod
  <2> QED BY <1>1, <1>2, <1>4, <1>11, <2>1, <2>2 DEF NextPeriod
<1> QED
  BY <1>6, <1>7, <1>8, <1>9, <1>10, <1>11 DEF Plan

--------------------------------------------------------------------------------
(* The steps of the threads.                                               *)

\* What the types say of the numbers.
LEMMA Numbers ==
    ASSUME ThreadsTypeOK
    PROVE  /\ Len(results) \in Nat /\ Requests = 1..Len(results)
           /\ Len(pendingRequests) \in Nat /\ Len(waiting) \in Nat
           /\ left \in Nat /\ num \in Nat
           /\ sent \in Nat /\ recv \in Nat /\ succ \in Nat /\ errors \in Nat /\ late \in Nat
<1>1. Len(results) \in Nat /\ Requests = 1..Len(results)
  <2>1. results \in Seq(Answer \cup {"pending"})
    BY DEF ThreadsTypeOK
  <2> QED
    BY <2>1 DEF Requests
<1>2. Len(pendingRequests) \in Nat /\ Len(waiting) \in Nat
  <2>1. pendingRequests \in Seq(Requests) /\ waiting \in Seq(Requests)
    BY DEF ThreadsTypeOK
  <2> QED
    BY <2>1
<1> QED
  BY <1>1, <1>2 DEF ThreadsTypeOK

LEMMA ApplyThreads == ThreadsInv /\ Apply => ThreadsInv'
<1> SUFFICES ASSUME ThreadsInv, Apply PROVE ThreadsInv'
  OBVIOUS
<1> DEFINE n == Len(results)
<1>1. /\ n \in Nat /\ Requests = 1..n
      /\ sent \in Nat /\ recv \in Nat /\ errors \in Nat /\ late \in Nat /\ left \in Nat
  BY Numbers DEF ThreadsInv
<1>2. /\ pendingRequests' = pendingRequests /\ pendingRequests \in Seq(Requests)
      /\ waiting' = waiting /\ waiting \in Seq(Requests)
  BY DEF Apply, tracker, ThreadsInv, ThreadsTypeOK
<1>3. results' \in Seq(Answer \cup {"pending"}) /\ Len(results') = n + 1
  <2>1. results \in Seq(Answer \cup {"pending"}) /\ results' = Append(results, "pending")
    BY DEF Apply, ThreadsInv, ThreadsTypeOK
  <2> QED
    BY <2>1
<1>4. Requests' = 1..(n + 1) /\ 1..n \subseteq 1..(n + 1) /\ n + 1 \notin 1..n
  <2>1. Requests' = 1..Len(results')
    BY <1>3 DEF Requests
  <2> HIDE DEF n
  <2> QED
    BY <1>1, <1>3, <2>1
<1> HIDE DEF n
<1>5. pendingRequests' \in Seq(Requests') /\ waiting' \in Seq(Requests')
  <2>1. Requests \subseteq Requests'
    BY <1>1, <1>4
  <2>2. \A s \in Seq(Requests) : s \in Seq(Requests')
    BY <2>1
  <2> QED
    BY <1>2, <2>2
<1>6. ThreadsTypeOK'
  <2>1. left' \in Nat /\ late' \in Nat
    BY <1>1 DEF Apply
  <2> QED
    BY <1>3, <1>5, <2>1 DEF Apply, tracker, ThreadsInv, ThreadsTypeOK
<1>7. Apart(pendingRequests, waiting)'
  BY <1>2 DEF ThreadsInv, Apart, Once
<1>8. NotYetPut'
  <2>1. \A k \in DOMAIN pendingRequests : pendingRequests[k] \in Requests
    BY <1>2
  <2>2. \A k \in DOMAIN waiting : waiting[k] \in Requests
    BY <1>2
  <2>3. Len(results') \notin Requests /\ Len(results') > 0
    BY <1>1, <1>3, <1>4
  <2> QED
    BY <1>2, <2>1, <2>2, <2>3 DEF NotYetPut
<1>9. NumIsThere' /\ SomeSucceeded'
  BY DEF Apply, tracker, ThreadsInv, NumIsThere, SomeSucceeded
<1>10. Somewhere' /\ Counts'
  <2>1. InHand = 0 /\ NotCounted = 0 /\ InHand' = 1 /\ NotCounted' = 0
    BY DEF Apply, InHand, NotCounted
  <2>2. Len(pendingRequests) + Len(waiting) \in Nat /\ recv + errors \in Nat
    BY Numbers DEF ThreadsInv
  <2>3. /\ n = 0 + (Len(pendingRequests) + Len(waiting)) + (recv + errors)
        /\ n = 0 + 0 + sent
    BY <2>1 DEF ThreadsInv, Somewhere, Counts, n
  <2>4. recv' = recv /\ errors' = errors /\ sent' = sent
    BY DEF Apply, tracker
  <2> QED
    BY <1>1, <1>2, <1>3, <2>1, <2>2, <2>3, <2>4 DEF Somewhere, Counts
<1> QED
  BY <1>6, <1>7, <1>8, <1>9, <1>10 DEF ThreadsInv

LEMMA PutThreads == ThreadsInv /\ Put => ThreadsInv'
<1> SUFFICES ASSUME ThreadsInv, Put PROVE ThreadsInv'
  OBVIOUS
<1>1. /\ Len(results) \in Requests
      /\ pendingRequests \in Seq(Requests) /\ waiting \in Seq(Requests)
      /\ results' = results /\ waiting' = waiting /\ Requests' = Requests
  BY DEF ThreadsInv, ThreadsTypeOK, NotYetPut, Put, tracker, Requests
<1>2. pendingRequests' \in Seq(Requests) /\ Len(pendingRequests') = Len(pendingRequests) + 1
  BY <1>1 DEF Put
<1>3. ThreadsTypeOK'
  BY <1>1, <1>2 DEF Put, tracker, user, ThreadsInv, ThreadsTypeOK
<1>4. Apart(pendingRequests, waiting)'
  <2>1. Apart(Append(pendingRequests, Len(results)), waiting)
    BY <1>1, NewIsApart DEF ThreadsInv, NotYetPut, Put
  <2> QED
    BY <1>1, <2>1 DEF Put
<1>5. NotYetPut'
  BY DEF Put, NotYetPut
<1>6. NumIsThere' /\ SomeSucceeded'
  <2>1. num \in Nat /\ Len(pendingRequests) \in Nat
    BY DEF ThreadsInv, ThreadsTypeOK
  <2> QED
    BY <1>2, <2>1 DEF Put, tracker, ThreadsInv, NumIsThere, SomeSucceeded
<1>7. Somewhere' /\ Counts'
  <2>1. InHand = 1 /\ NotCounted = 0 /\ InHand' = 0 /\ NotCounted' = 1
    BY DEF Put, InHand, NotCounted
  <2> QED
    BY <1>1, <1>2, <2>1, Numbers DEF Put, tracker, ThreadsInv, Somewhere, Counts
<1> QED
  BY <1>3, <1>4, <1>5, <1>6, <1>7 DEF ThreadsInv

\* The steps that move no result: the counters and the program counters.
LEMMA IncThreads == ThreadsInv /\ Inc => ThreadsInv'
<1> SUFFICES ASSUME ThreadsInv, Inc PROVE ThreadsInv'
  OBVIOUS
<1>1. sent \in Nat /\ Len(results) \in Nat
  BY Numbers DEF ThreadsInv
<1>2. ThreadsTypeOK'
  BY <1>1 DEF Inc, tracker, user, Requests, ThreadsInv, ThreadsTypeOK
<1>3. InHand = 0 /\ NotCounted = 1 /\ InHand' = 0 /\ NotCounted' = 0
  BY DEF Inc, InHand, NotCounted
<1>4. Counts'
  BY <1>1, <1>3 DEF Inc, ThreadsInv, Counts
<1> QED
  BY <1>2, <1>3, <1>4
     DEF Inc, tracker, ThreadsInv, Apart, Once, NotYetPut, NumIsThere, Somewhere, SomeSucceeded

LEMMA QuietThreads ==
    ASSUME ThreadsInv, left' \in Nat, spc' \in {"loop", "done"}, spc' = spc \/ spc = "loop",
           running' \in BOOLEAN,
           UNCHANGED <<results, pendingRequests, sent, tracker, user>>
    PROVE  ThreadsInv'
<1>1. ThreadsTypeOK'
  BY DEF tracker, user, Requests, ThreadsInv, ThreadsTypeOK
<1>2. InHand = InHand' /\ NotCounted' = NotCounted
  BY DEF InHand, NotCounted
<1>3. NotYetPut'
  BY DEF NotYetPut
<1> QED
  BY <1>1, <1>2, <1>3
     DEF tracker, ThreadsInv, Apart, Once, NumIsThere, Somewhere, Counts, SomeSucceeded

\* The tracker's own steps: it looks, prints, and ends.
LEMMA LookThreads ==
    ASSUME ThreadsInv, Test \/ EndTake \/ EndPut \/ PrintLine
    PROVE  ThreadsInv'
<1>1. UNCHANGED <<left, spc, results, pendingRequests, running, waiting, sent, recv, succ,
                  errors, user>>
  BY DEF Test, EndTake, EndPut, PrintLine
<1>2. /\ tpc' \in {"test", "take", "put", "print", "done"} /\ num' \in Nat
      /\ tpc' = "take" => num' <= Len(pendingRequests)
  <2>1. num \in Nat /\ Len(pendingRequests) \in Nat
    BY DEF ThreadsInv, ThreadsTypeOK
  <2> QED
    BY <2>1 DEF Test, EndTake, EndPut, PrintLine
<1>3. ThreadsTypeOK'
  BY <1>1, <1>2 DEF user, Requests, ThreadsInv, ThreadsTypeOK
<1>4. InHand = InHand' /\ NotCounted' = NotCounted
  BY <1>1 DEF InHand, NotCounted
<1>5. NumIsThere'
  BY <1>1, <1>2 DEF NumIsThere
<1> QED
  BY <1>1, <1>3, <1>4, <1>5
     DEF ThreadsInv, Apart, Once, NotYetPut, Somewhere, Counts, SomeSucceeded

\* The tracker takes a result off the queue: it is counted, or waits.
LEMMA TakeThreads ==
    ASSUME ThreadsInv, TakeAnswer \/ TakeError \/ TakeWaiting
    PROVE  ThreadsInv'
<1>1. /\ tpc = "take" /\ num > 0 /\ num \in Nat /\ num' = num - 1
      /\ pendingRequests' = Tail(pendingRequests)
      /\ UNCHANGED <<left, spc, results, running, tpc, sent, user>>
  BY DEF TakeAnswer, TakeError, TakeWaiting, Take, ThreadsInv, ThreadsTypeOK
<1>2. pendingRequests \in Seq(Requests) /\ waiting \in Seq(Requests) /\ Requests' = Requests
  BY <1>1 DEF ThreadsInv, ThreadsTypeOK, Requests
<1>3. pendingRequests # <<>>
  BY <1>1, <1>2 DEF ThreadsInv, NumIsThere
<1>4. /\ Tail(pendingRequests) \in Seq(Requests) /\ Head(pendingRequests) \in Requests
      /\ Len(Tail(pendingRequests)) = Len(pendingRequests) - 1
      /\ Len(pendingRequests) \in Nat /\ Len(waiting) \in Nat
      /\ Head(pendingRequests) = pendingRequests[1] /\ 1 \in DOMAIN pendingRequests
      /\ \A k \in DOMAIN Tail(pendingRequests) :
            /\ k + 1 \in DOMAIN pendingRequests
            /\ Tail(pendingRequests)[k] = pendingRequests[k + 1]
  BY <1>2, <1>3
<1>5. NumIsThere'
  BY <1>1, <1>4 DEF ThreadsInv, NumIsThere
<1>6. /\ sent \in Nat /\ recv \in Nat /\ succ \in Nat /\ errors \in Nat
      /\ InHand' = InHand /\ NotCounted' = NotCounted /\ InHand \in Nat
  BY <1>1, Numbers DEF ThreadsInv, InHand, NotCounted
<1>7. /\ Apart(Tail(pendingRequests), waiting)
      /\ Apart(Tail(pendingRequests), Append(waiting, Head(pendingRequests)))
  BY <1>2, <1>3, HeadMoves DEF ThreadsInv
<1>8. CASE TakeWaiting
  <2>1. /\ waiting' = Append(waiting, Head(pendingRequests))
        /\ recv' = recv /\ succ' = succ /\ errors' = errors
    BY <1>8 DEF TakeWaiting
  <2>2. waiting' \in Seq(Requests) /\ Len(waiting') = Len(waiting) + 1
    BY <1>2, <1>4, <2>1
  <2>3. \A k \in DOMAIN waiting' :
           (k \in DOMAIN waiting /\ waiting'[k] = waiting[k]) \/ waiting'[k] = Head(pendingRequests)
    BY <1>2, <1>4, <2>1
  <2>4. ThreadsTypeOK'
    BY <1>1, <1>2, <1>4, <2>1, <2>2 DEF user, ThreadsInv, ThreadsTypeOK
  <2>5. NotYetPut'
    BY <1>1, <1>4, <2>3 DEF ThreadsInv, NotYetPut
  <2>6. Somewhere'
    <3>1. /\ Len(pendingRequests') = Len(pendingRequests) - 1
          /\ recv' + errors' = recv + errors /\ Len(results') = Len(results)
      BY <1>1, <1>4, <2>1
    <3>2. Len(results) = InHand + (Len(pendingRequests) + Len(waiting)) + (recv + errors)
      BY DEF ThreadsInv, Somewhere
    <3> QED
      BY <1>4, <1>6, <2>2, <3>1, <3>2 DEF Somewhere
  <2>7. Counts' /\ SomeSucceeded'
    BY <1>1, <1>6, <2>1 DEF ThreadsInv, Counts, SomeSucceeded
  <2>8. Apart(pendingRequests, waiting)'
    BY <1>1, <1>7, <2>1
  <2> QED
    BY <1>5, <2>4, <2>5, <2>6, <2>7, <2>8 DEF ThreadsInv
<1>9. CASE TakeAnswer \/ TakeError
  <2>1. /\ waiting' = waiting
        /\ recv' \in Nat /\ succ' \in Nat /\ errors' \in Nat
        /\ \/ recv' = recv + 1 /\ errors' = errors
           \/ recv' = recv /\ errors' = errors + 1
        /\ succ' <= recv'
    BY <1>6, <1>9 DEF TakeAnswer, TakeError, ThreadsInv, SomeSucceeded
  <2>2. ThreadsTypeOK'
    BY <1>1, <1>2, <1>4, <2>1 DEF user, ThreadsInv, ThreadsTypeOK
  <2>3. NotYetPut'
    BY <1>1, <1>4, <2>1 DEF ThreadsInv, NotYetPut
  <2>4. Somewhere'
    <3>1. /\ Len(pendingRequests') = Len(pendingRequests) - 1 /\ Len(waiting') = Len(waiting)
          /\ Len(results') = Len(results)
      BY <1>1, <1>4, <2>1
    <3>2. Len(results) = InHand + (Len(pendingRequests) + Len(waiting)) + (recv + errors)
      BY DEF ThreadsInv, Somewhere
    <3> QED
      BY <1>4, <1>6, <2>1, <3>1, <3>2 DEF Somewhere
  <2>5. Counts' /\ SomeSucceeded'
    BY <1>1, <1>6, <2>1 DEF ThreadsInv, Counts, SomeSucceeded
  <2>6. Apart(pendingRequests, waiting)'
    BY <1>1, <1>7, <2>1
  <2> QED
    BY <1>5, <2>2, <2>3, <2>4, <2>5, <2>6 DEF ThreadsInv
<1> QED
  BY <1>8, <1>9

\* The tracker puts a result back.
LEMMA PutBackThreads == ThreadsInv /\ PutWaiting => ThreadsInv'
<1> SUFFICES ASSUME ThreadsInv, PutWaiting PROVE ThreadsInv'
  OBVIOUS
<1>1. /\ tpc' = "put" /\ waiting # <<>>
      /\ pendingRequests' = Append(pendingRequests, Head(waiting)) /\ waiting' = Tail(waiting)
      /\ UNCHANGED <<left, spc, results, running, tpc, num, sent, recv, succ, errors, user>>
  BY DEF PutWaiting, PutBack
<1>2. pendingRequests \in Seq(Requests) /\ waiting \in Seq(Requests) /\ Requests' = Requests
  BY <1>1 DEF ThreadsInv, ThreadsTypeOK, Requests
<1>3. /\ waiting' \in Seq(Requests) /\ Head(waiting) \in Requests
      /\ Len(waiting') = Len(waiting) - 1
      /\ Len(pendingRequests) \in Nat /\ Len(waiting) \in Nat
      /\ Head(waiting) = waiting[1] /\ 1 \in DOMAIN waiting
      /\ \A k \in DOMAIN waiting' : k + 1 \in DOMAIN waiting /\ waiting'[k] = waiting[k + 1]
  BY <1>1, <1>2
<1>4. pendingRequests' \in Seq(Requests) /\ Len(pendingRequests') = Len(pendingRequests) + 1
  BY <1>1, <1>2, <1>3
<1>5. \A k \in DOMAIN pendingRequests' :
         \/ k \in DOMAIN pendingRequests /\ pendingRequests'[k] = pendingRequests[k]
         \/ pendingRequests'[k] = Head(waiting)
  BY <1>1, <1>2, <1>3
<1>6. ThreadsTypeOK'
  BY <1>1, <1>2, <1>3, <1>4 DEF user, ThreadsInv, ThreadsTypeOK
<1>7. Apart(pendingRequests, waiting)'
  <2>1. Apart(waiting, pendingRequests)
    BY ApartIsMutual DEF ThreadsInv
  <2>2. Apart(Tail(waiting), Append(pendingRequests, Head(waiting)))
    BY <1>1, <1>2, <2>1, HeadMoves
  <2> QED
    BY <1>1, <2>2, ApartIsMutual
<1>8. NotYetPut'
  BY <1>1, <1>3, <1>5 DEF ThreadsInv, NotYetPut
<1>9. NumIsThere' /\ SomeSucceeded'
  BY <1>1 DEF ThreadsInv, NumIsThere, SomeSucceeded
<1>10. Somewhere' /\ Counts'
  <2>1. InHand' = InHand /\ NotCounted' = NotCounted
    BY <1>1 DEF InHand, NotCounted
  <2> QED
    BY <1>1, <1>3, <1>4, <2>1, Numbers DEF ThreadsInv, Somewhere, Counts
<1> QED
  BY <1>6, <1>7, <1>8, <1>9, <1>10 DEF ThreadsInv

\* A request is answered, or the user presses Ctrl + C.
LEMMA OthersThreads == ThreadsInv /\ Others => ThreadsInv'
<1> SUFFICES ASSUME ThreadsInv, Others PROVE ThreadsInv'
  OBVIOUS
<1>1. /\ UNCHANGED <<left, spc, pendingRequests, running, sent, tracker, late>>
      /\ interrupted' \in BOOLEAN
      /\ results' \in Seq(Answer \cup {"pending"}) /\ Len(results') = Len(results)
  <2>1. /\ results \in Seq(Answer \cup {"pending"}) /\ interrupted \in BOOLEAN
        /\ pendingRequests \in Seq(Requests)
    BY DEF ThreadsInv, ThreadsTypeOK
  <2>2. CASE Interrupt
    BY <2>1, <2>2 DEF Interrupt
  <2>3. ASSUME NEW i \in Requests, NEW answer \in Answer, Respond(i, answer)
        PROVE  /\ UNCHANGED <<left, spc, pendingRequests, running, sent, tracker, late>>
               /\ interrupted' \in BOOLEAN
               /\ results' \in Seq(Answer \cup {"pending"}) /\ Len(results') = Len(results)
    <3>1. results' = [results EXCEPT ![i] = answer]
      BY <2>3 DEF Respond
    <3>2. results' \in Seq(Answer \cup {"pending"}) /\ Len(results') = Len(results)
      BY <2>1, <3>1 DEF Requests
    <3> QED
      BY <2>1, <2>3, <3>2 DEF Respond, user
  <2> QED
    BY <2>2, <2>3 DEF Others
<1>2. Requests' = Requests
  <2>1. results \in Seq(Answer \cup {"pending"})
    BY DEF ThreadsInv, ThreadsTypeOK
  <2> QED
    BY <1>1, <2>1 DEF Requests
<1>3. ThreadsTypeOK'
  BY <1>1, <1>2 DEF tracker, ThreadsInv, ThreadsTypeOK
<1>4. InHand = InHand' /\ NotCounted' = NotCounted
  BY <1>1 DEF InHand, NotCounted
<1> QED
  BY <1>1, <1>3, <1>4
     DEF tracker, ThreadsInv, Apart, Once, NotYetPut, NumIsThere, Somewhere, Counts, SomeSucceeded

--------------------------------------------------------------------------------
(* The plan.                                                               *)

\* Where a burst is: its phase, its rate, and the requests made in it.
Position(ph, r, made) == [phase |-> ph, rate |-> r, made |-> made]
Start(a) == Position("rise", a.srate, 0)

\* The position after z is the program's arguments' and z's alone.
After(a, z) ==
    LET Then(ph, r, seconds) == Position(ph, r, z.made + Orders(z.rate, seconds))
    IN  IF z.phase = "rise"
        THEN IF z.rate < a.erate THEN Then("rise", Round(z.rate + a.acc), StepSize)
                                 ELSE Then("high", z.rate, a.hduration)
        ELSE IF z.rate > a.srate THEN Then("fall", Round(z.rate - a.acc), StepSize)
                                 ELSE Then("low", z.rate, a.lduration)

\* f is the way of a burst through its first n positions after the start.
Way(a, f, n) ==
    /\ f[0] = Start(a)
    /\ \A k \in 0 .. n - 1 : f[k].phase # "low" /\ f[k + 1] = After(a, f[k])
Reached(a, z) == \E n \in Nat : \E f : Way(a, f, n) /\ f[n] = z

\* The requests of genorders, before and after its only rate is sent; those of genburst in
\* p fewer bursts than asked for, f in each, and in this one.
SteadyKept(a, ph, r, p, m) ==
    /\ ph = "steady" /\ r = a.srate
    /\ \/ p = 1 /\ m = 0
       \/ p = 0 /\ m = Orders(a.srate, a.hduration)
BurstKept(a, ph, r, p, f, m) ==
    /\ ph # "steady" /\ p \in 0 .. a.period
    /\ \E made \in Nat :
        /\ Reached(a, Position(ph, r, made))
        /\ m = (a.period - p) * f + made
        /\ p = 0 => made = 0
    /\ p < a.period => \E low \in Int : Reached(a, Position("low", low, f))
Kept(a, ph, r, p, f, m) ==
    IF a.program = "orders" THEN SteadyKept(a, ph, r, p, m) ELSE BurstKept(a, ph, r, p, f, m)

\* What was made, is being made, and is left at this rate.
UnderWay == IF spc \in {"put", "inc"} THEN 1 ELSE 0
PlanIsKept ==
    /\ Kept(args, phase, rate, period, first, (sent + UnderWay) + left)
    /\ spc = "done" => left = 0 /\ period = 0

LEMMA StartIsReached ==
    ASSUME NEW a
    PROVE  Reached(a, Start(a))
<1> DEFINE f == [k \in Nat |-> Start(a)]
<1>1. f[0] = Start(a)
  OBVIOUS
<1> HIDE DEF f
<1>2. Way(a, f, 0)
  BY <1>1 DEF Way
<1> QED BY <1>1, <1>2 DEF Reached

LEMMA NextIsReached ==
    ASSUME NEW a, NEW z, Reached(a, z), z.phase # "low"
    PROVE  Reached(a, After(a, z))
<1>0. PICK n \in Nat : \E f : Way(a, f, n) /\ f[n] = z
  BY DEF Reached
<1>1. PICK f : Way(a, f, n) /\ f[n] = z
  BY <1>0
<1> DEFINE y == After(a, z)
           g == [k \in 0 .. n + 1 |-> IF k = n + 1 THEN y ELSE f[k]]
<1> HIDE DEF y
<1>2. g[n + 1] = y /\ \A k \in 0 .. n : g[k] = f[k]
  OBVIOUS
<1> HIDE DEF g
<1>3. g[0] = Start(a)
  BY <1>1, <1>2 DEF Way
<1>4. ASSUME NEW k \in 0 .. n PROVE g[k].phase # "low" /\ g[k + 1] = After(a, g[k])
  <2>1. CASE k = n
    BY <1>1, <1>2, <2>1 DEF y
  <2>2. CASE k # n
    <3>1. k \in 0 .. n - 1 /\ k + 1 \in 0 .. n
      BY <2>2
    <3> QED BY <1>1, <1>2, <3>1 DEF Way
  <2> QED BY <2>1, <2>2
<1>5. Way(a, g, n + 1)
  BY <1>3, <1>4 DEF Way
<1> QED BY <1>2, <1>5 DEF Reached, y

\* The ways of two bursts are the same, however far they go.
LEMMA WaysAgree ==
    ASSUME NEW a, NEW f, NEW n \in Nat, Way(a, f, n), NEW g, NEW m \in Nat, Way(a, g, m),
           NEW k \in Nat, k <= n, k <= m
    PROVE  f[k] = g[k]
<1> DEFINE Wrong == {l \in Nat : l <= n /\ l <= m /\ f[l] # g[l]}
<1>1. ASSUME Wrong # {} PROVE FALSE
  <2>1. PICK l \in Wrong : \A x \in Wrong : l <= x
    <3>1. Wrong \subseteq Nat
      OBVIOUS
    <3> HIDE DEF Wrong
    <3> QED BY <1>1, <3>1, LeastExists
  <2>2. l # 0
    BY DEF Way
  <2>3. PICK j \in Nat : l = j + 1
    BY <2>2
  <2>4. j \notin Wrong /\ j \in 0 .. n - 1 /\ j \in 0 .. m - 1
    BY <2>1, <2>3
  <2>5. f[j] = g[j]
    BY <2>4
  <2> QED BY <2>3, <2>4, <2>5 DEF Way
<1> QED BY <1>1

\* A burst ends at one position.
LEMMA EndsAgree ==
    ASSUME NEW a, NEW y, Reached(a, y), y.phase = "low", NEW z, Reached(a, z), z.phase = "low"
    PROVE  y = z
<1>1. PICK n \in Nat : \E f : Way(a, f, n) /\ f[n] = y
  BY DEF Reached
<1>2. PICK f : Way(a, f, n) /\ f[n] = y
  BY <1>1
<1>3. PICK m \in Nat : \E g : Way(a, g, m) /\ g[m] = z
  BY DEF Reached
<1>4. PICK g : Way(a, g, m) /\ g[m] = z
  BY <1>3
<1>5. CASE n < m
  <2>1. g[n] = y /\ n \in 0 .. m - 1
    BY <1>2, <1>4, <1>5, WaysAgree
  <2> QED BY <1>4, <2>1 DEF Way
<1>6. CASE m < n
  <2>1. f[m] = z /\ m \in 0 .. n - 1
    BY <1>2, <1>4, <1>6, WaysAgree
  <2> QED BY <1>2, <2>1 DEF Way
<1>7. CASE n = m
  BY <1>2, <1>4, <1>7, WaysAgree
<1> QED BY <1>5, <1>6, <1>7

LEMMA OneMore ==
    ASSUME NEW n \in Nat, NEW x \in Nat
    PROVE  (n + 1) * x = n * x + x /\ n * x \in Nat
OBVIOUS

\* Within a burst, what is left at the next rate is what the next position adds.
LEMMA StepIsKept ==
    ASSUME NEW a \in Args, a.program # "orders", NEW ph, NEW r, NEW p \in Nat, NEW f \in Nat,
           NEW m \in Nat, BurstKept(a, ph, r, p, f, m), ph # "low", p > 0,
           NEW ph2, ph2 # "steady", NEW r2, NEW l \in Nat,
           \A made \in Nat :
               After(a, Position(ph, r, made)) = Position(ph2, r2, made + l)
    PROVE  Kept(a, ph2, r2, p, f, m + l)
<1>1. PICK made \in Nat : Reached(a, Position(ph, r, made)) /\ m = (a.period - p) * f + made
  BY DEF BurstKept
<1>2. Reached(a, Position(ph2, r2, made + l))
  <2>1. Position(ph, r, made).phase # "low"
    BY DEF Position
  <2> QED BY <1>1, <2>1, NextIsReached
<1>3. m + l = (a.period - p) * f + (made + l) /\ made + l \in Nat
  <2> DEFINE s == (a.period - p) * f
  <2>1. s \in Int
    BY ArgsFields
  <2>2. m = s + made
    BY <1>1
  <2> HIDE DEF s
  <2> QED BY <2>1, <2>2 DEF s
<1> QED BY <1>2, <1>3 DEF Kept, BurstKept

LEMMA PlanKeeps == TypeOK /\ PlanIsKept /\ Plan => PlanIsKept'
<1> SUFFICES ASSUME TypeOK, PlanIsKept, Plan PROVE PlanIsKept'
  OBVIOUS
<1> DEFINE a == args
           m == sent
<1>1. /\ a \in Args /\ args' = a /\ a.period \in Nat /\ a.srate \in Int /\ a.erate \in Int
      /\ a.hduration \in Nat /\ a.lduration \in Nat /\ StepSize \in Nat
      /\ rate \in Int /\ period \in Nat /\ first \in Nat /\ sent \in Nat
      /\ spc = "loop" /\ spc' = "loop" /\ sent' = sent /\ left = 0 /\ period > 0
  BY ArgsFields, StepAssumption, FloatsAssumption
     DEF TypeOK, ThreadsTypeOK, Plan, Steady, Rise, High, Fall, Low, NextPeriod, NextRate
<1>2. Kept(a, phase, rate, period, first, m)
  <2>1. (sent + UnderWay) + left = m
    BY <1>1 DEF UnderWay
  <2> QED BY <2>1 DEF PlanIsKept
<1>3. \A seconds \in Nat : Orders(rate, seconds) \in Nat
  BY <1>1, OrdersIsNat
<1>4. SUFFICES left' \in Nat /\ Kept(a, phase', rate', period', first', m + left')
  <2>1. left' \in Nat => (sent' + UnderWay') + left' = m + left'
    BY <1>1 DEF UnderWay
  <2> QED BY <1>1, <1>4, <2>1 DEF PlanIsKept
<1>5. CASE Steady
  <2>1. a.program = "orders" /\ SteadyKept(a, phase, rate, period, m) /\ m = 0
    BY <1>1, <1>2, <1>5 DEF Steady, Kept, SteadyKept, BurstKept
  <2>2. left' = Orders(a.srate, a.hduration) /\ left' \in Nat
    BY <1>1, <1>3, <1>5, <2>1 DEF Steady, SteadyKept
  <2>3. m + left' = Orders(a.srate, a.hduration)
    BY <2>1, <2>2
  <2> QED BY <1>5, <2>1, <2>2, <2>3 DEF Steady, Kept, SteadyKept
<1>6. ASSUME phase # "steady" PROVE a.program # "orders" /\ BurstKept(a, phase, rate, period, first, m)
  BY <1>2, <1>6 DEF Kept, SteadyKept
<1>7. ASSUME phase \in {"rise", "high", "fall"}, phase' # "steady", period' = period,
             first' = first, left' \in Nat,
             \A made \in Nat :
                 After(a, Position(phase, rate, made)) = Position(phase', rate', made + left')
      PROVE  Kept(a, phase', rate', period', first', m + left')
  <2>1. a.program # "orders" /\ BurstKept(a, phase, rate, period, first, m) /\ phase # "low"
    BY <1>6, <1>7
  <2> HIDE DEF a
  <2> QED BY <1>1, <1>7, <2>1, StepIsKept
<1>8. CASE Rise
  <2>1. /\ phase = "rise" /\ phase' = "rise" /\ period' = period /\ first' = first
        /\ rate < a.erate /\ rate' = Round(rate + a.acc) /\ left' = Orders(rate, StepSize)
    BY <1>8 DEF Rise
  <2>2. \A made \in Nat :
            After(a, Position(phase, rate, made)) = Position(phase', rate', made + left')
    BY <2>1 DEF After, Position
  <2> QED BY <1>1, <1>3, <1>7, <2>1, <2>2
<1>9. CASE High
  <2>1. /\ phase = "rise" /\ phase' = "high" /\ period' = period /\ first' = first
        /\ ~(rate < a.erate) /\ rate' = rate /\ left' = Orders(rate, a.hduration)
    <3>1. rate >= a.erate => ~(rate < a.erate)
      BY <1>1
    <3> QED BY <1>9, <3>1 DEF High
  <2>2. \A made \in Nat :
            After(a, Position(phase, rate, made)) = Position(phase', rate', made + left')
    BY <2>1 DEF After, Position
  <2> QED BY <1>1, <1>3, <1>7, <2>1, <2>2
<1>10. CASE Fall
  <2>1. /\ phase \in {"high", "fall"} /\ phase' = "fall" /\ period' = period /\ first' = first
        /\ rate > a.srate /\ rate' = Round(rate - a.acc) /\ left' = Orders(rate, StepSize)
    BY <1>10 DEF Fall
  <2>2. \A made \in Nat :
            After(a, Position(phase, rate, made)) = Position(phase', rate', made + left')
    BY <2>1 DEF After, Position
  <2> QED BY <1>1, <1>3, <1>7, <2>1, <2>2
<1>11. CASE Low
  <2>1. /\ phase \in {"high", "fall"} /\ phase' = "low" /\ period' = period /\ first' = first
        /\ ~(rate > a.srate) /\ rate' = rate /\ left' = Orders(rate, a.lduration)
    <3>1. rate <= a.srate => ~(rate > a.srate)
      BY <1>1
    <3> QED BY <1>11, <3>1 DEF Low
  <2>2. \A made \in Nat :
            After(a, Position(phase, rate, made)) = Position(phase', rate', made + left')
    BY <2>1 DEF After, Position
  <2> QED BY <1>1, <1>3, <1>7, <2>1, <2>2
<1>12. CASE NextPeriod
  <2> DEFINE n == a.period - period
  <2>1. /\ phase = "low" /\ phase' = "rise" /\ period' = period - 1 /\ rate' = a.srate /\ left' = 0
        /\ first' = IF period = a.period THEN sent ELSE first
    BY <1>1, <1>12 DEF NextPeriod
  <2>2. a.program # "orders" /\ BurstKept(a, phase, rate, period, first, m)
    BY <1>6, <2>1
  <2>3. /\ n \in Nat /\ a.period - period' = n + 1 /\ period' \in 0 .. a.period
        /\ period' < a.period
    <3>1. period \in 0 .. a.period
      BY <2>2 DEF BurstKept
    <3> QED BY <1>1, <2>1, <3>1
  <2>4. PICK made \in Nat : Reached(a, Position("low", rate, made)) /\ m = n * first + made
    BY <2>1, <2>2 DEF BurstKept
  <2> HIDE DEF n
  <2>5. first' = made /\ m = n * made + made
    <3>1. CASE n = 0
      <4>1. period = a.period
        BY <1>1, <3>1 DEF n
      <4>2. n * first = 0 /\ n * made = 0
        BY <1>1, <3>1
      <4> QED BY <2>1, <2>4, <4>1, <4>2
    <3>2. CASE n # 0
      <4>1. period # a.period /\ period < a.period
        BY <1>1, <2>3, <3>2 DEF n
      <4>2. PICK low \in Int : Reached(a, Position("low", low, first))
        BY <2>2, <4>1 DEF BurstKept
      <4>3. Position("low", low, first) = Position("low", rate, made)
        <5>1. Position("low", low, first).phase = "low" /\ Position("low", rate, made).phase = "low"
          BY DEF Position
        <5> QED BY <2>4, <4>2, <5>1, EndsAgree
      <4>4. first = made
        BY <4>3 DEF Position
      <4> QED BY <2>1, <2>4, <4>1, <4>4
    <3> QED BY <3>1, <3>2
  <2>6. m + left' = (a.period - period') * first' + 0
    <3>1. (n + 1) * made = n * made + made /\ n * made \in Nat
      BY <2>3, OneMore
    <3>2. n * made + made \in Nat
      BY <3>1
    <3>3. m + left' = (n + 1) * made + 0
      BY <2>1, <2>5, <3>1, <3>2
    <3> QED BY <2>3, <2>5, <3>3
  <2>7. Reached(a, Position("rise", rate', 0))
    BY <2>1, StartIsReached DEF Start
  <2>8. \E low \in Int : Reached(a, Position("low", low, first'))
    BY <1>1, <2>4, <2>5
  <2> QED BY <2>1, <2>2, <2>3, <2>6, <2>7, <2>8 DEF Kept, BurstKept
<1> QED BY <1>5, <1>8, <1>9, <1>10, <1>11, <1>12 DEF Plan

\* The threads make what the plan has handed them.
LEMMA ThreadsKeep ==
    TypeOK /\ PlanIsKept /\ UNCHANGED plan
        /\ (Request \/ (period = 0 /\ EndSender) \/ Tracker \/ Others \/ UNCHANGED threads)
    => PlanIsKept'
<1> SUFFICES ASSUME TypeOK, PlanIsKept, UNCHANGED plan,
                    Request \/ (period = 0 /\ EndSender) \/ Tracker \/ Others \/ UNCHANGED threads
             PROVE  PlanIsKept'
  OBVIOUS
<1>1. sent \in Nat /\ left \in Nat /\ spc \in {"loop", "put", "inc", "done"}
  BY DEF TypeOK, ThreadsTypeOK
<1>2. ASSUME (sent' + UnderWay') + left' = (sent + UnderWay) + left,
             spc' = "done" => left' = 0 /\ period = 0
      PROVE  PlanIsKept'
  BY <1>2 DEF PlanIsKept, plan
<1>3. CASE Request
  BY <1>1, <1>2, <1>3 DEF Request, Apply, Put, Inc, UnderWay, PlanIsKept
<1>4. CASE period = 0 /\ EndSender
  BY <1>1, <1>2, <1>4 DEF EndSender, UnderWay
<1>5. CASE Tracker \/ Others \/ UNCHANGED threads
  <2>1. UNCHANGED <<left, spc, sent>>
    BY <1>5 DEF Tracker, Test, TakeAnswer, TakeError, TakeWaiting, Take, EndTake, PutWaiting, EndPut,
                PrintLine, Others, Respond, Interrupt, threads
  <2>2. UnderWay' = UnderWay
    BY <2>1 DEF UnderWay
  <2> QED BY <1>2, <2>1, <2>2 DEF PlanIsKept
<1> QED BY <1>3, <1>4, <1>5

LEMMA InitPlan == Init => PlanIsKept
<1> SUFFICES ASSUME Init PROVE PlanIsKept
  OBVIOUS
<1> DEFINE a == args
<1>1. /\ a \in Args /\ rate = a.srate /\ period = a.period /\ first = 0
      /\ sent = 0 /\ left = 0 /\ spc = "loop"
  BY DEF Init, ThreadsInit
<1>2. (sent + UnderWay) + left = 0
  BY <1>1 DEF UnderWay
<1>3. Kept(a, phase, rate, period, first, 0)
  <2>1. CASE OrdersMain
    BY <1>1, <2>1, ArgsFields DEF OrdersMain, Kept, SteadyKept
  <2>2. CASE BurstMain
    <3>1. a.program # "orders" /\ phase = "rise" /\ a.period \in Nat
      BY <1>1, <2>2, ArgsFields DEF BurstMain
    <3>2. (a.period - period) * first + 0 = 0
      BY <1>1, <3>1
    <3>3. Reached(a, Position(phase, rate, 0))
      BY <1>1, <3>1, StartIsReached DEF Start
    <3>4. period \in 0 .. a.period /\ ~(period < a.period)
      BY <1>1, <3>1
    <3> QED BY <3>1, <3>2, <3>3, <3>4 DEF Kept, BurstKept
  <2> QED BY <2>1, <2>2 DEF Init
<1> QED BY <1>1, <1>2, <1>3 DEF PlanIsKept

--------------------------------------------------------------------------------
(* The invariant and the theorems.                                         *)

LEMMA InitInv == Init => Inv
<1> SUFFICES ASSUME Init PROVE Inv
  OBVIOUS
<1>1. TypeOK
  <2>1. args.srate \in Floats /\ args.period \in Nat
    BY ArgsAssumption DEF Init
  <2> QED
    <3>1. ThreadsTypeOK
      <4>1. results = <<>> /\ pendingRequests = <<>> /\ waiting = <<>>
        BY DEF Init, ThreadsInit
      <4>2. <<>> \in Seq(Answer \cup {"pending"}) /\ <<>> \in Seq(Requests)
        OBVIOUS
      <4>3. results \in Seq(Answer \cup {"pending"})
        BY <4>1, <4>2
      <4>4. pendingRequests \in Seq(Requests) /\ waiting \in Seq(Requests)
        BY <4>1, <4>2
      <4>5. {sent, recv, succ, errors, late} \subseteq Nat /\ left \in Nat /\ num \in Nat
        BY DEF Init, ThreadsInit
      <4>6. /\ spc \in {"loop", "put", "inc", "done"} /\ running \in BOOLEAN
            /\ tpc \in {"test", "take", "put", "print", "done"} /\ interrupted \in BOOLEAN
        BY DEF Init, ThreadsInit
      <4> QED
        BY <4>3, <4>4, <4>5, <4>6 DEF ThreadsTypeOK
    <3> QED
      BY <2>1, <3>1 DEF Init, OrdersMain, BurstMain, TypeOK
<1>2. RateStaysNear
  <2>1. args \in Args /\ rate = args.srate
    BY DEF Init
  <2> QED
    BY <2>1, StartIsNear DEF RateStaysNear, Near, Highest, Lowest
<1>3. ThreadsInv
  BY <1>1 DEF Init, ThreadsInit, TypeOK, ThreadsInv, Apart, Once, NotYetPut, NumIsThere,
              Somewhere, Counts, SomeSucceeded, InHand, NotCounted
<1> QED
  BY <1>1, <1>2, <1>3 DEF Inv

LEMMA NextInv == Inv /\ [Next]_vars => Inv'
<1> SUFFICES ASSUME Inv, [Next]_vars PROVE Inv'
  OBVIOUS
<1>1. TypeOK /\ RateStaysNear /\ ThreadsInv
  BY DEF Inv
<1>2. ASSUME UNCHANGED plan, ThreadsInv' PROVE Inv'
  <2>1. RateStaysNear'
    BY <1>1, <1>2 DEF plan, RateStaysNear
  <2>2. TypeOK'
    BY <1>1, <1>2 DEF plan, TypeOK, ThreadsInv
  <2> QED
    BY <1>2, <2>1, <2>2 DEF Inv
<1>3. CASE Plan
  <2>1. /\ args' \in Args /\ phase' \in {"steady", "rise", "high", "fall", "low"}
        /\ rate' \in Floats /\ period' \in Nat /\ first' \in Nat /\ left' \in Nat
        /\ RateStaysNear'
    BY <1>1, <1>3, PlanRates
  <2>2. /\ spc = "loop" /\ UNCHANGED <<spc, results, pendingRequests, running, sent, tracker, user>>
        /\ running \in BOOLEAN
    BY <1>1, <1>3 DEF Plan, Steady, Rise, High, Fall, Low, NextPeriod, NextRate, ThreadsInv,
                      ThreadsTypeOK
  <2>3. ThreadsInv'
    BY <1>1, <2>1, <2>2, QuietThreads
  <2> QED
    BY <2>1, <2>3 DEF Inv, TypeOK, ThreadsInv
<1>4. CASE Request /\ UNCHANGED plan
  BY <1>1, <1>2, <1>4, ApplyThreads, PutThreads, IncThreads DEF Request
<1>5. CASE EndSender /\ UNCHANGED plan
  <2>1. ThreadsInv'
    BY <1>1, <1>5, QuietThreads DEF EndSender, NotRunning, ThreadsInv, ThreadsTypeOK
  <2> QED
    BY <1>2, <1>5, <2>1
<1>6. CASE Tracks
  BY <1>1, <1>2, <1>6, LookThreads, TakeThreads, PutBackThreads DEF Tracks, Tracker
<1>7. CASE Others /\ UNCHANGED plan
  BY <1>1, <1>2, <1>7, OthersThreads
<1>8. CASE UNCHANGED vars
  <2>1. ThreadsInv'
    BY <1>1, <1>8
       DEF vars, threads, tracker, user, Requests, ThreadsInv, ThreadsTypeOK, Apart, Once,
           NotYetPut, NumIsThere, Somewhere, Counts, SomeSucceeded, InHand, NotCounted
  <2> QED
    BY <1>2, <1>8, <2>1 DEF vars
<1> QED
  BY <1>3, <1>4, <1>5, <1>6, <1>7, <1>8 DEF Next, Sender

LEMMA SpecInv == Spec => []Inv
BY InitInv, NextInv, PTL DEF Spec

\* The generators' variables keep their types, for any plan: the rate is always a float, and
\* what is made at it no negative number of requests, though it may itself be negative.
THEOREM GeneratorTypeCorrect == Spec => []TypeOK
<1>1. Inv => TypeOK
  BY DEF Inv
<1> QED
  BY <1>1, SpecInv, PTL

\* The sender's put, the tracker's get_nowait and its second put lose no request and read
\* none twice, however the two threads interleave.
THEOREM NoRequestIsLost == Spec => []EveryRequestIsSomewhere
<1>1. ThreadsInv => EveryRequestIsSomewhere
  <2> SUFFICES ASSUME ThreadsInv PROVE EveryRequestIsSomewhere
    OBVIOUS
  <2> DEFINE held == pendingRequests \o waiting
  <2>1. /\ Cardinality(Elements(held)) = Len(held)
        /\ Len(held) = Len(pendingRequests) + Len(waiting)
    BY OnceCounted DEF ThreadsInv, ThreadsTypeOK
  <2>2. Len(results) = InHand + Len(held) + recv + errors
    <3>1. Len(held) \in Nat /\ recv \in Nat /\ errors \in Nat /\ InHand \in Nat
      BY <2>1, Numbers DEF ThreadsInv, InHand
    <3>2. Len(results) = InHand + Len(held) + (recv + errors)
      BY <2>1 DEF ThreadsInv, Somewhere
    <3> HIDE DEF held
    <3> QED
      BY <3>1, <3>2
  <2> HIDE DEF held
  <2> QED
    BY <2>1, <2>2 DEF EveryRequestIsSomewhere, held
<1> QED
  BY <1>1, SpecInv, PTL DEF Inv

\* The line the tracker prints, which it composes while the sender goes on.
THEOREM LinesAreConsistent == Spec => []LineIsConsistent
<1>1. ThreadsInv => LineIsConsistent
  <2> SUFFICES ASSUME ThreadsInv PROVE succ <= recv /\ recv <= sent + 1
    BY DEF LineIsConsistent, PrintedLine
  <2>1. InHand \in Nat /\ NotCounted \in {0, 1}
    BY DEF InHand, NotCounted
  <2> QED
    BY <2>1, Numbers DEF ThreadsInv, Somewhere, Counts, SomeSucceeded
<1> QED
  BY <1>1, SpecInv, PTL DEF Inv

\* The rates of a burst stay within a step of those asked for, whatever floats the program
\* has and however its sums are rounded, unless acceleration is negative.
THEOREM RatesStayNear == Spec => []RateStaysNear
<1>1. Inv => RateStaysNear
  BY DEF Inv
<1> QED
  BY <1>1, SpecInv, PTL

\* When the sender ends, however its requests were answered, genorders has made and counted
\* its rate for its duration, and genburst the same requests in each burst: though a burst
\* falls to another rate than it began with, the next begins with the first one's.
THEOREM AllBurstsAreAlike == Spec => []BurstsAreAlike
<1>1. Inv /\ PlanIsKept /\ [Next]_vars => PlanIsKept'
  <2> SUFFICES ASSUME Inv, PlanIsKept, [Next]_vars PROVE PlanIsKept'
    OBVIOUS
  <2>1. TypeOK
    BY DEF Inv
  <2>2. CASE Plan
    BY <2>1, <2>2, PlanKeeps
  <2>3. CASE ~Plan
    BY <2>1, <2>3, ThreadsKeep DEF Next, Sender, Tracks, vars
  <2> QED BY <2>2, <2>3
<1>2. Inv /\ PlanIsKept => BurstsAreAlike
  <2> SUFFICES ASSUME Inv, PlanIsKept, spc = "done"
               PROVE  /\ Len(results) = sent
                      /\ sent = IF args.program = "orders" THEN Orders(args.srate, args.hduration)
                                ELSE args.period * first
    BY DEF BurstsAreAlike
  <2> DEFINE a == args
  <2>1. a \in Args /\ a.period \in Nat /\ first \in Nat /\ sent \in Nat /\ left = 0 /\ period = 0
    BY ArgsFields DEF Inv, TypeOK, ThreadsTypeOK, PlanIsKept
  <2>2. Kept(a, phase, rate, 0, first, sent)
    <3>1. (sent + UnderWay) + left = sent
      BY <2>1 DEF UnderWay
    <3> QED BY <2>1, <3>1 DEF PlanIsKept
  <2>3. ASSUME a.program = "orders" PROVE sent = Orders(a.srate, a.hduration)
    BY <2>2, <2>3 DEF Kept, SteadyKept
  <2>4. ASSUME a.program # "orders" PROVE sent = a.period * first
    <3>1. PICK made \in Nat : sent = (a.period - 0) * first + made /\ made = 0
      BY <2>2, <2>4 DEF Kept, BurstKept
    <3>2. a.period * first \in Nat /\ a.period - 0 = a.period
      BY <2>1
    <3>3. sent = (a.period * first) + 0
      BY <3>1, <3>2
    <3> QED BY <3>2, <3>3
  <2>5. Len(results) = sent
    <3>1. InHand = 0 /\ NotCounted = 0
      BY DEF InHand, NotCounted
    <3> QED BY <3>1, Numbers DEF Inv, ThreadsInv, Counts
  <2> QED BY <2>3, <2>4, <2>5
<1> QED
  BY <1>1, <1>2, InitPlan, SpecInv, PTL DEF Spec
================================================================================
