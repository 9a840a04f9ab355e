--------------------------- MODULE MonitoringProofs ----------------------------
(***************************************************************************)
(* What the plots show, for any log of orders whose stamps are in any      *)
(* order, any number of services, any lengths of a second, a period and    *)
(* the gap, and whatever the observer does.  The script rounds moments to  *)
(* indices in several ways: the lemmas on division say that each index is  *)
(* that of the period its moment lies in, unless this is before the first, *)
(* and that the arrays are long enough for all but strays.  Induction      *)
(* over services and seconds is by the smallest one that would be wrong.   *)
(* The sums of the client's curve telescope; a percentile lies between     *)
(* two elements in order, which do not get smaller when no element does.   *)
(***************************************************************************)
EXTENDS Monitoring, TLAPS, FiniteSetTheorems, WellFoundedInduction

--------------------------------------------------------------------------------
(* Division.                                                               *)

\* The difference of a number and one that is not larger.
LEMMA Difference ==
    ASSUME NEW x \in Nat, NEW y \in Nat, x <= y
    PROVE  y - x \in Nat
OBVIOUS

\* The quotient and what is left.
LEMMA Division ==
    ASSUME NEW a \in Int, NEW d \in Nat \ {0}
    PROVE  /\ a \div d \in Int
           /\ d * (a \div d) <= a /\ a < d * (a \div d) + d
OBVIOUS

\* The quotient is the only number of which this is true.
LEMMA Quotient ==
    ASSUME NEW a \in Int, NEW d \in Nat \ {0}, NEW q \in Int, d * q <= a, a < d * q + d
    PROVE  a \div d = q
<1> DEFINE p == a \div d
<1>1. p \in Int /\ d * p <= a /\ a < d * p + d
  BY Division
<1> HIDE DEF p
<1>2. p = q
  <2>1. ASSUME p < q PROVE FALSE
    <3>1. d * (p + 1) <= d * q
      BY <1>1, <2>1
    <3> QED BY <1>1, <3>1
  <2>2. ASSUME q < p PROVE FALSE
    <3>1. d * (q + 1) <= d * p
      BY <1>1, <2>2
    <3> QED BY <1>1, <3>1
  <2> QED BY <1>1, <2>1, <2>2
<1> QED BY <1>2 DEF p

\* A larger number has no smaller quotient.
LEMMA QuotientGrows ==
    ASSUME NEW a \in Int, NEW b \in Int, NEW d \in Nat \ {0}, a <= b
    PROVE  a \div d <= b \div d
<1> DEFINE p == a \div d
           q == b \div d
<1>1. p \in Int /\ q \in Int /\ d * p <= a /\ b < d * q + d
  BY Division
<1> HIDE DEF p, q
<1>2. ASSUME q < p PROVE FALSE
  <2>1. d * (q + 1) <= d * p
    BY <1>1, <1>2
  <2> QED BY <1>1, <2>1
<1>3. p <= q
  BY <1>1, <1>2
<1> QED BY <1>3 DEF p, q

\* A quotient rounded towards zero: that of a number within so many times d.
LEMMA TruncatedWithin ==
    ASSUME NEW a \in Int, NEW d \in Nat \ {0}, NEW n \in Nat, -(d * n) <= a, a <= d * n
    PROVE  Truncated(a, d) \in -n .. n /\ (a < 0 => Truncated(a, d) <= 0)
<1>1. ASSUME NEW b \in Nat, b <= d * n PROVE b \div d \in 0 .. n
  <2> DEFINE q == b \div d
  <2>1. q \in Int /\ d * q <= b /\ b < d * q + d
    BY Division
  <2> HIDE DEF q
  <2>2. ASSUME q < 0 PROVE FALSE
    <3>1. d * (q + 1) <= 0
      BY <2>1, <2>2
    <3> QED BY <2>1, <3>1
  <2>3. ASSUME q >= n + 1 PROVE FALSE
    <3>1. d * (n + 1) <= d * q
      BY <2>1, <2>3
    <3> QED BY <1>1, <2>1, <3>1
  <2>4. q \in 0 .. n
    BY <2>1, <2>2, <2>3
  <2> QED BY <2>4 DEF q
<1>2. CASE a < 0
  <2>1. -a \in Nat /\ -a <= d * n
    BY <1>2
  <2>2. (-a) \div d \in 0 .. n
    BY <1>1, <2>1, Zenon
  <2>3. ASSUME NEW q \in 0 .. n PROVE -q \in -n .. n /\ -q <= 0
    OBVIOUS
  <2> QED BY <1>2, <2>2, <2>3 DEF Truncated
<1>3. CASE a >= 0
  <2>1. a \in Nat /\ ~(a < 0)
    BY <1>3
  <2>2. a \div d \in 0 .. n
    BY <1>1, <2>1, Zenon
  <2>3. 0 .. n \subseteq -n .. n
    OBVIOUS
  <2> QED BY <2>1, <2>2, <2>3 DEF Truncated
<1> QED BY <1>2, <1>3

\* Of two moments, the later is past when both are.
LEMMA LaterOfTwo ==
    ASSUME NEW x \in Int, NEW y \in Int, NEW d \in Nat \ {0}, NEW i \in Int
    PROVE  Max({x, y}) \div d <= i <=> x \div d <= i /\ y \div d <= i
<1> DEFINE Largest(m) == \A z \in {x, y} : m >= z
<1>1. \E m \in {x, y} : Largest(m)
  <2>1. CASE x >= y
    BY <2>1
  <2>2. CASE y >= x
    BY <2>2
  <2> QED BY <2>1, <2>2
<1>2. Max({x, y}) = CHOOSE m \in {x, y} : Largest(m)
  BY DEF Max
<1>3. Max({x, y}) \in {x, y} /\ Largest(Max({x, y}))
  <2> HIDE DEF Largest
  <2> QED BY <1>1, <1>2
<1>4. /\ x \div d \in Int /\ y \div d \in Int
      /\ x >= y => y \div d <= x \div d
      /\ y >= x => x \div d <= y \div d
  BY QuotientGrows, Division
<1>5. CASE Max({x, y}) = x
  <2>1. x >= y
    BY <1>3, <1>5
  <2>2. ASSUME NEW p \in Int, NEW q \in Int, q <= p PROVE p <= i <=> p <= i /\ q <= i
    BY <2>2
  <2> QED BY <1>4, <1>5, <2>1, <2>2
<1>6. CASE Max({x, y}) = y
  <2>1. y >= x
    BY <1>3, <1>6
  <2>2. ASSUME NEW p \in Int, NEW q \in Int, q <= p PROVE p <= i <=> q <= i /\ p <= i
    BY <2>2
  <2> QED BY <1>4, <1>6, <2>1, <2>2
<1> QED BY <1>3, <1>5, <1>6

\* A quotient rounded up.
LEMMA RoundedUp ==
    ASSUME NEW a \in Nat, NEW d \in Nat \ {0}
    PROVE  Ceil(a, d) \in Nat /\ a <= d * Ceil(a, d)
<1> DEFINE q == (a + d - 1) \div d
<1>1. q \in Int /\ d * q <= a + d - 1 /\ a + d - 1 < d * q + d
  BY Division
<1> HIDE DEF q
<1>2. q >= 0
  <2>1. ASSUME q < 0 PROVE FALSE
    <3>1. d * (q + 1) <= 0
      BY <1>1, <2>1
    <3> QED BY <1>1, <3>1
  <2> QED BY <1>1, <2>1
<1>3. q \in Nat /\ a <= d * q
  BY <1>1, <1>2
<1> QED BY <1>3 DEF q, Ceil

--------------------------------------------------------------------------------
(* The smallest and the largest.                                           *)

\* Every set of natural numbers has a smallest.
LEMMA MinExists ==
    ASSUME NEW S, S \subseteq Nat, S # {}
    PROVE  Min(S) \in S /\ \A x \in S : Min(S) <= x
<1> DEFINE R == OpToRel(<, Nat)
<1>1. \A x, y \in Nat : x < y => <<x, y>> \in R
  BY DEF OpToRel
<1>2. IsWellFoundedOn(R, Nat)
  BY NatLessThanWellFounded
<1> HIDE DEF R
<1>3. PICK m \in S : \A y \in S : ~(<<y, m>> \in R)
  BY <1>2, WFMin
<1>4. ASSUME NEW y \in S PROVE m <= y
  <2>1. y \in Nat /\ m \in Nat /\ ~(y < m)
    BY <1>1, <1>3
  <2> QED BY <2>1
<1>5. \E x \in S : \A y \in S : x <= y
  BY <1>4
<1>6. Min(S) \in S /\ \A y \in S : Min(S) <= y
  BY <1>5 DEF Min
<1> QED BY <1>6

\* Every finite set of numbers has a largest.
LEMMA MaxExists ==
    ASSUME NEW S, S \subseteq Int, S # {}, IsFiniteSet(S)
    PROVE  Max(S) \in S /\ \A x \in S : x <= Max(S)
<1> DEFINE HasLargest(U) == \E m \in U : \A x \in U : x <= m
           T == {U \in FiniteSubsetsOf(S) : U # {} /\ ~HasLargest(U)}
<1>1. ASSUME ~HasLargest(S) PROVE FALSE
  <2>1. S \in T /\ T \subseteq FiniteSubsetsOf(S) /\ T # {}
    BY <1>1 DEF FiniteSubsetsOf
  <2>2. PICK U \in T : \A V \in T : ~(<<V, U>> \in StrictSubsetOrdering(S))
    <3>1. IsWellFoundedOn(StrictSubsetOrdering(S), FiniteSubsetsOf(S))
      BY FS_StrictSubsetOrderingWellFounded
    <3> HIDE DEF T
    <3> QED BY <2>1, <3>1, WFMin
  <2>3. U \subseteq S /\ IsFiniteSet(U) /\ U # {} /\ ~HasLargest(U)
    BY <2>2 DEF FiniteSubsetsOf
  <2>4. PICK u : u \in U
    BY <2>3
  <2> DEFINE V == U \ {u}
  <2>5. V \in FiniteSubsetsOf(S) /\ V # U /\ V \subseteq U
    BY <2>3, <2>4, FS_RemoveElement DEF FiniteSubsetsOf
  <2>6. <<V, U>> \in StrictSubsetOrdering(S)
    BY <2>3, <2>5 DEF StrictSubsetOrdering
  <2>7. V = {} \/ HasLargest(V)
    BY <2>2, <2>5, <2>6
  <2>8. CASE V = {}
    <3>1. \A x \in U : x = u /\ x \in Int
      BY <2>3, <2>8
    <3> QED BY <2>3, <2>4, <3>1
  <2>9. CASE HasLargest(V)
    <3>1. PICK m \in V : \A x \in V : x <= m
      BY <2>9
    <3>2. m \in Int /\ u \in Int /\ m \in U /\ \A x \in U : x \in Int /\ (x = u \/ x <= m)
      BY <2>3, <2>4, <3>1
    <3>3. (\A x \in U : x <= m) \/ (\A x \in U : x <= u)
      BY <3>2
    <3> QED BY <2>3, <2>4, <3>2, <3>3
  <2> QED BY <2>7, <2>8, <2>9
<1>2. PICK m \in S : \A x \in S : x <= m
  BY <1>1
<1>3. \A x \in S : m >= x
  BY <1>2
<1>4. \E x \in S : \A y \in S : x >= y
  BY <1>3
<1>5. Max(S) \in S /\ \A y \in S : Max(S) >= y
  BY <1>4 DEF Max
<1> QED BY <1>5

\* A function has finitely many values on a finite set.
LEMMA ValuesAreFinite ==
    ASSUME NEW f, IsFiniteSet(DOMAIN f)
    PROVE  IsFiniteSet({f[x] : x \in DOMAIN f})
<1> DEFINE S == DOMAIN f
           T == {f[x] : x \in S}
           g == [x \in S |-> f[x]]
<1>1. g \in Surjection(S, T)
  BY DEF Surjection
<1> QED BY ONLY <1>1, FS_Surjection, IsFiniteSet(DOMAIN f)

\* Every finite set of numbers has a smallest.
LEMMA FiniteMinExists ==
    ASSUME NEW S, S \subseteq Int, S # {}, IsFiniteSet(S)
    PROVE  Min(S) \in S /\ \A x \in S : Min(S) <= x
<1> DEFINE f == [x \in S |-> -x]
           T == {f[x] : x \in DOMAIN f}
<1>1. T \subseteq Int /\ T # {} /\ T = {-x : x \in S}
  <2>1. DOMAIN f = S /\ \A x \in S : f[x] = -x
    OBVIOUS
  <2> HIDE DEF f
  <2>2. T = {-x : x \in S}
    BY <2>1
  <2>3. \A x \in S : -x \in Int
    OBVIOUS
  <2> QED BY <2>2, <2>3
<1>2. IsFiniteSet(T)
  <2>1. DOMAIN f = S
    OBVIOUS
  <2> HIDE DEF f
  <2> QED BY <2>1, ValuesAreFinite
<1>3. Max(T) \in T /\ \A y \in T : y <= Max(T)
  <2> HIDE DEF T
  <2> QED BY <1>1, <1>2, MaxExists
<1>4. PICK m \in S : Max(T) = -m
  BY <1>1, <1>3
<1>5. ASSUME NEW x \in S PROVE m <= x
  <2>1. x \in Int /\ m \in Int /\ -x <= -m
    BY <1>1, <1>3, <1>4
  <2> QED BY <2>1
<1>6. \E x \in S : \A y \in S : x <= y
  BY <1>5
<1> QED BY <1>6 DEF Min


--------------------------------------------------------------------------------
(* The invariant.                                                          *)

OrderLine == [placed : Nat \ {0}, ends : [Service -> Nat]]

\* The log is one of those of the experiments.
LogInv == orderLog \in Seq(OrderLine)

Measured == spc \in {"bin", "cli", "scale", "plotted"}

\* The span holds every order of the log, which is not empty once there is a span.
OriginInv ==
    /\ spc \in {"collect", "origin", "exception"} \/ Measured
    /\ spc \in {"collect", "origin"} =>
        /\ input_rate = <<>> /\ order_rate = <<>> /\ concurrencies = <<>> /\ landist = <<>>
        /\ service = 1
    /\ Measured =>
        /\ orderLog # <<>>
        /\ btime \in Nat /\ etime \in Nat
        /\ \A o \in Orders : /\ btime <= orderLog[o].placed /\ orderLog[o].placed <= etime
                             /\ orderLog[o].ends[Services] <= etime
        /\ size = Size(etime - btime)

Elements == 0 .. size * (Resolution \div Second) + Gap - 1

\* The curves have their lengths, and the services before the present one are done.
CurvesInv ==
    Measured =>
        /\ input_rate \in [0 .. size + agap - 1 -> Nat]
        /\ order_rate \in Seq([0 .. size + Gap - 1 -> Nat])
        /\ concurrencies \in Seq([Elements -> Int])
        /\ Len(concurrencies) = Len(order_rate)
        /\ spc = "bin" => service \in Service /\ Len(order_rate) = service - 1

ScriptInv == LogInv /\ OriginInv /\ CurvesInv
Inv == ScriptInv /\ OnlyStraysFail /\ RatesCountOrders /\ FirstDemands

--------------------------------------------------------------------------------
(* The constants.                                                          *)

\* A period has a whole number of seconds.
LEMMA Periods ==
    /\ Resolution \div Second \in Nat /\ Resolution \div Second >= 1
    /\ Second * (Resolution \div Second) = Resolution
    /\ Second <= Resolution
<1> DEFINE q == Resolution \div Second
<1>1. q \in Int /\ Second * q = Resolution
  BY TicksAssumption
<1> HIDE DEF q
<1>2. q >= 1
  <2>1. ASSUME q <= 0 PROVE FALSE
    <3>1. Second * q <= 0
      BY <1>1, <2>1, TicksAssumption
    <3> QED BY <1>1, <3>1, TicksAssumption
  <2> QED BY <1>1, <2>1
<1>3. Second <= Second * q
  BY <1>1, <1>2, TicksAssumption
<1> QED BY <1>1, <1>2, <1>3 DEF q

\* The gap has at least one period, and no more periods than elements.
LEMMA Gaps == agap \in Nat /\ agap >= 1 /\ agap <= Gap /\ Gap \in Nat /\ Gap >= 1
<1> DEFINE a == agap
<1>1. Gap * Second \in Nat /\ Gap * Second >= Resolution
  BY GapAssumption, TicksAssumption
<1>2. a \in Int /\ Resolution * a <= Gap * Second /\ Gap * Second < Resolution * a + Resolution
  <2>1. SUFFICES ASSUME NEW g \in Nat, g = Gap * Second
                 PROVE  LET b == g \div Resolution
                        IN  b \in Int /\ Resolution * b <= g /\ g < Resolution * b + Resolution
    BY <1>1 DEF agap
  <2>2. g \in Int /\ Resolution \in Nat \ {0}
    BY TicksAssumption
  <2> QED BY ONLY <2>2, Division, Zenon
<1> HIDE DEF a
<1>3. a >= 1
  <2>1. ASSUME a <= 0 PROVE FALSE
    <3>1. Resolution * a <= 0
      BY <1>2, <2>1, TicksAssumption
    <3> QED BY <1>1, <1>2, <3>1, TicksAssumption
  <2> QED BY <1>2, <2>1
<1>4. a <= Gap
  <2>1. ASSUME a >= Gap + 1 PROVE FALSE
    <3>1. Resolution * (Gap + 1) <= Resolution * a
      BY <1>2, <2>1, GapAssumption, TicksAssumption
    <3>2. Second * (Gap + 1) <= Resolution * (Gap + 1)
      BY Periods, GapAssumption, TicksAssumption
    <3>3. Second * (Gap + 1) = Gap * Second + Second
      BY GapAssumption, TicksAssumption
    <3> QED BY <1>1, <1>2, <3>1, <3>2, <3>3, GapAssumption, TicksAssumption
  <2> QED BY <1>2, <2>1, GapAssumption
<1> QED BY <1>2, <1>3, <1>4, GapAssumption DEF a

\* The seconds of so many periods.
LEMMA SecondsOfPeriods ==
    ASSUME NEW t \in Int, NEW n \in Nat, t <= Resolution * n
    PROVE  t \div Second <= n * (Resolution \div Second)
<1> DEFINE p == t \div Second
           q == Resolution \div Second
<1>1. p \in Int /\ Second * p <= t
  BY Division, TicksAssumption
<1>2. q \in Nat /\ Second * q = Resolution
  BY Periods
<1> HIDE DEF p, q
<1>3. Resolution * n = Second * (n * q) /\ n * q \in Nat
  BY <1>2, TicksAssumption
<1>4. ASSUME p >= n * q + 1 PROVE FALSE
  <2>1. Second * (n * q + 1) <= Second * p
    BY <1>1, <1>3, <1>4, TicksAssumption
  <2>2. Second * (n * q + 1) = Second * (n * q) + Second
    BY <1>3, TicksAssumption
  <2> QED BY <1>1, <1>3, <2>1, <2>2, TicksAssumption
<1> QED BY <1>1, <1>3, <1>4 DEF p, q

--------------------------------------------------------------------------------
(* The orders of the log.                                                  *)

LEMMA OrdersAreFinite ==
    ASSUME LogInv
    PROVE  IsFiniteSet(Orders) /\ Orders = 1 .. Len(orderLog) /\ Len(orderLog) \in Nat
<1>1. Orders = 1 .. Len(orderLog) /\ Len(orderLog) \in Nat
  BY DEF LogInv, Orders
<1>2. IsFiniteSet(1 .. Len(orderLog))
  BY <1>1, FS_Interval
<1> QED BY <1>1, <1>2

LEMMA LinesHaveTypes ==
    ASSUME LogInv, NEW o \in Orders
    PROVE  orderLog[o].placed \in Nat /\ \A s \in Service : orderLog[o].ends[s] \in Nat
<1>1. orderLog[o] \in OrderLine
  BY DEF LogInv, Orders
<1> QED BY <1>1 DEF OrderLine

\* An order is placed within the span, and so are the ends that are not strays.
LEMMA WithinTheSpan ==
    ASSUME LogInv, OriginInv, Measured, NEW o \in Orders, NEW s \in Service
    PROVE  /\ etime - btime \in Nat
           /\ starttime(o) \in Nat /\ starttime(o) <= etime - btime
           /\ endtime(s, o) \in Int
           /\ orderLog[o].ends[s] \in Reach =>
                  -(etime - btime) <= endtime(s, o) /\ endtime(s, o) <= etime - btime
           /\ orderLog[o].ends[s] >= btime => endtime(s, o) >= 0
<1>1. orderLog[o].placed \in Nat /\ orderLog[o].ends[s] \in Nat
  BY LinesHaveTypes
<1>2. /\ btime \in Nat /\ etime \in Nat
      /\ btime <= orderLog[o].placed /\ orderLog[o].placed <= etime
  BY DEF OriginInv
<1> QED BY <1>1, <1>2 DEF starttime, endtime, Reach

LEMMA SizeOfTheSpan ==
    ASSUME NEW span \in Nat
    PROVE  Size(span) \in Nat /\ span <= Resolution * (Size(span) - agap)
           /\ Size(span) - agap \in Nat /\ Size(span) = Ceil(span, Resolution) + agap
BY RoundedUp, Gaps, TicksAssumption DEF Size


--------------------------------------------------------------------------------
(* No index is beyond its array, but those of strays.                      *)

LEMMA IndicesFit ==
    ASSUME LogInv, OriginInv, CurvesInv, Measured, NEW s \in Service,
           \A o \in Orders : orderLog[o].ends[s] \in Reach
    PROVE  IndicesExist(s)
<1> DEFINE span == etime - btime
           periods == Ceil(span, Resolution)
<1>1. ASSUME NEW o \in Orders
      PROVE  /\ starttime(o) \div Resolution \in Nat
             /\ starttime(o) \div Second \in Nat
             /\ starttime(o) \div Resolution <= periods
             /\ Truncated(endtime(s, o), Resolution) \in -periods .. periods
             /\ Truncated(endtime(s, o), Second) \in Int
             /\ Truncated(endtime(s, o), Second) <= size * (Resolution \div Second)
             /\ size = periods + agap /\ periods \in Nat
  <2>1. /\ span \in Nat /\ starttime(o) \in Nat /\ starttime(o) <= span
        /\ endtime(s, o) \in Int /\ -span <= endtime(s, o) /\ endtime(s, o) <= span
    BY WithinTheSpan
  <2>2. size = periods + agap /\ periods \in Nat /\ span <= Resolution * periods
    BY <2>1, RoundedUp, TicksAssumption DEF OriginInv, Size
  <2> HIDE DEF periods, span
  <2>3. /\ starttime(o) \div Resolution \in Nat
        /\ starttime(o) \div Second \in Nat
    <3>1. ASSUME NEW t \in Nat, NEW d \in Nat \ {0} PROVE t \div d \in Nat
      OBVIOUS
    <3> QED BY <2>1, <3>1, TicksAssumption
  <2>4. starttime(o) \div Resolution <= periods
    <3>1. starttime(o) \div Resolution \in Int /\ Resolution * (starttime(o) \div Resolution) <= starttime(o)
      BY <2>1, Division, TicksAssumption
    <3>2. ASSUME NEW q \in Int, Resolution * q <= starttime(o) PROVE q <= periods
      <4>1. ASSUME q >= periods + 1 PROVE FALSE
        <5>1. Resolution * (periods + 1) <= Resolution * q
          BY <2>2, <4>1, TicksAssumption
        <5>2. Resolution * (periods + 1) = Resolution * periods + Resolution
          BY <2>2, TicksAssumption
        <5> QED BY <2>1, <2>2, <3>2, <5>1, <5>2, TicksAssumption
      <4> QED BY <2>2, <4>1
    <3> QED BY <3>1, <3>2
  <2>5. Truncated(endtime(s, o), Resolution) \in -periods .. periods
    <3>1. /\ Resolution * periods \in Nat
          /\ -(Resolution * periods) <= endtime(s, o) /\ endtime(s, o) <= Resolution * periods
      <4>1. Resolution * periods \in Nat
        BY <2>2, TicksAssumption
      <4> QED BY <2>1, <2>2, <4>1
    <3> QED BY <2>1, <2>2, <3>1, TruncatedWithin, TicksAssumption
  <2>6. /\ Truncated(endtime(s, o), Second) \in Int
        /\ Truncated(endtime(s, o), Second) <= size * (Resolution \div Second)
    <3> DEFINE n == size * (Resolution \div Second)
    <3>1. n \in Nat /\ Second * n = Resolution * size
      <4>1. ASSUME NEW q \in Nat, NEW z \in Nat, NEW d \in Nat PROVE z * q \in Nat /\ d * (z * q) = (d * q) * z
        OBVIOUS
      <4>2. size \in Nat
        BY <2>2, Gaps
      <4> QED BY <4>1, <4>2, Periods, TicksAssumption
    <3>2. Resolution * periods <= Resolution * size
      <4>1. Resolution * size = Resolution * periods + Resolution * agap
            /\ Resolution * agap \in Nat /\ Resolution * periods \in Nat
        BY <2>2, Gaps, TicksAssumption
      <4> QED BY <4>1
    <3> HIDE DEF n
    <3>3. -(Second * n) <= endtime(s, o) /\ endtime(s, o) <= Second * n
      <4>1. Resolution * periods \in Nat /\ Resolution * size \in Nat
        BY <2>2, Gaps, TicksAssumption
      <4> QED BY <2>1, <2>2, <3>1, <3>2, <4>1
    <3>4. Truncated(endtime(s, o), Second) \in -n .. n
      BY <2>1, <3>1, <3>3, TruncatedWithin, TicksAssumption
    <3>5. ASSUME NEW x \in -n .. n PROVE x \in Int /\ x <= n
      BY <3>1
    <3> QED BY <3>4, <3>5 DEF n
  <2> QED BY <2>2, <2>3, <2>4, <2>5, <2>6
<1> HIDE DEF span, periods
<1> DEFINE last == size + Gap - 1
<1>3. ASSUME NEW o \in Started
      PROVE  InputPeriod(o) \in DOMAIN input_rate /\ InputPeriod(o) <= last
  <2>1. o \in Orders
    BY DEF Started
  <2>2. DOMAIN input_rate = 0 .. size + agap - 1
    BY DEF CurvesInv
  <2>3. SUFFICES ASSUME NEW q \in Nat, q = starttime(o) \div Resolution
                 PROVE  q + agap \in 0 .. size + agap - 1 /\ q + agap <= last
    BY <1>1, <2>1, <2>2 DEF InputPeriod
  <2>4. q <= periods /\ size = periods + agap /\ periods \in Nat
    BY <1>1, <2>1, <2>3
  <2> QED BY <2>4, Gaps
<1>4. ASSUME NEW o \in Started
      PROVE  Seconds(s, o) \subseteq DOMAIN Demand(s)
  <2>1. o \in Orders
    BY DEF Started
  <2>2. SUFFICES ASSUME NEW t \in Nat, t = starttime(o) \div Second,
                        NEW e \in Int, e = Truncated(endtime(s, o), Second),
                        NEW z \in Int, z = size * (Resolution \div Second),
                        NEW j \in t + Gap .. e - 1 + Gap
                 PROVE  j \in 0 .. z + Gap - 1
    <3>1. size * (Resolution \div Second) \in Int
      <4>1. size \in Int
        BY <1>1, <2>1, Gaps
      <4> QED BY <4>1, Periods
    <3> QED BY <1>1, <2>1, <3>1 DEF Seconds, Demand
  <2>3. e <= z
    BY <1>1, <2>1, <2>2
  <2> QED BY <2>3, Gaps
<1>5. ASSUME NEW o \in Orders PROVE OutputIndex(s, o) \in 0 .. last
  <2>1. /\ Truncated(endtime(s, o), Resolution) \in -periods .. periods
        /\ size = periods + agap /\ periods \in Nat
    BY <1>1
  <2>2. ASSUME NEW q \in -periods .. periods
        PROVE  (IF q + agap < 0 THEN (q + agap) + (size + Gap) ELSE q + agap) \in 0 .. last
    BY <2>1, Gaps
  <2> QED BY <2>1, <2>2 DEF OutputIndex, OutputPeriod
<1> QED BY <1>3, <1>4, <1>5 DEF IndicesExist


--------------------------------------------------------------------------------
(* The steps that make no curve.                                           *)

LEMMA InvInit == Init => Inv
<1> SUFFICES ASSUME Init PROVE Inv
  OBVIOUS
<1>1. PICK e \in Experiments : orderLog = e.orders
  BY DEF Init
<1>2. LogInv
  BY <1>1, ExperimentsAssumption DEF LogInv, OrderLine
<1>3. /\ spc = "collect" /\ service = 1 /\ landist = <<>>
      /\ input_rate = <<>> /\ order_rate = <<>> /\ concurrencies = <<>>
  BY DEF Init, InitScript
<1>4. OriginInv /\ CurvesInv
  BY <1>3 DEF OriginInv, CurvesInv, Measured
<1>5. OnlyStraysFail /\ RatesCountOrders /\ FirstDemands
  BY <1>3 DEF OnlyStraysFail, RatesCountOrders, FirstDemands
<1> QED BY <1>2, <1>4, <1>5 DEF Inv, ScriptInv

\* What the counts are about.
counted == <<orderLog, origin, curves>>

LEMMA CountsStay ==
    ASSUME RatesCountOrders, FirstDemands, LogInv, UNCHANGED counted
    PROVE  RatesCountOrders' /\ FirstDemands' /\ LogInv'
<1> /\ orderLog' = orderLog /\ btime' = btime /\ etime' = etime /\ size' = size
    /\ input_rate' = input_rate /\ order_rate' = order_rate /\ concurrencies' = concurrencies
  BY DEF counted, origin, curves
<1>1. LogInv'
  BY DEF LogInv, OrderLine
<1>2. RatesCountOrders'
  BY DEF RatesCountOrders, Orders, Period, Since, agap
<1>3. FirstDemands'
  <2>1. ASSUME NEW s, NEW o
        PROVE  Begins(s, o)' = Begins(s, o) /\ endtime(s, o)' = endtime(s, o)
    BY DEF Begins, starttime, endtime
  <2>2. Started' = Started
    BY DEF Started, Orders, starttime
  <2>3. ASSUME NEW s, NEW i PROVE InService(s, i)' = InService(s, i)
    BY <2>1, <2>2 DEF InService
  <2>4. ASSUME NEW s PROVE InChain(s)' <=> InChain(s)
    BY DEF InChain, Orders
  <2> QED BY <2>3, <2>4 DEF FirstDemands, DemandIsInService
<1> QED BY <1>1, <1>2, <1>3

LEMMA StraysStay ==
    ASSUME OnlyStraysFail, UNCHANGED counted, spc' = "exception" => spc = "exception" \/ orderLog = <<>>
    PROVE  OnlyStraysFail'
<1> orderLog' = orderLog /\ btime' = btime /\ etime' = etime
  BY DEF counted, origin
<1> QED BY DEF OnlyStraysFail, Reach, Orders

LEMMA OriginStays ==
    ASSUME OriginInv, UNCHANGED counted, service' = service, Measured' => Measured,
           spc' \in {"collect", "origin"} => spc \in {"collect", "origin"},
           spc' \in {"collect", "origin", "exception"} \/ Measured'
    PROVE  OriginInv'
BY DEF OriginInv, Orders, counted, origin, curves, Size, Ceil, agap

LEMMA CurvesStay ==
    ASSUME CurvesInv, UNCHANGED counted, Measured' => Measured,
           spc' = "bin" => spc = "bin" /\ service' = service
    PROVE  CurvesInv'
BY DEF CurvesInv, counted, origin, curves, agap, Elements

LEMMA StutterKeepsInv ==
    ASSUME Inv, UNCHANGED vars
    PROVE  Inv'
<1> UNCHANGED counted /\ spc' = spc /\ service' = service /\ orderLog' = orderLog
  BY DEF vars, logs, counted
<1>1. Measured' <=> Measured
  BY DEF Measured
<1>2. OriginInv' /\ CurvesInv'
  BY <1>1, OriginStays, CurvesStay DEF Inv, ScriptInv, OriginInv
<1> QED BY <1>2, CountsStay, StraysStay DEF Inv, ScriptInv

LEMMA LogsKeepInv ==
    ASSUME Inv, NoOrders \/ ReadClient \/ ReadScaling \/ CollectLogs
    PROVE  Inv'
<1> DEFINE early == {"collect", "origin", "exception"}
<1>1. /\ UNCHANGED counted /\ orderLog' = orderLog /\ service' = service
      /\ \/ spc \in early /\ spc' \in early
         \/ spc \in {"cli", "scale"} /\ spc' \in {"scale", "plotted"}
      /\ spc' \in {"collect", "origin"} => spc \in {"collect", "origin"}
      /\ spc' = "exception" => orderLog = <<>>
  BY DEF NoOrders, ReadClient, ReadScaling, CollectLogs, Collect, counted, logs
<1>2. (Measured' <=> Measured) /\ spc' # "bin" /\ (spc' \in early \/ Measured')
  BY <1>1 DEF Measured
<1>3. OriginInv' /\ CurvesInv'
  BY <1>1, <1>2, OriginStays, CurvesStay DEF Inv, ScriptInv
<1> QED BY <1>1, <1>3, CountsStay, StraysStay DEF Inv, ScriptInv


--------------------------------------------------------------------------------
(* The origin.                                                             *)

LEMMA OriginKeepsInv ==
    ASSUME Inv, Origin
    PROVE  Inv'
<1> DEFINE placed == {orderLog[o].placed : o \in Orders}
           closed == {orderLog[o].ends[Services] : o \in Orders}
           moments == placed \cup closed
<1>1. /\ spc = "origin" /\ spc' = "bin" /\ orderLog # <<>> /\ service' = service
      /\ orderLog' = orderLog /\ order_rate' = order_rate /\ concurrencies' = concurrencies
      /\ btime' = Min(moments) /\ etime' = Max(moments)
      /\ size' = Size(etime' - btime') /\ input_rate' = Zeros(size' + agap)
  BY DEF Origin, logs
<1>2. order_rate = <<>> /\ concurrencies = <<>> /\ LogInv
  BY <1>1 DEF Inv, ScriptInv, OriginInv, Measured
<1>3. IsFiniteSet(Orders) /\ Orders # {}
  BY <1>1, <1>2, OrdersAreFinite DEF LogInv
<1>4. moments \subseteq Nat /\ IsFiniteSet(moments) /\ moments # {}
  <2>1. ASSUME NEW o \in Orders
        PROVE  orderLog[o].placed \in Nat /\ orderLog[o].ends[Services] \in Nat
    BY <1>2, LinesHaveTypes, ServicesAssumption DEF Service
  <2>2. IsFiniteSet(placed)
    <3> DEFINE f == [o \in Orders |-> orderLog[o].placed]
    <3>1. DOMAIN f = Orders /\ {f[o] : o \in DOMAIN f} = placed
      OBVIOUS
    <3> HIDE DEF f
    <3> QED BY <1>3, <3>1, ValuesAreFinite
  <2>3. IsFiniteSet(closed)
    <3> DEFINE f == [o \in Orders |-> orderLog[o].ends[Services]]
    <3>1. DOMAIN f = Orders /\ {f[o] : o \in DOMAIN f} = closed
      OBVIOUS
    <3> HIDE DEF f
    <3> QED BY <1>3, <3>1, ValuesAreFinite
  <2> QED BY <1>3, <2>1, <2>2, <2>3, FS_Union
<1>5. /\ btime' \in moments /\ \A x \in moments : btime' <= x
      /\ etime' \in moments /\ \A x \in moments : x <= etime'
  <2> HIDE DEF moments
  <2>1. moments \subseteq Int
    BY <1>4
  <2> QED BY <1>1, <1>4, <2>1, MinExists, MaxExists
<1>6. btime' \in Nat /\ etime' \in Nat /\ etime' - btime' \in Nat
  <2> HIDE DEF moments
  <2>1. btime' \in Nat /\ etime' \in Nat /\ btime' <= etime'
    BY <1>4, <1>5
  <2> QED BY <2>1, Difference, Zenon
<1>7. LogInv'
  BY <1>1, <1>2 DEF LogInv, OrderLine
<1>8. OriginInv'
  <2>1. Measured'
    BY <1>1 DEF Measured
  <2>2. ASSUME NEW o \in Orders
        PROVE  /\ btime' <= orderLog[o].placed /\ orderLog[o].placed <= etime'
               /\ orderLog[o].ends[Services] <= etime'
    BY <1>5
  <2>3. Orders' = Orders
    BY <1>1 DEF Orders
  <2> QED BY <1>1, <1>6, <2>1, <2>2, <2>3 DEF OriginInv, Size, agap, Ceil
<1>9. CurvesInv'
  <2>1. size' \in Nat
    BY <1>1, <1>6, SizeOfTheSpan
  <2>2. input_rate' \in [0 .. size' + agap - 1 -> Nat]
    <3>1. input_rate' = [b \in 0 .. (size' + agap) - 1 |-> 0]
      BY <1>1, Zenon DEF Zeros
    <3>2. (size' + agap) - 1 = size' + agap - 1
      BY <2>1, Gaps
    <3>3. 0 \in Nat
      OBVIOUS
    <3> QED BY <3>1, <3>2, <3>3, Zenon
  <2>3. service' \in Service /\ service = 1
    BY <1>1, ServicesAssumption DEF Inv, ScriptInv, OriginInv, Measured, Service
  <2> QED BY <1>1, <1>2, <2>2, <2>3 DEF CurvesInv, agap
<1>10. OnlyStraysFail' /\ FirstDemands'
  BY <1>1, <1>2 DEF OnlyStraysFail, FirstDemands
<1>11. RatesCountOrders'
  <2>1. ASSUME NEW b \in DOMAIN input_rate' PROVE input_rate'[b] = 0
    BY <1>1, <2>1 DEF Zeros
  <2>2. ASSUME NEW S \in SUBSET Orders PROVE 0 = 0 * Cardinality(S)
    BY <1>3, FS_Subset, FS_CardinalityType
  <2>3. DOMAIN order_rate' = {} /\ Len(order_rate') = 0
    BY <1>1, <1>2
  <2>4. ASSUME NEW b \in DOMAIN input_rate'
        PROVE  input_rate'[b] = Len(order_rate')
                   * Cardinality({o \in Orders : orderLog[o].placed \in Period(b)' \ {btime'}})
    BY <2>1, <2>2, <2>3
  <2>5. orderLog' = orderLog /\ Orders' = Orders
    BY <1>1 DEF Orders
  <2>6. \A s \in DOMAIN order_rate', b \in DOMAIN input_rate' :
            Since(s)' => order_rate'[s][b]
                = Cardinality({o \in Orders' : orderLog'[o].ends[s] \in Period(b)'})
    BY <2>3
  <2>7. \A b \in DOMAIN input_rate' :
            input_rate'[b] = Len(order_rate')
                * Cardinality({o \in Orders' : orderLog'[o].placed \in Period(b)' \ {btime'}})
    BY <2>4, <2>5, Zenon
  <2> QED BY <2>6, <2>7, Zenon DEF RatesCountOrders
<1> QED BY <1>7, <1>8, <1>9, <1>10, <1>11 DEF Inv, ScriptInv


--------------------------------------------------------------------------------
(* The curves of a service.                                                *)

\* The index of a moment is that of the period it lies in.
LEMMA IndexOfPeriod ==
    ASSUME NEW x \in Int, NEW b \in Int, btime \in Nat
    PROVE  (x - btime) \div Resolution + agap = b <=> x \in Period(b)
<1> SUFFICES ASSUME NEW q \in Int, q = b - agap,
                    NEW t \in Int, t = x - btime
             PROVE  t \div Resolution = q
                    <=> btime + q * Resolution <= x /\ x <= btime + (q + 1) * Resolution - 1
  <2>1. b - agap \in Int /\ x - btime \in Int /\ (b - agap) + 1 = b - agap + 1
    BY Gaps
  <2>2. (x - btime) \div Resolution \in Int
    BY Division, TicksAssumption
  <2>3. ASSUME NEW q \in Int, q = b - agap
        PROVE  x \in Period(b)
               <=> btime + q * Resolution <= x /\ x <= btime + (q + 1) * Resolution - 1
    <3>1. Period(b) = btime + q * Resolution .. btime + (q + 1) * Resolution - 1
      BY <2>1, <2>3 DEF Period
    <3>2. btime + q * Resolution \in Int /\ btime + (q + 1) * Resolution - 1 \in Int
      BY <2>3, TicksAssumption
    <3> QED BY <3>1, <3>2
  <2>4. ASSUME NEW p \in Int PROVE p + agap = b <=> p = b - agap
    BY Gaps
  <2> QED BY <2>1, <2>2, <2>3, <2>4
<1> DEFINE p == t \div Resolution
           r == Resolution
<1>1. p \in Int /\ r \in Nat \ {0} /\ r * p <= t /\ t < r * p + r
  BY Division, TicksAssumption
<1>2. ASSUME r * q <= t, t < r * q + r PROVE p = q
  BY <1>2, Quotient, TicksAssumption
<1> HIDE DEF p, r
<1>3. (r * q <= t /\ t < r * q + r) <=> p = q
  BY <1>1, <1>2
<1>4. r * q \in Int /\ r * q = q * r /\ (q + 1) * r = r * q + r
  BY <1>1
<1>5. SUFFICES ASSUME NEW z \in Int, z = r * q
               PROVE  p = q <=> btime + z <= x /\ x <= btime + (z + r) - 1
  BY <1>4 DEF p, r
<1> QED BY <1>1, <1>3, <1>5

LEMMA CountsAreNumbers ==
    ASSUME LogInv, NEW S \in SUBSET Orders
    PROVE  Cardinality(S) \in Nat /\ IsFiniteSet(S)
BY OrdersAreFinite, FS_Subset, FS_CardinalityType

\* What a service's step does to the curves.
LEMMA BinStep ==
    ASSUME Inv, NEW s \in Service, BinOrders(s)
    PROVE  /\ Measured /\ Measured' /\ orderLog' = orderLog
           /\ btime' = btime /\ etime' = etime /\ size' = size
           /\ s \in Nat /\ 1 <= s /\ Len(order_rate) = s - 1 /\ Len(concurrencies) = s - 1
           /\ spc' = "bin" => service' = s + 1 /\ service' \in Service
           /\ spc' \in {"bin", "cli"}
<1>1. /\ spc = "bin" /\ service = s /\ spc' = IF s < Services THEN "bin" ELSE "cli"
      /\ service' = IF s < Services THEN s + 1 ELSE 1
      /\ orderLog' = orderLog /\ btime' = btime /\ etime' = etime /\ size' = size
  BY DEF BinOrders, logs, origin
<1>2. Measured /\ s \in Nat /\ 1 <= s /\ Len(order_rate) = s - 1 /\ Len(concurrencies) = s - 1
  BY <1>1, ServicesAssumption DEF Inv, ScriptInv, CurvesInv, Measured, Service
<1> QED BY <1>1, <1>2, ServicesAssumption DEF Measured, Service

\* The demand, before and after the predecessor's is taken away.
LEMMA DemandType ==
    ASSUME Inv, NEW s \in Service, BinOrders(s)
    PROVE  /\ Demand(s) \in [Elements -> Nat]
           /\ LessPredecessor(s, Demand(s)) \in [Elements -> Int]
<1>1. Demand(s) \in [Elements -> Nat]
  <2>1. ASSUME NEW j PROVE Cardinality({o \in Started : j \in Seconds(s, o)}) \in Nat
    <3>1. {o \in Started : j \in Seconds(s, o)} \in SUBSET Orders
      BY DEF Started
    <3> QED BY <3>1, CountsAreNumbers DEF Inv, ScriptInv
  <2> QED BY <2>1 DEF Demand, Elements
<1>2. ASSUME s # 1 PROVE concurrencies[s - 1] \in [Elements -> Int]
  <2>1. s - 1 \in 1 .. Len(concurrencies)
    BY <1>2, BinStep
  <2>2. concurrencies \in Seq([Elements -> Int])
    BY BinStep DEF Inv, ScriptInv, CurvesInv
  <2> QED BY <2>1, <2>2
<1> HIDE DEF Elements
<1>3. LessPredecessor(s, Demand(s)) \in [Elements -> Int]
  <2>1. CASE s = 1
    <3>1. LessPredecessor(s, Demand(s)) = Demand(s)
      BY <2>1 DEF LessPredecessor
    <3> QED BY <1>1, <3>1
  <2>2. CASE s # 1
    <3> DEFINE d == Demand(s)
               c == concurrencies[s - 1]
    <3>1. LessPredecessor(s, d) = [j \in DOMAIN d |-> d[j] - c[j]]
      BY <2>2 DEF LessPredecessor
    <3>2. d \in [Elements -> Nat] /\ c \in [Elements -> Int]
      BY <1>1, <1>2, <2>2
    <3> HIDE DEF d, c
    <3>3. [j \in DOMAIN d |-> d[j] - c[j]] \in [Elements -> Int]
      BY <3>2
    <3>4. LessPredecessor(s, d) \in [Elements -> Int]
      BY <3>1, <3>3
    <3> QED BY <3>4 DEF d
  <2> QED BY <2>1, <2>2
<1> QED BY <1>1, <1>3


\* A sequence with an element more.
LEMMA OneMore ==
    ASSUME NEW T, NEW q \in Seq(T), NEW x \in T, NEW n \in Nat, Len(q) = n - 1
    PROVE  /\ Append(q, x) \in Seq(T) /\ Len(Append(q, x)) = n
           /\ DOMAIN Append(q, x) = 1 .. n
           /\ \A t \in 1 .. n : t # n => Append(q, x)[t] = q[t] /\ t \in DOMAIN q
           /\ n >= 1 => Append(q, x)[n] = x
OBVIOUS

\* An index that does not exist is a stray's.
LEMMA BinFailsKeepsInv ==
    ASSUME Inv, NEW s \in Service, BinFails(s)
    PROVE  Inv'
<1>1. /\ spc = "bin" /\ spc' = "exception" /\ UNCHANGED counted /\ service' = service
      /\ UNCHANGED <<orderLog, btime, etime>> /\ ~IndicesExist(s) /\ Measured
  BY DEF BinFails, logs, origin, counted, Measured
<1>2. OriginInv' /\ CurvesInv'
  BY <1>1, OriginStays, CurvesStay DEF Inv, ScriptInv, Measured
<1>3. PICK o \in Orders : orderLog[o].ends[s] \notin Reach
  BY <1>1, IndicesFit DEF Inv, ScriptInv
<1>4. OnlyStraysFail'
  BY <1>1, <1>3 DEF OnlyStraysFail, Reach, Orders
<1> QED BY <1>1, <1>2, <1>4, CountsStay DEF Inv, ScriptInv

LEMMA BinKeepsScript ==
    ASSUME Inv, NEW s \in Service, BinOrders(s)
    PROVE  ScriptInv' /\ OnlyStraysFail'
<1>1. LogInv'
  BY BinStep DEF Inv, ScriptInv, LogInv, OrderLine
<1>2. OriginInv'
  <2>1. Orders' = Orders
    BY BinStep DEF Orders
  <2> QED BY <2>1, BinStep DEF Inv, ScriptInv, OriginInv, Size, Ceil, agap
<1>3. CurvesInv'
  <2> DEFINE inputs == [0 .. size + agap - 1 -> Nat]
             rates == [0 .. size + Gap - 1 -> Nat]
             started(b) == Cardinality({o \in Started : InputPeriod(o) = b})
             ended(b) == Cardinality({o \in Orders : OutputIndex(s, o) = b})
             rate == [b \in 0 .. size + Gap - 1 |-> ended(b)]
             demand == LessPredecessor(s, Demand(s))
  <2>1. /\ input_rate \in inputs /\ order_rate \in Seq(rates)
        /\ concurrencies \in Seq([Elements -> Int])
    BY BinStep DEF Inv, ScriptInv, CurvesInv
  <2>2. /\ input_rate' = [b \in DOMAIN input_rate |-> input_rate[b] + started(b)]
        /\ order_rate' = Append(order_rate, rate)
        /\ concurrencies' = Append(concurrencies, demand)
    BY DEF BinOrders
  <2>3. ASSUME NEW b PROVE started(b) \in Nat /\ ended(b) \in Nat
    <3>1. /\ {o \in Started : InputPeriod(o) = b} \in SUBSET Orders
          /\ {o \in Orders : OutputIndex(s, o) = b} \in SUBSET Orders
      BY DEF Started
    <3> QED BY <3>1, CountsAreNumbers DEF Inv, ScriptInv
  <2>4. demand \in [Elements -> Int]
    BY DemandType
  <2> HIDE DEF started, ended, demand
  <2>5. rate \in rates
    BY <2>3
  <2>6. input_rate' \in inputs
    BY <2>1, <2>2, <2>3
  <2> HIDE DEF rate, rates, inputs
  <2>7. /\ order_rate' \in Seq(rates) /\ Len(order_rate') = s
        /\ concurrencies' \in Seq([Elements -> Int]) /\ Len(concurrencies') = s
    BY <2>1, <2>2, <2>4, <2>5, BinStep, OneMore
  <2>8. size' = size /\ Elements' = Elements
    BY BinStep DEF Elements
  <2>9. spc' = "bin" => service' \in Service /\ Len(order_rate') = service' - 1
    BY <2>7, BinStep
  <2> QED BY <2>6, <2>7, <2>8, <2>9 DEF CurvesInv, inputs, rates, agap
<1>4. OnlyStraysFail'
  BY BinStep DEF OnlyStraysFail
<1> QED BY <1>1, <1>2, <1>3, <1>4 DEF ScriptInv


LEMMA BinKeepsRates ==
    ASSUME Inv, NEW s \in Service, BinOrders(s)
    PROVE  RatesCountOrders'
<1> DEFINE B == DOMAIN input_rate
           closedIn(t, b) == {o \in Orders : orderLog[o].ends[t] \in Period(b)}
           openedIn(b) == {o \in Orders : orderLog[o].placed \in Period(b) \ {btime}}
           startedIn(b) == {o \in Started : InputPeriod(o) = b}
           rate == [b \in 0 .. size + Gap - 1 |->
                       Cardinality({o \in Orders : OutputIndex(s, o) = b})]
<1>1. /\ input_rate' = [b \in B |-> input_rate[b] + Cardinality(startedIn(b))]
      /\ order_rate' = Append(order_rate, rate)
  BY DEF BinOrders
<1>2. /\ B = 0 .. size + agap - 1 /\ size \in Nat
      /\ order_rate \in Seq([0 .. size + Gap - 1 -> Nat])
  <2>1. etime - btime \in Nat
    <3>1. 1 \in Orders
      BY BinStep, OrdersAreFinite DEF Inv, ScriptInv, OriginInv, LogInv
    <3> QED BY <3>1, BinStep, WithinTheSpan DEF Inv, ScriptInv
  <2>2. size \in Nat
    BY <2>1, BinStep, SizeOfTheSpan DEF Inv, ScriptInv, OriginInv
  <2> QED BY <2>2, BinStep DEF Inv, ScriptInv, CurvesInv
<1>3. ASSUME NEW b \in B
      PROVE  b \in Int /\ b \in 0 .. size + Gap - 1
  BY <1>2, Gaps
<1>4. btime \in Nat /\ \A o \in Orders : btime <= orderLog[o].placed
  BY BinStep DEF Inv, ScriptInv, OriginInv
<1>5. ASSUME NEW o \in Orders, NEW b \in B
      PROVE  /\ Since(s) => (OutputIndex(s, o) = b <=> orderLog[o].ends[s] \in Period(b))
             /\ InputPeriod(o) = b <=> orderLog[o].placed \in Period(b)
             /\ o \in Started <=> orderLog[o].placed # btime
  <2>1. orderLog[o].ends[s] \in Int /\ orderLog[o].placed \in Int
    BY LinesHaveTypes DEF Inv, ScriptInv
  <2>2. InputPeriod(o) = b <=> orderLog[o].placed \in Period(b)
    BY <1>3, <1>4, <2>1, IndexOfPeriod DEF InputPeriod, starttime
  <2>a. ASSUME Since(s) PROVE OutputIndex(s, o) = b <=> orderLog[o].ends[s] \in Period(b)
    <3>1. endtime(s, o) \in Nat
      BY <1>4, <2>1, <2>a DEF Since, endtime
    <3>2. ASSUME NEW t \in Nat PROVE ~(t < 0) /\ t \div Resolution \in Nat
      BY TicksAssumption
    <3>3. OutputPeriod(s, o) = endtime(s, o) \div Resolution + agap
      BY <3>1, <3>2 DEF OutputPeriod, Truncated
    <3>4. ASSUME NEW q \in Nat PROVE ~(q + agap < 0)
      BY Gaps
    <3>5. OutputIndex(s, o) = endtime(s, o) \div Resolution + agap
      BY <3>1, <3>2, <3>3, <3>4 DEF OutputIndex
    <3> QED BY <1>3, <1>4, <2>1, <3>5, IndexOfPeriod DEF endtime
  <2>3. o \in Started <=> orderLog[o].placed # btime
    BY <1>4, <2>1 DEF Started, starttime
  <2> QED BY <2>2, <2>3, <2>a
<1>6. ASSUME NEW b \in B
      PROVE  /\ Since(s) => {o \in Orders : OutputIndex(s, o) = b} = closedIn(s, b)
             /\ startedIn(b) = openedIn(b)
  BY <1>5 DEF Started
<1>7. Orders' = Orders /\ orderLog' = orderLog /\ btime' = btime /\ DOMAIN input_rate' = B
  BY <1>1, BinStep DEF Orders
<1>8. ASSUME NEW b PROVE Period(b)' = Period(b)
  BY <1>7 DEF Period, agap
<1> HIDE DEF startedIn
<1>9. rate \in [0 .. size + Gap - 1 -> Nat]
  <2>1. ASSUME NEW b PROVE Cardinality({o \in Orders : OutputIndex(s, o) = b}) \in Nat
    BY CountsAreNumbers DEF Inv, ScriptInv
  <2> QED BY <2>1
<1>10. ASSUME NEW b \in B, Since(s) PROVE rate[b] = Cardinality(closedIn(s, b))
  BY <1>3, <1>6, <1>10
<1> HIDE DEF B, rate
<1>11. ASSUME NEW t \in DOMAIN order_rate', NEW b \in B, Since(t)
       PROVE  order_rate'[t][b] = Cardinality(closedIn(t, b))
  <2>1. /\ DOMAIN order_rate' = 1 .. s
        /\ t # s => order_rate'[t] = order_rate[t] /\ t \in DOMAIN order_rate
        /\ order_rate'[s] = rate
    <3> DEFINE T == [0 .. size + Gap - 1 -> Nat]
    <3>1. /\ order_rate \in Seq(T) /\ rate \in T
          /\ s \in Nat /\ s >= 1 /\ Len(order_rate) = s - 1
      BY <1>2, <1>9, BinStep
    <3> HIDE DEF T
    <3>2. /\ DOMAIN Append(order_rate, rate) = 1 .. s
          /\ \A k \in 1 .. s : k # s => /\ Append(order_rate, rate)[k] = order_rate[k]
                                        /\ k \in DOMAIN order_rate
          /\ Append(order_rate, rate)[s] = rate
      BY <3>1, OneMore
    <3>3. DOMAIN order_rate' = 1 .. s
      BY <1>1, <3>2
    <3>4. t \in 1 .. s
      BY <1>11, <3>3
    <3> QED BY <1>1, <3>2, <3>3, <3>4
  <2>2. CASE t = s
    BY <1>10, <1>11, <2>1, <2>2
  <2>3. CASE t # s
    BY <1>11, <2>1, <2>3 DEF Inv, RatesCountOrders, B
  <2> QED BY <2>2, <2>3
<1>12. ASSUME NEW b \in B
       PROVE  input_rate'[b] = Len(order_rate') * Cardinality(openedIn(b))
  <2>1. Len(order_rate') = s
    BY <1>1, <1>2, <1>9, BinStep, OneMore
  <2>2. input_rate[b] = (s - 1) * Cardinality(openedIn(b))
    BY BinStep DEF Inv, RatesCountOrders, B
  <2>3. input_rate'[b] = input_rate[b] + Cardinality(openedIn(b))
    BY <1>1, <1>6
  <2>4. Cardinality(openedIn(b)) \in Nat
    BY CountsAreNumbers DEF Inv, ScriptInv
  <2>5. ASSUME NEW c \in Nat PROVE (s - 1) * c + c = s * c
    BY BinStep
  <2> QED BY <2>1, <2>2, <2>3, <2>4, <2>5
<1>13. ASSUME NEW t PROVE Since(t)' <=> Since(t)
  BY <1>7 DEF Since
<1> QED BY <1>7, <1>8, <1>11, <1>12, <1>13 DEF RatesCountOrders


\* The orders on their way in the first service, and in the first two together.
OnTheWay(s, j) == {o \in Started : j \in Seconds(s, o)}

\* There is no second from a start on to an end that is not after the first moment.
LEMMA NoSeconds ==
    ASSUME NEW j \in Int, NEW g \in Nat,
           NEW x \in Nat, NEW y \in Int, y <= 0, NEW z \in Int, z <= 0
    PROVE  j \in x + g .. z - 1 + g <=> x <= j - g /\ j - g < y
<1>1. ~(j \in x + g .. z - 1 + g)
  OBVIOUS
<1>2. ~(x <= j - g /\ j - g < y)
  OBVIOUS
<1> QED BY <1>1, <1>2

LEMMA OnTheWayFromTheStart ==
    ASSUME LogInv, OriginInv, Measured, NEW s \in Service, NEW j \in Int
    PROVE  OnTheWay(s, j) = {o \in Started : /\ starttime(o) \div Second <= j - Gap
                                             /\ j - Gap < endtime(s, o) \div Second}
<1>1. ASSUME NEW o \in Started
      PROVE  j \in Seconds(s, o) <=> /\ starttime(o) \div Second <= j - Gap
                                     /\ j - Gap < endtime(s, o) \div Second
  <2>1. o \in Orders
    BY DEF Started
  <2>2. /\ starttime(o) \in Nat /\ endtime(s, o) \in Int
        /\ starttime(o) \div Second \in Nat /\ endtime(s, o) \div Second \in Int
    <3>1. ASSUME NEW t \in Nat PROVE t \div Second \in Nat
      BY TicksAssumption
    <3> QED BY <2>1, <3>1, WithinTheSpan, Division, TicksAssumption
  <2>3. CASE endtime(s, o) >= 0
    <3>1. Truncated(endtime(s, o), Second) = endtime(s, o) \div Second
      <4>1. ~(endtime(s, o) < 0)
        BY <2>2, <2>3
      <4> QED BY <4>1 DEF Truncated
    <3>2. SUFFICES ASSUME NEW x \in Int, x = starttime(o) \div Second,
                          NEW y \in Int, y = endtime(s, o) \div Second
                   PROVE  j \in x + Gap .. y - 1 + Gap <=> x <= j - Gap /\ j - Gap < y
      BY <2>2, <3>1 DEF Seconds
    <3> QED BY Gaps
  <2>4. CASE endtime(s, o) < 0
    <3> DEFINE n == -endtime(s, o)
    <3>1. n \in Nat /\ endtime(s, o) = -n
      BY <2>2, <2>4
    <3>2. Truncated(endtime(s, o), Second) \in Int /\ Truncated(endtime(s, o), Second) <= 0
      <4>1. -(Second * n) <= endtime(s, o) /\ endtime(s, o) <= Second * n
        <5>1. n <= Second * n /\ Second * n \in Nat
          <6> HIDE DEF n
          <6> QED BY <3>1, TicksAssumption
        <5> HIDE DEF n
        <5> QED BY <3>1, <5>1
      <4> HIDE DEF n
      <4>2. Truncated(endtime(s, o), Second) \in -n .. n /\ Truncated(endtime(s, o), Second) <= 0
        BY <2>2, <2>4, <3>1, <4>1, TruncatedWithin, TicksAssumption
      <4> QED BY <3>1, <4>2
    <3>3. endtime(s, o) \div Second <= 0
      <4>1. ASSUME NEW q \in Int, Second * q <= endtime(s, o) PROVE q <= 0
        <5>1. ASSUME q >= 1 PROVE FALSE
          <6>1. Second * 1 <= Second * q
            BY <5>1, TicksAssumption
          <6> QED BY <2>2, <2>4, <4>1, <6>1, TicksAssumption
        <5> QED BY <5>1
      <4> QED BY <2>2, <4>1, Division, TicksAssumption
    <3>4. \A x \in Nat, y \in Int, z \in Int : y <= 0 /\ z <= 0 =>
            (j \in x + Gap .. z - 1 + Gap <=> x <= j - Gap /\ j - Gap < y)
      <4>1. Gap \in Nat
        BY Gaps
      <4>2. \A g \in Nat, x \in Nat, y \in Int, z \in Int : y <= 0 /\ z <= 0 =>
              (j \in x + g .. z - 1 + g <=> x <= j - g /\ j - g < y)
        BY ONLY NoSeconds, j \in Int, Zenon
      <4> QED BY <4>1, <4>2, Zenon
    <3> QED BY <2>2, <3>2, <3>3, <3>4, Zenon DEF Seconds
  <2> QED BY <2>2, <2>3, <2>4
<1> QED BY <1>1 DEF OnTheWay

LEMMA BinKeepsDemands ==
    ASSUME Inv, NEW s \in Service, BinOrders(s)
    PROVE  FirstDemands'
<1> DEFINE demand == LessPredecessor(s, Demand(s))
<1>1. concurrencies' = Append(concurrencies, demand)
  BY DEF BinOrders
<1>2. LogInv /\ OriginInv /\ Measured /\ concurrencies \in Seq([Elements -> Int])
  BY BinStep DEF Inv, ScriptInv, CurvesInv
<1>3. demand \in [Elements -> Int]
  BY DemandType
<1>4. /\ DOMAIN concurrencies' = 1 .. s /\ concurrencies'[s] = demand
      /\ \A t \in 1 .. s : t # s => /\ concurrencies'[t] = concurrencies[t]
                                    /\ t \in DOMAIN concurrencies
  <2> DEFINE T == [Elements -> Int]
  <2>1. /\ concurrencies \in Seq(T) /\ demand \in T
        /\ s \in Nat /\ s >= 1 /\ Len(concurrencies) = s - 1
    BY <1>2, <1>3, BinStep
  <2> HIDE DEF T, demand
  <2> QED BY <1>1, <2>1, OneMore
<1>5. ASSUME NEW t, NEW i PROVE InService(t, i)' = InService(t, i)
  <2>1. ASSUME NEW o
        PROVE  Begins(t, o)' = Begins(t, o) /\ endtime(t, o)' = endtime(t, o)
    BY BinStep DEF Begins, starttime, endtime
  <2>2. Started' = Started
    BY BinStep DEF Started, Orders, starttime
  <2> QED BY <2>1, <2>2 DEF InService
<1>a. ASSUME NEW t PROVE InChain(t)' <=> InChain(t)
  BY BinStep DEF InChain, Orders
<1>6. ASSUME NEW j \in Elements, s <= 2, InChain(s)
      PROVE  demand[j] = Cardinality(InService(s, j - Gap))
  <2>1. j \in Int
    BY <1>6 DEF Elements
  <2>2. Demand(s)[j] = Cardinality(OnTheWay(s, j)) /\ DOMAIN Demand(s) = Elements
    BY DEF Demand, OnTheWay, Elements
  <2>3. CASE s = 1
    <3>1. OnTheWay(s, j) = InService(s, j - Gap)
      BY <1>2, <2>1, <2>3, OnTheWayFromTheStart DEF InService, Begins
    <3> QED BY <2>2, <2>3, <3>1 DEF LessPredecessor
  <2>4. CASE s = 2
    <3> DEFINE both == OnTheWay(2, j)
               first == OnTheWay(1, j)
    <3>1. 1 \in Service /\ 2 \in Service /\ 1 \in DOMAIN concurrencies
      BY <2>4, BinStep, <1>2, ServicesAssumption DEF Service
    <3>2. DOMAIN concurrencies[1] = Elements
      BY <1>2, <3>1
    <3>3. first = InService(1, j - Gap)
      BY <1>2, <2>1, <3>1, OnTheWayFromTheStart DEF InService, Begins
    <3>4. concurrencies[1][j] = Cardinality(first)
      BY <1>6, <3>1, <3>2, <3>3 DEF Inv, FirstDemands, DemandIsInService, InChain
    <3>5. demand[j] = Cardinality(both) - Cardinality(first)
      BY <1>6, <2>2, <2>4, <3>4 DEF LessPredecessor
    <3>6. ASSUME NEW o \in Started
          PROVE  /\ endtime(1, o) \div Second <= endtime(2, o) \div Second
                 /\ starttime(o) \in Int /\ endtime(1, o) \in Int
                 /\ starttime(o) \div Second \in Int
                 /\ endtime(1, o) \div Second \in Int /\ endtime(2, o) \div Second \in Int
      <4>1. o \in Orders
        BY DEF Started
      <4>2. starttime(o) \in Int /\ endtime(1, o) \in Int /\ endtime(2, o) \in Int
        BY <1>2, <3>1, <4>1, WithinTheSpan
      <4>3. endtime(1, o) <= endtime(2, o)
        <5>1. /\ orderLog[o].ends[2 - 1] <= orderLog[o].ends[2]
              /\ orderLog[o].ends[1] \in Nat /\ orderLog[o].ends[2] \in Nat
          BY <1>2, <1>6, <2>4, <3>1, <4>1, LinesHaveTypes DEF InChain
        <5>2. btime \in Nat
          BY <1>2 DEF OriginInv
        <5> QED BY <5>1, <5>2 DEF endtime
      <4> QED BY <4>2, <4>3, QuotientGrows, Division, TicksAssumption
    <3>7. InService(2, j - Gap) = both \ first /\ first \subseteq both
      <4>1. j - Gap \in Int
        BY <2>1, Gaps
      <4>2. /\ both = {o \in Started : /\ starttime(o) \div Second <= j - Gap
                                       /\ j - Gap < endtime(2, o) \div Second}
            /\ first = {o \in Started : /\ starttime(o) \div Second <= j - Gap
                                        /\ j - Gap < endtime(1, o) \div Second}
        BY <1>2, <2>1, <3>1, OnTheWayFromTheStart
      <4>3. InService(2, j - Gap) = {o \in Started : /\ starttime(o) \div Second <= j - Gap
                                                     /\ endtime(1, o) \div Second <= j - Gap
                                                     /\ j - Gap < endtime(2, o) \div Second}
        <5>1. ASSUME NEW o \in Started
              PROVE  Begins(2, o) \div Second <= j - Gap
                     <=> /\ starttime(o) \div Second <= j - Gap
                         /\ endtime(1, o) \div Second <= j - Gap
          <6>1. Begins(2, o) = Max({starttime(o), endtime(1, o)})
            BY DEF Begins
          <6> QED BY <3>6, <4>1, <6>1, LaterOfTwo, TicksAssumption
        <5> QED BY <5>1 DEF InService
      <4>4. ASSUME NEW x \in Int, NEW y \in Int, NEW z \in Int, NEW i \in Int,
                   y <= z
            PROVE  /\ x <= i /\ y <= i /\ i < z <=> (x <= i /\ i < z) /\ ~(x <= i /\ i < y)
                   /\ x <= i /\ i < y => x <= i /\ i < z
        BY <4>4
      <4> HIDE DEF both, first
      <4>5. ASSUME NEW o \in Started
            PROVE  /\ o \in InService(2, j - Gap) <=> o \in both /\ o \notin first
                   /\ o \in first => o \in both
        <5> DEFINE x == starttime(o) \div Second
                   y == endtime(1, o) \div Second
                   z == endtime(2, o) \div Second
                   i == j - Gap
        <5>1. /\ o \in InService(2, j - Gap) <=> x <= i /\ y <= i /\ i < z
              /\ o \in both <=> x <= i /\ i < z
              /\ o \in first <=> x <= i /\ i < y
          BY <4>2, <4>3
        <5>2. x \in Int /\ y \in Int /\ z \in Int /\ i \in Int /\ y <= z
          BY <3>6, <4>1
        <5> HIDE DEF x, y, z, i
        <5> QED BY <4>4, <5>1, <5>2
      <4>6. /\ both \subseteq Started /\ first \subseteq Started
            /\ InService(2, j - Gap) \subseteq Started
        BY <4>2, <4>3
      <4> QED BY <4>5, <4>6
    <3>8. IsFiniteSet(both) /\ both \cap first = first
      <4>1. both \in SUBSET Orders
        BY DEF OnTheWay, Started
      <4> QED BY <1>2, <3>7, <4>1, CountsAreNumbers
    <3>9. Cardinality(both \ first) = Cardinality(both) - Cardinality(first)
      BY <3>8, FS_Difference
    <3> QED BY <2>4, <3>5, <3>7, <3>9
  <2>5. s \in Nat /\ 1 <= s
    BY BinStep
  <2> QED BY <1>6, <2>3, <2>4, <2>5
<1> HIDE DEF demand
<1>7. ASSUME NEW t \in DOMAIN concurrencies', t <= 2, InChain(t), NEW j \in DOMAIN concurrencies'[t]
      PROVE  concurrencies'[t][j] = Cardinality(InService(t, j - Gap))
  <2>1. t \in 1 .. s
    BY <1>4, <1>7
  <2>2. CASE t = s
    BY <1>3, <1>4, <1>6, <1>7, <2>2
  <2>3. CASE t # s
    BY <1>4, <1>7, <2>1, <2>3 DEF Inv, FirstDemands, DemandIsInService
  <2> QED BY <2>2, <2>3
<1> QED BY <1>5, <1>7, <1>a DEF FirstDemands, DemandIsInService

--------------------------------------------------------------------------------
(* The pods.                                                               *)

\* Lines whose times are numbers.
Timed(lines) == \E T : lines \in Seq(T) /\ \A l \in T : l.time \in Nat

TimesInv == clock \in Nat /\ Timed(log) /\ Timed(scaleLog)

\* The seconds with a line, up to one, and the pods shown in it.
Known(s, i) == {k \in 0 .. i : LinesAt(s, k) # {}}
PodsOf(written, lines) == MapThenSumSet(LAMBDA l : written[l].pods, lines)
Shown(s, i) == IF Known(s, i) = {} THEN NoPods ELSE Average(LinesAt(s, Max(Known(s, i))))

\* No line falls into the gap's first second.
LEMMA NothingAtZero ==
    ASSUME Timed(scaleLog), btime \in Nat, NEW s
    PROVE  LinesAt(s, 0) = {}
<1> SUFFICES ASSUME NEW l \in LinesAt(s, 0) PROVE FALSE
  OBVIOUS
<1>1. l \in DOMAIN scaleLog /\ InTime(l) /\ (scaleLog[l].time - btime) \div Second + Gap = 0
  BY DEF LinesAt, Lines
<1>2. scaleLog[l].time \in Nat
  BY <1>1 DEF Timed
<1>3. scaleLog[l].time - btime \in Nat
  BY <1>1, <1>2, Difference, Zenon DEF InTime
<1>4. ASSUME NEW t \in Nat PROVE t \div Second \in Nat
  BY TicksAssumption
<1>5. (scaleLog[l].time - btime) \div Second \in Nat
  BY <1>3, <1>4, Zenon
<1>6. ASSUME NEW q \in Nat, q + Gap = 0 PROVE FALSE
  BY <1>6, Gaps
<1> QED BY <1>1, <1>5, <1>6, Zenon

\* What is shown changes in the seconds with a line, and only in them.
LEMMA ShownIsCarried ==
    ASSUME Timed(scaleLog), btime \in Nat, NEW s, NEW i \in Nat
    PROVE  Shown(s, i) = IF i = 0 THEN NoPods
                         ELSE IF LinesAt(s, i) # {} THEN Average(LinesAt(s, i))
                         ELSE Shown(s, i - 1)
<1>1. CASE i = 0
  <2>1. Known(s, 0) = {}
    BY NothingAtZero DEF Known
  <2> QED BY <1>1, <2>1 DEF Shown
<1>2. CASE i # 0 /\ LinesAt(s, i) # {}
  <2>1. i \in Known(s, i) /\ Known(s, i) \subseteq 0 .. i
    BY <1>2 DEF Known
  <2>2. IsFiniteSet(Known(s, i)) /\ Known(s, i) \subseteq Nat
    <3>1. IsFiniteSet(0 .. i)
      BY FS_Interval
    <3> QED BY <2>1, <3>1, FS_Subset
  <2>3. Max(Known(s, i)) \in Known(s, i) /\ \A k \in Known(s, i) : k <= Max(Known(s, i))
    BY <2>1, <2>2, MaxExists
  <2>4. SUFFICES ASSUME NEW m, m = Max(Known(s, i)) PROVE m = i
    BY <1>2, <2>1 DEF Shown
  <2>5. m \in 0 .. i /\ i <= m
    BY <2>1, <2>3, <2>4
  <2> QED BY <2>5
<1>3. CASE i # 0 /\ LinesAt(s, i) = {}
  <2>1. Known(s, i) = Known(s, i - 1)
    <3>1. ASSUME NEW k PROVE k \in 0 .. i <=> k = i \/ k \in 0 .. i - 1
      BY <1>3
    <3> QED BY <1>3, <3>1 DEF Known
  <2> QED BY <1>3, <2>1 DEF Shown
<1> QED BY <1>1, <1>2, <1>3

\* The array the script fills, second after second.
LEMMA CarriedIsShown ==
    ASSUME Timed(scaleLog), btime \in Nat, etime - btime \in Nat, NEW s
    PROVE  \A i \in 0 .. ScaleSize + Gap - 1 : Carried(s)[i] = Shown(s, i)
<1> DEFINE D == 0 .. ScaleSize + Gap - 1
           Next1(f, i) == IF i = 0 THEN NoPods
                          ELSE IF LinesAt(s, i) # {} THEN Average(LinesAt(s, i)) ELSE f[i - 1]
           g == [i \in D |-> Shown(s, i)]
           c == Carried(s)
<1>1. c = CHOOSE f : f = [i \in D |-> Next1(f, i)]
  BY DEF Carried
<1>2. ASSUME NEW i \in D PROVE i \in Nat /\ (i # 0 => i - 1 \in D)
  <2>1. ScaleSize \in Nat
    BY RoundedUp, Gaps, TicksAssumption DEF ScaleSize
  <2> QED BY <2>1, Gaps
<1> HIDE DEF D
<1>3. g = [i \in D |-> Next1(g, i)]
  <2>1. ASSUME NEW i \in D PROVE Shown(s, i) = Next1(g, i)
    BY <1>2, ShownIsCarried
  <2> QED BY <2>1
<1> HIDE DEF g
<1>4. c = [i \in D |-> Next1(c, i)]
  <2> HIDE DEF c, Next1
  <2> QED BY <1>1, <1>3
<1> HIDE DEF c
<1>5. ASSUME NEW i \in D, c[i] # Shown(s, i) PROVE FALSE
  <2> DEFINE Wrong == {k \in D : c[k] # Shown(s, k)}
             m == Min(Wrong)
  <2>1. Wrong \subseteq Nat /\ Wrong # {}
    BY <1>2, <1>5
  <2>2. m \in Wrong /\ \A k \in Wrong : m <= k
    <3> HIDE DEF Wrong
    <3> QED BY <2>1, MinExists
  <2>3. m \in D /\ m \in Nat /\ c[m] # Shown(s, m) /\ c[m] = Next1(c, m)
    BY <1>2, <1>4, <2>2
  <2> HIDE DEF m
  <2>4. m # 0 => m - 1 \in D /\ c[m - 1] = Shown(s, m - 1)
    BY <1>2, <2>2, <2>3
  <2> QED BY <2>3, <2>4, ShownIsCarried
<1> QED BY <1>5 DEF c, D

\* A log without lines.
LEMMA NoLineIsTimed == Timed(<<>>)
<1>1. SUFFICES ASSUME NEW e, e = <<>> PROVE Timed(e)
  OBVIOUS
<1>2. PICK T : T = {}
  OBVIOUS
<1>3. e \in Seq(T) /\ \A l \in T : l.time \in Nat
  BY <1>1, <1>2
<1> QED BY <1>3 DEF Timed

\* The observer's steps keep the times of its lines.
LEMMA TimesInit == Init => TimesInv
<1>1. Timed(<<>>)
  BY NoLineIsTimed
<1> QED BY <1>1 DEF Init, ObserverInit, InitScript, TimesInv

LEMMA TimesStep ==
    ASSUME TimesInv, [Next]_allVars
    PROVE  TimesInv'
<1>1. clock \in Nat /\ ResyncPeriod \in Nat
  BY ResyncAssumption DEF TimesInv
<1>2. Timed(<<>>)
  BY NoLineIsTimed
<1>3. Timed(Append(log, Line))
  <2>1. PICK T : log \in Seq(T) /\ \A l \in T : l.time \in Nat
    BY DEF TimesInv, Timed
  <2> DEFINE U == T \cup {Line}
  <2>2. log \in Seq(U) /\ Line \in U
    BY <2>1
  <2>3. Line.time \in Nat
    BY <1>1 DEF Line
  <2>4. Append(log, Line) \in Seq(U)
    <3> HIDE DEF U
    <3> QED BY <2>2
  <2>5. \A l \in U : l.time \in Nat
    BY <2>1, <2>3
  <2> HIDE DEF U
  <2> QED BY <2>4, <2>5 DEF Timed
<1>4. clock' = clock \/ clock' = clock + ResyncPeriod
  BY DEF Next, Observes, Handler, Cluster, Start, Handle, Tombstone, StoreRunning,
         StoreDesired, List, Tick, Resync, Change, Break, time, counts, allVars,
         observerVars
<1>5. log' = log \/ log' = <<>> \/ log' = Append(log, Line)
  BY DEF Next, Observes, Handler, Cluster, Start, Handle, Tombstone, StoreRunning,
         StoreDesired, List, Tick, Resync, Change, Break, time, counts, allVars,
         observerVars
<1>6. scaleLog' = scaleLog \/ scaleLog' = log
  BY DEF Next, CollectLogs, Collect, Script, NoOrders, Origin, BinOrders, BinFails,
         ReadClient, ReadScaling, vars, logs, allVars
<1>7. Timed(log') /\ Timed(scaleLog')
  BY <1>2, <1>3, <1>5, <1>6 DEF TimesInv
<1>8. clock' \in Nat
  BY <1>1, <1>4
<1> QED BY <1>7, <1>8 DEF TimesInv, Timed

LEMMA PodsStep ==
    ASSUME Inv, TimesInv, PodsAreTheLastKnown, [Next]_allVars
    PROVE  PodsAreTheLastKnown'
<1>1. \/ UNCHANGED vars
      \/ CollectLogs \/ NoOrders \/ Origin \/ (\E s \in Service : BinOrders(s) \/ BinFails(s))
      \/ ReadClient \/ ReadScaling
  BY DEF Next, Script, allVars
<1>2. ASSUME spc' = "plotted", UNCHANGED <<scaleLog, btime, etime>>,
             \A s \in Service, i \in 0 .. ScaleSize + Gap - 1 :
                 total_pods'[s][i] = Shown(s, i)
      PROVE  PodsAreTheLastKnown'
  <2>1. ASSUME NEW l PROVE InTime(l)' = InTime(l)
    BY <1>2 DEF InTime
  <2>2. ASSUME NEW s, NEW i
        PROVE  LinesAt(s, i)' = LinesAt(s, i)
    <3>1. Lines(s)' = Lines(s)
      BY <1>2, <2>1 DEF Lines
    <3> QED BY <1>2, <3>1 DEF LinesAt
  <2>3. ASSUME NEW s, NEW i PROVE Known(s, i)' = Known(s, i)
    BY <2>2 DEF Known
  <2>4. ASSUME NEW lines PROVE Average(lines)' = Average(lines)
    <3>1. Total(lines) = PodsOf(scaleLog, lines) /\ Total(lines)' = PodsOf(scaleLog', lines)
      BY DEF Total, PodsOf, MapThenSumSet, MapThenFoldSet
    <3> QED BY <1>2, <3>1 DEF Average
  <2>5. ScaleSize' = ScaleSize
    BY <1>2 DEF ScaleSize, Ceil
  <2> QED BY <1>2, <2>2, <2>3, <2>4, <2>5 DEF PodsAreTheLastKnown, Shown, Known
<1>3. CASE UNCHANGED vars
  BY <1>2, <1>3 DEF PodsAreTheLastKnown, vars, logs, origin, Shown, Known
<1>4. CASE ReadScaling
  <2>1. /\ spc = "scale" /\ spc' = "plotted" /\ UNCHANGED <<scaleLog, btime, etime>>
        /\ total_pods' = [s \in Service |-> Carried(s)]
    BY <1>4 DEF ReadScaling, logs, origin
  <2>2. btime \in Nat /\ etime - btime \in Nat
    <3>1. Measured /\ orderLog # <<>> /\ btime \in Nat
      BY <2>1 DEF Inv, ScriptInv, OriginInv, Measured
    <3>2. 1 \in Orders /\ 1 \in Service
      BY <3>1, OrdersAreFinite, ServicesAssumption DEF Inv, ScriptInv, LogInv, Service
    <3> QED BY <3>1, <3>2, WithinTheSpan DEF Inv, ScriptInv
  <2>3. \A s \in Service, i \in 0 .. ScaleSize + Gap - 1 : total_pods'[s][i] = Shown(s, i)
    BY <2>1, <2>2, CarriedIsShown DEF TimesInv
  <2> QED BY <1>2, <2>1, <2>3
<1>5. ASSUME spc' # "plotted" PROVE PodsAreTheLastKnown'
  BY <1>5 DEF PodsAreTheLastKnown
<1>6. CASE CollectLogs \/ NoOrders \/ Origin \/ ReadClient
  BY <1>5, <1>6 DEF CollectLogs, Collect, NoOrders, Origin, ReadClient
<1>7. CASE \E s \in Service : BinOrders(s) \/ BinFails(s)
  BY <1>5, <1>7 DEF BinOrders, BinFails
<1> QED BY <1>1, <1>3, <1>4, <1>6, <1>7

--------------------------------------------------------------------------------
(* The theorems.                                                           *)

LEMMA InvStep ==
    ASSUME Inv, [Next]_allVars
    PROVE  Inv'
<1>1. CASE Observes /\ UNCHANGED vars
  BY <1>1, StutterKeepsInv
<1>2. CASE CollectLogs
  BY <1>2, LogsKeepInv
<1>3. CASE Script
  <2>1. CASE Origin
    BY <2>1, OriginKeepsInv
  <2>2. CASE \E s \in Service : BinOrders(s)
    <3>1. PICK s \in Service : BinOrders(s)
      BY <2>2
    <3> QED BY <3>1, BinKeepsScript, BinKeepsRates, BinKeepsDemands DEF Inv
  <2>3. CASE \E s \in Service : BinFails(s)
    BY <2>3, BinFailsKeepsInv
  <2> QED BY <1>3, <2>1, <2>2, <2>3, LogsKeepInv DEF Script
<1>4. CASE UNCHANGED allVars
  BY <1>4, StutterKeepsInv DEF allVars
<1> QED BY <1>1, <1>2, <1>3, <1>4 DEF Next

\* The invariant of the script and its curves holds whatever the observer does.
THEOREM InvHolds == Spec => []Inv
<1>1. Init => Inv
  BY InvInit
<1>2. Inv /\ [Next]_allVars => Inv'
  BY InvStep
<1> QED BY <1>1, <1>2, PTL DEF Spec

\* Only an empty log, or a stamp far from the others, ends the script with an exception.
THEOREM LogsArePlotted == Spec => []OnlyStraysFail
BY InvHolds, PTL DEF Inv

\* The rates count each order where it belongs, in any log: the output rate of a service if
\* no stamp of its is older than all starts and all ends in the last service.
THEOREM RatesAreRight == Spec => []RatesCountOrders
BY InvHolds, PTL DEF Inv

\* The demand of the first service is the number of orders it has in service, in any log, and
\* that of the second if no order's stamps of the two are the wrong way round.
THEOREM FirstDemandsAreRight == Spec => []FirstDemands
BY InvHolds, PTL DEF Inv

\* Each second of the plot shows the pods last known in it.
THEOREM PodsAreRight == Spec => []PodsAreTheLastKnown
<1>1. Init => TimesInv /\ PodsAreTheLastKnown
  BY TimesInit DEF Init, InitScript, PodsAreTheLastKnown
<1>2. Inv /\ TimesInv /\ PodsAreTheLastKnown /\ [Next]_allVars
        => TimesInv' /\ PodsAreTheLastKnown'
  BY TimesStep, PodsStep
<1> QED BY <1>1, <1>2, InvHolds, PTL DEF Spec

--------------------------------------------------------------------------------
(* The sum of a function over a finite set.                                *)

\* Among some subsets of a finite set there is one that contains no other.
LEMMA SmallestExists ==
    ASSUME NEW S, IsFiniteSet(S), NEW T, T \subseteq SUBSET S, T # {}
    PROVE  \E U \in T : \A V \in T : V \subseteq U => V = U
<1>1. T \subseteq FiniteSubsetsOf(S)
  BY FS_Subset DEF FiniteSubsetsOf
<1>2. PICK U \in T : \A V \in T : ~(<<V, U>> \in StrictSubsetOrdering(S))
  <2>1. IsWellFoundedOn(StrictSubsetOrdering(S), FiniteSubsetsOf(S))
    BY FS_StrictSubsetOrderingWellFounded
  <2> QED BY <1>1, <2>1, WFMin
<1>3. ASSUME NEW V \in T, V \subseteq U, V # U PROVE FALSE
  <2>1. <<V, U>> \in StrictSubsetOrdering(S)
    BY <1>3 DEF StrictSubsetOrdering
  <2> QED BY <1>2, <2>1
<1> QED BY <1>2, <1>3

\* What MapThenSumSet computes: f sums the numbers g of the elements of each subset.
Some(s) == CHOOSE x \in s : TRUE
Rest(s) == s \ {Some(s)}
Sums(f, g, S) == f = [s \in SUBSET S |-> IF s = {} THEN 0 ELSE g[Some(s)] + f[Rest(s)]]
SumOver(g, S) == (CHOOSE f : Sums(f, g, S))[S]

LEMMA SomeIsIn ==
    ASSUME NEW s, s # {}
    PROVE  Some(s) \in s /\ Rest(s) \subseteq s /\ Rest(s) # s
BY DEF Some, Rest

\* There is one sum.
LEMMA SumsAgree ==
    ASSUME NEW g, NEW S, IsFiniteSet(S), NEW U, NEW f, NEW h, Sums(f, g, S), Sums(h, g, U),
           NEW s, s \subseteq S, s \subseteq U
    PROVE  f[s] = h[s]
<1> DEFINE Wrong == {u \in SUBSET S : u \subseteq U /\ f[u] # h[u]}
<1>1. ASSUME Wrong # {} PROVE FALSE
  <2>1. PICK u \in Wrong : \A v \in Wrong : v \subseteq u => v = u
    <3>1. Wrong \subseteq SUBSET S
      OBVIOUS
    <3> HIDE DEF Wrong
    <3> QED BY <1>1, <3>1, SmallestExists
  <2>2. u \subseteq S /\ u \subseteq U /\ f[u] # h[u]
    OBVIOUS
  <2>3. f[u] = (IF u = {} THEN 0 ELSE g[Some(u)] + f[Rest(u)])
    BY <2>2 DEF Sums
  <2>4. h[u] = (IF u = {} THEN 0 ELSE g[Some(u)] + h[Rest(u)])
    BY <2>2 DEF Sums
  <2>5. u # {}
    BY <2>2, <2>3, <2>4
  <2>6. Rest(u) \subseteq u /\ Rest(u) # u
    BY <2>5, SomeIsIn
  <2>7. Rest(u) \notin Wrong
    BY <2>1, <2>6
  <2>8. f[Rest(u)] = h[Rest(u)]
    BY <2>2, <2>6, <2>7
  <2> QED BY <2>2, <2>3, <2>4, <2>8
<1> QED BY <1>1

LEMMA SumExists ==
    ASSUME NEW g, NEW S, IsFiniteSet(S)
    PROVE  Sums(CHOOSE f : Sums(f, g, S), g, S)
<1> DEFINE Without == {U \in SUBSET S : ~\E f : Sums(f, g, U)}
<1>1. ASSUME Without # {} PROVE FALSE
  <2>1. PICK U \in Without : \A V \in Without : V \subseteq U => V = U
    <3>1. Without \subseteq SUBSET S
      OBVIOUS
    <3> HIDE DEF Without
    <3> QED BY <1>1, <3>1, SmallestExists
  <2>2. U \subseteq S /\ ~\E f : Sums(f, g, U)
    OBVIOUS
  <2>3. ASSUME NEW s, s \subseteq U, s # U PROVE \E f : Sums(f, g, s)
    BY <2>1, <2>2, <2>3
  <2>4. ASSUME NEW s, s \subseteq U, s # U
        PROVE  SumOver(g, s) = (IF s = {} THEN 0 ELSE g[Some(s)] + SumOver(g, Rest(s)))
    <3> DEFINE f == CHOOSE f : Sums(f, g, s)
               h == CHOOSE h : Sums(h, g, Rest(s))
    <3>1. Sums(f, g, s) /\ SumOver(g, s) = f[s]
      BY <2>3, <2>4 DEF SumOver
    <3>2. f[s] = IF s = {} THEN 0 ELSE g[Some(s)] + f[Rest(s)]
      <4> HIDE DEF f
      <4> QED BY <3>1 DEF Sums
    <3>3. ASSUME s # {} PROVE f[Rest(s)] = SumOver(g, Rest(s))
      <4>1. Rest(s) \subseteq s /\ Rest(s) # s
        BY <3>3, SomeIsIn
      <4>2. Sums(h, g, Rest(s)) /\ SumOver(g, Rest(s)) = h[Rest(s)]
        BY <2>3, <2>4, <4>1 DEF SumOver
      <4>3. IsFiniteSet(s)
        BY <2>2, <2>4, FS_Subset
      <4> HIDE DEF f, h
      <4> QED BY <3>1, <4>1, <4>2, <4>3, SumsAgree
    <3> QED BY <3>1, <3>2, <3>3
  <2> DEFINE F == [s \in SUBSET U |-> IF s = {} THEN 0 ELSE g[Some(s)] + SumOver(g, Rest(s))]
  <2>5. ASSUME NEW s \in SUBSET U, s # {} PROVE F[Rest(s)] = SumOver(g, Rest(s))
    <3>1. Rest(s) \subseteq s /\ Rest(s) # s
      BY <2>5, SomeIsIn
    <3>2. Rest(s) \subseteq U /\ Rest(s) # U
      BY <3>1
    <3> QED BY <2>4, <3>2
  <2>6. F = [s \in SUBSET U |-> IF s = {} THEN 0 ELSE g[Some(s)] + F[Rest(s)]]
    <3>1. \A s \in SUBSET U : F[s] = IF s = {} THEN 0 ELSE g[Some(s)] + F[Rest(s)]
      BY <2>5
    <3> QED BY <3>1
  <2>7. Sums(F, g, U)
    <3> HIDE DEF F
    <3> QED BY <2>6 DEF Sums
  <2> QED BY <2>2, <2>7
<1>2. \E f : Sums(f, g, S)
  BY <1>1
<1> QED BY <1>2

\* The sum, one element at a time.
LEMMA SumByStep ==
    ASSUME NEW g, NEW S, IsFiniteSet(S)
    PROVE  SumOver(g, S) = (IF S = {} THEN 0 ELSE g[Some(S)] + SumOver(g, Rest(S)))
<1> DEFINE f == CHOOSE f : Sums(f, g, S)
           h == CHOOSE h : Sums(h, g, Rest(S))
<1>1. Sums(f, g, S) /\ SumOver(g, S) = f[S]
  BY SumExists DEF SumOver
<1>2. Sums(h, g, Rest(S)) /\ SumOver(g, Rest(S)) = h[Rest(S)]
  <2>1. IsFiniteSet(Rest(S))
    BY FS_Subset DEF Rest
  <2> QED BY <2>1, SumExists DEF SumOver
<1> HIDE DEF f, h
<1>3. f[S] = IF S = {} THEN 0 ELSE g[Some(S)] + f[Rest(S)]
  BY <1>1 DEF Sums
<1>4. f[Rest(S)] = h[Rest(S)]
  <2>1. Rest(S) \subseteq S
    BY DEF Rest
  <2> QED BY <1>1, <1>2, <2>1, SumsAgree
<1> QED BY <1>1, <1>2, <1>3, <1>4

\* The sum of numbers is one of them, and any element may be the first.
LEMMA SumIsIn ==
    ASSUME NEW S, IsFiniteSet(S), NEW D, 0 \in D, \A x, y \in D : x + y \in D,
           NEW g, \A x \in S : g[x] \in D
    PROVE  SumOver(g, S) \in D
<1> DEFINE Wrong == {U \in SUBSET S : SumOver(g, U) \notin D}
<1>1. ASSUME Wrong # {} PROVE FALSE
  <2>1. PICK U \in Wrong : \A V \in Wrong : V \subseteq U => V = U
    <3>1. Wrong \subseteq SUBSET S
      OBVIOUS
    <3> HIDE DEF Wrong
    <3> QED BY <1>1, <3>1, SmallestExists
  <2>2. U \subseteq S /\ SumOver(g, U) \notin D /\ IsFiniteSet(U)
    BY FS_Subset
  <2>3. U # {} /\ SumOver(g, U) = g[Some(U)] + SumOver(g, Rest(U))
    BY <2>2, SumByStep
  <2>4. Some(U) \in S /\ Rest(U) \subseteq U /\ Rest(U) # U
    BY <2>2, <2>3, SomeIsIn
  <2>5. SumOver(g, Rest(U)) \in D
    BY <2>1, <2>2, <2>4
  <2> QED BY <2>2, <2>3, <2>4, <2>5
<1> QED BY <1>1

LEMMA SumIsNat ==
    ASSUME NEW S, IsFiniteSet(S), NEW g, \A x \in S : g[x] \in Nat
    PROVE  SumOver(g, S) \in Nat
<1>1. 0 \in Nat /\ \A x, y \in Nat : x + y \in Nat
  OBVIOUS
<1> QED BY <1>1, SumIsIn

LEMMA SumIsInt ==
    ASSUME NEW S, IsFiniteSet(S), NEW g, \A x \in S : g[x] \in Int
    PROVE  SumOver(g, S) \in Int
<1>1. 0 \in Int /\ \A x, y \in Int : x + y \in Int
  OBVIOUS
<1> QED BY <1>1, SumIsIn

LEMMA SumLoses ==
    ASSUME NEW S, IsFiniteSet(S), NEW g, \A x \in S : g[x] \in Int, NEW n \in S
    PROVE  SumOver(g, S) = g[n] + SumOver(g, S \ {n})
<1> DEFINE Loses(U) == \A m \in U : SumOver(g, U) = g[m] + SumOver(g, U \ {m})
           Wrong == {U \in SUBSET S : ~Loses(U)}
<1>1. ASSUME Wrong # {} PROVE FALSE
  <2>1. PICK U \in Wrong : \A V \in Wrong : V \subseteq U => V = U
    <3>1. Wrong \subseteq SUBSET S
      OBVIOUS
    <3> HIDE DEF Wrong
    <3> QED BY <1>1, <3>1, SmallestExists
  <2>2. U \subseteq S /\ IsFiniteSet(U)
    BY FS_Subset
  <2>3. PICK m \in U : SumOver(g, U) # g[m] + SumOver(g, U \ {m})
    OBVIOUS
  <2>4. ASSUME NEW V, V \subseteq U, V # U, NEW x \in V
        PROVE  SumOver(g, V) = g[x] + SumOver(g, V \ {x})
    <3>1. V \in SUBSET S /\ V \notin Wrong
      BY <2>1, <2>2, <2>4
    <3> QED BY <2>4, <3>1
  <2> DEFINE x == Some(U)
             Both == U \ {x, m}
  <2>5. x \in U /\ SumOver(g, U) = g[x] + SumOver(g, U \ {x})
    BY <2>2, SomeIsIn, SumByStep DEF Rest
  <2> HIDE DEF x
  <2>6. x # m
    BY <2>3, <2>5
  <2>7. SumOver(g, U \ {x}) = g[m] + SumOver(g, Both)
    <3>1. (U \ {x}) \ {m} = Both /\ m \in U \ {x} /\ U \ {x} # U
      BY <2>5, <2>6
    <3> QED BY <2>4, <3>1
  <2>8. SumOver(g, U \ {m}) = g[x] + SumOver(g, Both)
    <3>1. (U \ {m}) \ {x} = Both /\ x \in U \ {m} /\ U \ {m} # U
      BY <2>5, <2>6
    <3> QED BY <2>4, <3>1
  <2>9. SumOver(g, Both) \in Int /\ g[x] \in Int /\ g[m] \in Int
    <3>1. Both \subseteq U /\ \A y \in Both : g[y] \in Int
      BY <2>2
    <3>2. IsFiniteSet(Both)
      BY <2>2, <3>1, FS_Subset
    <3> HIDE DEF Both
    <3> QED BY <2>2, <2>5, <3>1, <3>2, SumIsInt
  <2> HIDE DEF Both, Wrong, Loses
  <2>10. g[x] + (g[m] + SumOver(g, Both)) = g[m] + (g[x] + SumOver(g, Both))
    BY <2>9
  <2> QED BY <2>3, <2>5, <2>7, <2>8, <2>10
<1> QED BY <1>1

--------------------------------------------------------------------------------
(* The generation rate.                                                    *)

\* What is left of a sum of differences.
LEMMA SumOfDifferences ==
    ASSUME NEW n \in Nat, NEW t, NEW c, NEW k \in Nat, t[1] = 0,
           \A i \in 1 .. n : t[i] \in Int,
           \A i \in 1 .. k : c[i] = IF i < n THEN t[i + 1] - t[i] ELSE 0,
           k + 1 >= n, n >= 1
    PROVE  SumOver(c, 1 .. k) = t[n]
<1> DEFINE Upto(j) == t[IF j < n THEN j + 1 ELSE n]
           Wrong == {j \in 0 .. k : SumOver(c, 1 .. j) # Upto(j)}
<1>1. ASSUME Wrong # {} PROVE FALSE
  <2>1. PICK j \in Wrong : \A i \in Wrong : j <= i
    <3>1. Wrong \subseteq Nat
      OBVIOUS
    <3> HIDE DEF Wrong
    <3> QED BY <1>1, <3>1, MinExists
  <2>2. j \in 0 .. k /\ j \in Nat /\ SumOver(c, 1 .. j) # Upto(j)
    OBVIOUS
  <2>3. j # 0
    <3>1. ASSUME j = 0 PROVE FALSE
      <4>1. 1 .. j = {} /\ Upto(j) = 0
        BY <3>1
      <4>2. SumOver(c, {}) = 0
        BY SumByStep, FS_EmptySet
      <4> QED BY <2>2, <4>1, <4>2
    <3> QED BY <3>1
  <2>4. PICK i \in Nat : j = i + 1
    BY <2>2, <2>3
  <2>5. i \in 0 .. k /\ i \notin Wrong /\ j \in 1 .. k
    BY <2>1, <2>2, <2>4
  <2>6. SumOver(c, 1 .. i) = Upto(i)
    BY <2>5
  <2>7. \A x \in 1 .. j : c[x] \in Int
    BY <2>2
  <2>8. SumOver(c, 1 .. j) = c[j] + SumOver(c, 1 .. i)
    <3>0. 1 \in Int /\ j \in Int
      BY <2>2
    <3>1. IsFiniteSet(1 .. j) /\ j \in 1 .. j /\ (1 .. j) \ {j} = 1 .. i
      <4>1. IsFiniteSet(1 .. j)
        BY <3>0, FS_Interval
      <4>2. j \in 1 .. j /\ (1 .. j) \ {j} = 1 .. i
        BY <2>2, <2>3, <2>4
      <4> QED BY <4>1, <4>2
    <3> HIDE DEF Wrong
    <3>2. SumOver(c, 1 .. j) = c[j] + SumOver(c, (1 .. j) \ {j})
      BY <2>7, <3>1, SumLoses
    <3> QED BY <3>1, <3>2
  <2>9. CASE j < n
    <3>1. c[j] = t[j + 1] - t[j] /\ Upto(i) = t[j] /\ Upto(j) = t[j + 1]
          /\ t[j] \in Int /\ t[j + 1] \in Int
      BY <2>2, <2>4, <2>5, <2>9
    <3> HIDE DEF Upto, Wrong
    <3> QED BY <2>2, <2>6, <2>8, <3>1
  <2>10. CASE ~(j < n)
    <3>1. c[j] = 0 /\ Upto(i) = t[n] /\ Upto(j) = t[n] /\ t[n] \in Int
      BY <2>2, <2>4, <2>5, <2>10
    <3> HIDE DEF Upto, Wrong
    <3> QED BY <2>2, <2>6, <2>8, <3>1
  <2> QED BY <2>9, <2>10
<1>2. k \in 0 .. k /\ k \notin Wrong
  BY <1>1
<1>3. Upto(k) = t[n]
  <2>1. (IF k < n THEN k + 1 ELSE n) = n
    OBVIOUS
  <2> QED BY <2>1
<1> QED BY <1>2, <1>3

\* MapThenSumSet computes this sum.
LEMMA SumOfRates ==
    ASSUME NEW c, NEW S, IsFiniteSet(S)
    PROVE  MapThenSumSet(LAMBDA i : c[i], S) = SumOver(c, S)
<1> DEFINE Step(f) == [s \in SUBSET S |-> IF s = {} THEN 0 ELSE c[Some(s)] + f[Rest(s)]]
           it == CHOOSE f : f = Step(f)
           t == CHOOSE f : Sums(f, c, S)
<1>1. \A f : Sums(f, c, S) <=> f = Step(f)
  BY DEF Sums
<1>2. Sums(t, c, S)
  BY SumExists
<1>3. it = Step(it)
  <2>1. t = Step(t)
    <3> HIDE DEF t, Step
    <3> QED BY <1>1, <1>2
  <2> HIDE DEF t, Step
  <2> QED BY <2>1
<1>4. Sums(it, c, S)
  <2> HIDE DEF it, Step
  <2> QED BY <1>1, <1>3
<1>5. MapThenSumSet(LAMBDA i : c[i], S) = it[S]
  BY DEF MapThenSumSet, MapThenFoldSet, Some, Rest
<1>6. it[S] = t[S]
  <2> HIDE DEF it, t
  <2> QED BY <1>2, <1>4, SumsAgree
<1> HIDE DEF it
<1> QED BY <1>5, <1>6 DEF SumOver

\* The client's curve is read once.
Generated == Padded(Differences([i \in 1 .. Gap |-> 0] \o cliLog))
ClientInv ==
    /\ cliLog \in Seq(Nat)
    /\ spc \in {"scale", "plotted"} => cli_rate = Generated

LEMMA RatesSumUp ==
    ASSUME cliLog \in Seq(Nat), cliLog # <<>>
    PROVE  SumOver(Generated, DOMAIN Generated) = Last(cliLog) /\ IsFiniteSet(DOMAIN Generated)
<1> DEFINE t == [i \in 1 .. Gap |-> 0] \o cliLog
           n == Gap + Len(cliLog)
           rates == Differences(t)
           zeros == IF Len(rates) < Services THEN Services - Len(rates) ELSE 0
           k == (n - 1) + zeros
<1>1. Gap \in Nat /\ Gap >= 1 /\ Len(cliLog) \in Nat /\ Len(cliLog) >= 1 /\ Services \in Nat
      /\ n \in Nat /\ n >= 2
  BY Gaps, ServicesAssumption
<1>2. t \in Seq(Nat) /\ Len(t) = n /\ t[1] = 0 /\ t[n] = Last(cliLog)
  <2>1. [i \in 1 .. Gap |-> 0] \in Seq(Nat) /\ Len([i \in 1 .. Gap |-> 0]) = Gap
    BY <1>1
  <2> QED BY <1>1, <2>1 DEF Last
<1> HIDE DEF t
<1>3. \A i \in 1 .. n : t[i] \in Int
  <2> HIDE DEF n
  <2> QED BY <1>1, <1>2
<1>4. rates = [i \in 1 .. n - 1 |-> t[i + 1] - t[i]]
  <2> HIDE DEF n
  <2> QED BY <1>2 DEF Differences
<1>5. rates \in Seq(Int) /\ Len(rates) = n - 1
  <2> DEFINE m == n - 1
  <2>1. m \in Nat /\ \A i \in 1 .. m : t[i + 1] - t[i] \in Int
    <3> HIDE DEF n
    <3> QED BY <1>1, <1>3
  <2>2. rates = [i \in 1 .. m |-> t[i + 1] - t[i]]
    BY <1>4
  <2> HIDE DEF m, rates
  <2>3. rates \in Seq(Int) /\ Len(rates) = m
    BY <2>1, <2>2
  <2> QED BY <2>3 DEF m
<1>6. zeros \in Nat /\ k \in Nat /\ k + 1 >= n
  <2>1. zeros \in Nat
    <3> HIDE DEF rates, n
    <3> QED BY <1>1, <1>5
  <2> HIDE DEF zeros, n
  <2> QED BY <1>1, <2>1
<1>7. Generated = rates \o [i \in 1 .. zeros |-> 0]
  BY DEF Generated, Padded, t
<1>8. /\ Generated = [i \in 1 .. k |-> IF i < n THEN t[i + 1] - t[i] ELSE 0]
  <2> HIDE DEF zeros, rates, n
  <2>1. [i \in 1 .. zeros |-> 0] \in Seq(Int) /\ Len([i \in 1 .. zeros |-> 0]) = zeros
    BY <1>6
  <2>2. /\ DOMAIN Generated = 1 .. k /\ Generated \in Seq(Int)
        /\ \A i \in 1 .. k : Generated[i] = IF i <= n - 1 THEN rates[i] ELSE 0
    BY <1>5, <1>6, <1>7, <2>1
  <2>3. \A i \in 1 .. k : Generated[i] = IF i < n THEN t[i + 1] - t[i] ELSE 0
    BY <1>1, <1>4, <1>6, <2>2
  <2> QED BY <2>2, <2>3
<1> HIDE DEF k, n
<1>9. SumOver(Generated, 1 .. k) = t[n]
  <2>1. \A i \in 1 .. k : Generated[i] = IF i < n THEN t[i + 1] - t[i] ELSE 0
    BY <1>8
  <2>2. n >= 1
    BY <1>1
  <2> QED BY <1>1, <1>2, <1>3, <1>6, <2>1, <2>2, SumOfDifferences
<1>10. DOMAIN Generated = 1 .. k /\ IsFiniteSet(1 .. k)
  BY <1>6, <1>8, FS_Interval
<1> QED BY <1>2, <1>9, <1>10

LEMMA InitClient == Init => ClientInv
BY ExperimentsAssumption DEF Init, InitScript, ClientInv

LEMMA NextClient == ClientInv /\ [Next]_allVars => ClientInv'
<1> SUFFICES ASSUME ClientInv, [Next]_allVars PROVE ClientInv'
  OBVIOUS
<1>1. cliLog' = cliLog /\ Generated' = Generated
  <2>1. cliLog' = cliLog
    BY DEF Next, allVars, vars, logs, CollectLogs, Collect, Script, NoOrders, Origin, BinOrders,
           BinFails, ReadClient, ReadScaling
  <2> QED BY <2>1 DEF Generated
<1>2. CASE ReadClient
  BY <1>1, <1>2 DEF ReadClient, ClientInv, Generated
<1>3. CASE ReadScaling
  BY <1>1, <1>3 DEF ReadScaling, ClientInv
<1>4. CASE spc' \notin {"scale", "plotted"}
  BY <1>1, <1>4 DEF ClientInv
<1>5. CASE UNCHANGED <<spc, cli_rate>>
  BY <1>1, <1>5 DEF ClientInv
<1> QED
  BY <1>2, <1>3, <1>4, <1>5 DEF Next, allVars, vars, CollectLogs, Collect, Script, NoOrders, Origin,
     BinOrders, BinFails

\* The client's curve sums to the last total of its log, however the zeros of the gap, the
\* element that is popped and the padding fall.
THEOREM GenerationIsWhole == Spec => []GenerationIsComplete
<1>1. ClientInv => GenerationIsComplete
  <2> SUFFICES ASSUME ClientInv, spc \in {"scale", "plotted"}, cliLog # <<>>
               PROVE  MapThenSumSet(LAMBDA i : cli_rate[i], DOMAIN cli_rate) = Last(cliLog)
    BY DEF GenerationIsComplete
  <2>1. cliLog \in Seq(Nat) /\ cli_rate = Generated
    BY DEF ClientInv
  <2>2. SumOver(cli_rate, DOMAIN cli_rate) = Last(cliLog) /\ IsFiniteSet(DOMAIN cli_rate)
    BY <2>1, RatesSumUp
  <2>3. MapThenSumSet(LAMBDA i : cli_rate[i], DOMAIN cli_rate) = SumOver(cli_rate, DOMAIN cli_rate)
    <3> DEFINE S == DOMAIN cli_rate
    <3> SUFFICES MapThenSumSet(LAMBDA i : cli_rate[i], S) = SumOver(cli_rate, S)
      OBVIOUS
    <3>1. IsFiniteSet(S)
      BY <2>2
    <3> HIDE DEF S
    <3> QED BY <3>1, SumOfRates
  <2> QED BY <2>2, <2>3
<1> QED BY <1>1, InitClient, NextClient, PTL DEF Spec

--------------------------------------------------------------------------------
(* The tail latency.                                                       *)

\* The places of the elements up to v.
UpTo(a, v) == {j \in DOMAIN a : a[j] <= v}
Candidates(a, k) == {v \in Range(a) : Cardinality(UpTo(a, v)) >= k}

LEMMA UpToIsFinite ==
    ASSUME NEW n \in Nat, NEW a \in [1 .. n -> Int], NEW v
    PROVE  IsFiniteSet(UpTo(a, v)) /\ Cardinality(UpTo(a, v)) \in Nat
           /\ IsFiniteSet(1 .. n) /\ Cardinality(1 .. n) = n
<1>1. IsFiniteSet(1 .. n) /\ Cardinality(1 .. n) = n
  BY FS_Interval
<1>2. UpTo(a, v) \subseteq 1 .. n
  BY DEF UpTo
<1> QED BY <1>1, <1>2, FS_Subset, FS_CardinalityType

\* Of those up to v the largest has them all up to it.
LEMMA CandidateBelow ==
    ASSUME NEW n \in Nat, NEW a \in [1 .. n -> Int], NEW k \in 1 .. n, NEW v \in Int,
           Cardinality(UpTo(a, v)) >= k
    PROVE  \E w \in Candidates(a, k) : w <= v
<1> DEFINE S == {a[j] : j \in UpTo(a, v)}
           w == Max(S)
<1>1. S \subseteq Int /\ \A x \in S : x <= v
  BY DEF UpTo
<1>2. S # {}
  <2>1. UpTo(a, v) # {}
    <3>1. ASSUME UpTo(a, v) = {} PROVE FALSE
      <4>1. Cardinality(UpTo(a, v)) = 0
        BY <3>1, FS_EmptySet
      <4> QED BY <4>1
    <3> QED BY <3>1
  <2> QED BY <2>1
<1>3. IsFiniteSet(S)
  <2> DEFINE f == [j \in UpTo(a, v) |-> a[j]]
  <2>1. DOMAIN f = UpTo(a, v) /\ {f[j] : j \in DOMAIN f} = S
    OBVIOUS
  <2>2. IsFiniteSet(UpTo(a, v))
    BY UpToIsFinite
  <2> HIDE DEF f, S
  <2>3. IsFiniteSet(DOMAIN f)
    BY <2>1, <2>2
  <2>4. IsFiniteSet({f[j] : j \in DOMAIN f})
    BY ONLY <2>3, ValuesAreFinite
  <2> QED BY <2>1, <2>4
<1> HIDE DEF w
<1>4. w \in S /\ \A x \in S : x <= w
  <2> HIDE DEF S
  <2> QED BY <1>1, <1>2, <1>3, MaxExists DEF w
<1>5. UpTo(a, v) \subseteq UpTo(a, w)
  BY <1>4 DEF UpTo
<1>6. Cardinality(UpTo(a, w)) >= k
  <2>1. Cardinality(UpTo(a, v)) <= Cardinality(UpTo(a, w))
    BY <1>5, UpToIsFinite, FS_Subset
  <2> QED BY <2>1, UpToIsFinite
<1>7. w \in Range(a)
  BY <1>4 DEF UpTo, Range
<1> QED BY <1>1, <1>4, <1>6, <1>7 DEF Candidates

LEMMA SmallestIsThere ==
    ASSUME NEW n \in Nat, NEW a \in [1 .. n -> Int], NEW k \in 1 .. n
    PROVE  /\ Smallest(a, k) \in Candidates(a, k) /\ Smallest(a, k) \in Int
           /\ \A w \in Candidates(a, k) : Smallest(a, k) <= w
<1> DEFINE S == Range(a)
<1>1. S \subseteq Int /\ S = {a[j] : j \in 1 .. n}
  BY DEF Range
<1>2. IsFiniteSet(S) /\ S # {}
  <2>1. IsFiniteSet(1 .. n)
    BY FS_Interval
  <2>2. a \in Surjection(1 .. n, S)
    BY <1>1 DEF Surjection
  <2>3. a[k] \in S
    BY <1>1
  <2> HIDE DEF S
  <2> QED BY <2>1, <2>2, <2>3, FS_Surjection
<1>3. Max(S) \in Int /\ \A x \in S : x <= Max(S)
  <2> HIDE DEF S
  <2> QED BY <1>1, <1>2, MaxExists
<1>4. UpTo(a, Max(S)) = 1 .. n
  BY <1>1, <1>3 DEF UpTo
<1>5. Cardinality(UpTo(a, Max(S))) >= k
  BY <1>4, UpToIsFinite
<1>6. Candidates(a, k) # {}
  <2> HIDE DEF S
  <2> QED BY <1>3, <1>5, CandidateBelow
<1>7. Candidates(a, k) \subseteq Int /\ IsFiniteSet(Candidates(a, k))
  <2>1. Candidates(a, k) \subseteq S
    BY DEF Candidates
  <2> HIDE DEF S
  <2> QED BY <1>1, <1>2, <2>1, FS_Subset
<1>8. Smallest(a, k) = Min(Candidates(a, k))
  BY DEF Smallest, Candidates, UpTo
<1> QED BY <1>6, <1>7, <1>8, FiniteMinExists

\* When no element gets smaller, the k-th in order does not.
LEMMA SmallestGrows ==
    ASSUME NEW n \in Nat, NEW a \in [1 .. n -> Int], NEW b \in [1 .. n -> Int],
           \A j \in 1 .. n : a[j] <= b[j],
           NEW k \in 1 .. n
    PROVE  Smallest(a, k) <= Smallest(b, k)
<1> DEFINE v == Smallest(b, k)
<1>1. v \in Int /\ Cardinality(UpTo(b, v)) >= k
  BY SmallestIsThere DEF Candidates
<1> HIDE DEF v
<1>2. UpTo(b, v) \subseteq UpTo(a, v)
  BY <1>1 DEF UpTo
<1>3. Cardinality(UpTo(b, v)) <= Cardinality(UpTo(a, v))
  BY <1>2, UpToIsFinite, FS_Subset
<1>4. Cardinality(UpTo(a, v)) >= k
  <2>1. Cardinality(UpTo(a, v)) \in Nat /\ Cardinality(UpTo(b, v)) \in Nat
    BY UpToIsFinite
  <2> QED BY <1>1, <1>3, <2>1
<1>5. PICK w \in Candidates(a, k) : w <= v
  BY <1>1, <1>4, CandidateBelow
<1>6. Smallest(a, k) <= w /\ Smallest(a, k) \in Int /\ w \in Int
  <2>1. Candidates(a, k) \subseteq Int
    BY DEF Candidates, Range
  <2> QED BY <1>5, <2>1, SmallestIsThere
<1>7. Smallest(a, k) <= v
  BY <1>1, <1>5, <1>6
<1> QED BY <1>7 DEF v

\* Nor does what lies between two elements.
LEMMA BetweenGrows ==
    ASSUME NEW f \in 0 .. 99, NEW b \in Int, NEW c \in Int, NEW d \in Int, NEW e \in Int,
           b <= d, c <= e
    PROVE  100 * b + f * (c - b) <= 100 * d + f * (e - d)
<1>1. f * (c - b) = f * c - f * b /\ f * (e - d) = f * e - f * d
  OBVIOUS
<1>2. f * c <= f * e /\ f * c \in Int /\ f * e \in Int /\ f * b \in Int /\ f * d \in Int
  OBVIOUS
<1>3. (100 - f) * b <= (100 - f) * d
  <2>1. 100 - f \in Nat
    OBVIOUS
  <2> QED BY <2>1
<1>4. (100 - f) * b = 100 * b - f * b /\ (100 - f) * d = 100 * d - f * d
  OBVIOUS
<1> QED BY <1>1, <1>2, <1>3, <1>4

LEMMA PercentileGrows ==
    ASSUME NEW n \in Nat \ {0}, NEW a \in [1 .. n -> Int], NEW b \in [1 .. n -> Int],
           \A j \in 1 .. n : a[j] <= b[j]
    PROVE  Percentile95(a) <= Percentile95(b)
<1> DEFINE at == 95 * (n - 1)
           f == at % 100
           p == at \div 100 + 1
           q == IF f = 0 THEN p ELSE p + 1
<1>1. Len(a) = n /\ Len(b) = n
  <2>1. a \in Seq(Int) /\ b \in Seq(Int)
    OBVIOUS
  <2> QED BY <2>1
<1>2. f \in 0 .. 99 /\ p \in 1 .. n /\ q \in 1 .. n /\ (f # 0 => q = at \div 100 + 2)
  <2>1. at \in Nat
    OBVIOUS
  <2>2. at = 100 * (at \div 100) + f /\ f \in 0 .. 99 /\ at \div 100 \in Nat
    <3> HIDE DEF at
    <3> QED BY <2>1
  <2> DEFINE z == at \div 100
  <2>3. 95 * (n - 1) = 100 * z + f /\ f \in 0 .. 99 /\ z \in Nat
    BY <2>2
  <2> HIDE DEF z, f, at
  <2>4. z + 1 \in 1 .. n /\ (f # 0 => z + 2 \in 1 .. n)
    BY <2>3
  <2>5. p = z + 1 /\ q = IF f = 0 THEN z + 1 ELSE z + 2
    BY <2>3 DEF z
  <2> QED BY <2>3, <2>4, <2>5 DEF z
<1>3. /\ Percentile95(a) = 100 * Smallest(a, p) + f * (Smallest(a, q) - Smallest(a, p))
      /\ Percentile95(b) = 100 * Smallest(b, p) + f * (Smallest(b, q) - Smallest(b, p))
  BY <1>1, <1>2 DEF Percentile95
<1> HIDE DEF f, p, q
<1>4. /\ Smallest(a, p) \in Int /\ Smallest(a, q) \in Int
      /\ Smallest(b, p) \in Int /\ Smallest(b, q) \in Int
      /\ Smallest(a, p) <= Smallest(b, p) /\ Smallest(a, q) <= Smallest(b, q)
  BY <1>2, SmallestIsThere, SmallestGrows
<1> DEFINE u == Smallest(a, p)
           v == Smallest(b, p)
           x == Smallest(a, q)
           y == Smallest(b, q)
<1>5. 100 * u + f * (x - u) <= 100 * v + f * (y - v)
  <2>1. u \in Int /\ v \in Int /\ x \in Int /\ y \in Int /\ u <= v /\ x <= y
    BY <1>4
  <2> HIDE DEF u, v, x, y
  <2> QED BY <1>2, <2>1, BetweenGrows
<1> QED BY <1>3, <1>5

\* The latencies of some orders do not decrease along the services.
LEMMA TailGrows ==
    ASSUME LogInv, NEW s \in 2 .. Services, InChain(s), NEW O, O \subseteq Orders
    PROVE  TailOf(s - 1, O) <= TailOf(s, O)
<1>1. CASE O = {}
  BY <1>1 DEF TailOf
<1>2. CASE O # {}
  <2> DEFINE n == Cardinality(O)
             a == LatenciesOf(s - 1, O)
             b == LatenciesOf(s, O)
  <2>1. IsFiniteSet(O)
    BY OrdersAreFinite, FS_Subset
  <2>2. n \in Nat \ {0} /\ ExistsBijection(1 .. n, O)
    BY <1>2, <2>1, FS_CardinalityType, FS_EmptySet
  <2>3. SetToSeq(O) \in [1 .. n -> O]
    <3>1. \E f \in [1 .. n -> O] : IsInjective(f)
      BY <2>2 DEF ExistsBijection, Bijection, Injection, Surjection, IsInjective
    <3> QED BY <3>1 DEF SetToSeq
  <2>4. ASSUME NEW o \in O
        PROVE  latency(s - 1, o) \in Int /\ latency(s, o) \in Int
               /\ latency(s - 1, o) <= latency(s, o)
    <3>1. s \in Service /\ s - 1 \in Service /\ s # 1
      BY ServicesAssumption DEF Service
    <3>2. /\ orderLog[o].placed \in Nat /\ orderLog[o].ends[s] \in Nat
          /\ orderLog[o].ends[s - 1] \in Nat
          /\ orderLog[o].ends[s - 1] <= orderLog[o].ends[s]
      BY <3>1, LinesHaveTypes DEF InChain
    <3> QED BY <3>2 DEF latency
  <2>5. /\ a \in [1 .. n -> Int] /\ b \in [1 .. n -> Int]
        /\ \A j \in 1 .. n : a[j] <= b[j]
    BY <2>3, <2>4 DEF LatenciesOf
  <2>6. TailOf(s - 1, O) = Percentile95(a) /\ TailOf(s, O) = Percentile95(b)
    BY <1>2 DEF TailOf
  <2> HIDE DEF a, b, n
  <2> QED BY <2>2, <2>5, <2>6, PercentileGrows
<1> QED BY <1>1, <1>2

\* The curves drawn so far are those of the services before the present one.
TailCurve(s) == [b \in 0 .. size + Gap - 1 |-> TailOf(s, PlacedIn(s, b))]
TailInv ==
    /\ landist = [s \in 1 .. Len(order_rate) |-> TailCurve(s)]
    /\ Len(order_rate) \in Nat /\ Len(order_rate) <= Services

LEMMA TailStays ==
    ASSUME TailInv, UNCHANGED <<orderLog, btime, size, order_rate, landist>>
    PROVE  TailInv'
<1>1. \A s : TailCurve(s)' = TailCurve(s)
  BY DEF TailCurve, TailOf, PlacedIn, LatenciesOf, latency, Started, starttime, InputPeriod, Orders
<1> QED BY <1>1 DEF TailInv

LEMMA InitTail == Init => TailInv
<1> SUFFICES ASSUME Init PROVE TailInv
  OBVIOUS
<1>1. order_rate = <<>> /\ landist = <<>>
  BY DEF Init, InitScript
<1>2. Len(order_rate) = 0
  BY <1>1
<1>3. landist = [s \in 1 .. 0 |-> TailCurve(s)]
  BY <1>1
<1> QED BY <1>2, <1>3, ServicesAssumption DEF TailInv

LEMMA NextTail == Inv /\ TailInv /\ [Next]_allVars => TailInv'
<1> SUFFICES ASSUME Inv, TailInv, [Next]_allVars PROVE TailInv'
  OBVIOUS
<1>1. CASE Origin
  <2>1. order_rate = <<>> /\ order_rate' = <<>> /\ landist' = landist
    BY <1>1 DEF Origin, Inv, ScriptInv, OriginInv, Measured
  <2>2. Len(order_rate) = 0 /\ Len(order_rate') = 0
    BY <2>1
  <2>3. landist = [s \in 1 .. 0 |-> TailCurve(s)] /\ 1 .. 0 = {}
    BY <2>2 DEF TailInv
  <2>4. landist' = [s \in 1 .. 0 |-> TailCurve(s)']
    BY <2>1, <2>3
  <2> QED BY <2>2, <2>4, ServicesAssumption DEF TailInv
<1>2. ASSUME NEW s \in Service, BinOrders(s) PROVE TailInv'
  <2> DEFINE n == Len(order_rate)
             curve == [b \in 0 .. size + Gap - 1 |-> TailOf(s, PlacedIn(s, b))]
  <2>1. /\ spc = "bin" /\ service = s /\ landist' = Append(landist, curve)
        /\ UNCHANGED <<orderLog, btime, size>>
        /\ \E line : order_rate' = Append(order_rate, line)
    BY <1>2 DEF BinOrders, logs, origin
  <2>2. /\ n = s - 1 /\ order_rate \in Seq([0 .. size + Gap - 1 -> Nat]) /\ n \in Nat
        /\ n + 1 <= Services
    BY <2>1, ServicesAssumption DEF Inv, ScriptInv, CurvesInv, Measured, Service
  <2>3. Len(order_rate') = n + 1
    <3>1. PICK line : order_rate' = Append(order_rate, line)
      BY <2>1
    <3> QED BY <2>2, <3>1
  <2>4. landist = [t \in 1 .. n |-> TailCurve(t)] /\ curve = TailCurve(n + 1)
    <3>1. s = n + 1
      BY <2>2 DEF Service
    <3> QED BY <3>1 DEF TailInv, TailCurve
  <2>5. landist' = [t \in 1 .. n + 1 |-> TailCurve(t)]
    <3> HIDE DEF n, curve
    <3> QED BY <2>1, <2>2, <2>4
  <2>6. \A t : TailCurve(t)' = TailCurve(t)
    BY <2>1 DEF TailCurve, TailOf, PlacedIn, LatenciesOf, latency, Started, starttime,
                InputPeriod, Orders
  <2> QED BY <2>2, <2>3, <2>5, <2>6 DEF TailInv
<1>3. CASE UNCHANGED <<orderLog, btime, size, order_rate, landist>>
  BY <1>3, TailStays
<1> QED
  BY <1>1, <1>2, <1>3 DEF Next, allVars, vars, logs, origin, curves, CollectLogs, Collect, Script,
     NoOrders, BinFails, ReadClient, ReadScaling

\* The 95th percentile of a period's latencies is no smaller in a service than in the one
\* before, for any number of orders none of which leaves it earlier: np.percentile lies
\* between two elements in order.
THEOREM TailsGrow == Spec => []TailGrowsAlongTheChain
<1>1. Inv /\ TailInv => TailGrowsAlongTheChain
  <2> SUFFICES ASSUME Inv, TailInv,
                      NEW s \in 2 .. Len(landist), InChain(s), NEW b \in DOMAIN landist[s]
               PROVE  landist[s - 1][b] <= landist[s][b]
    BY DEF TailGrowsAlongTheChain
  <2>1. LogInv /\ Len(order_rate) \in Nat
    BY DEF Inv, ScriptInv, TailInv
  <2>2. landist = [t \in 1 .. Len(order_rate) |-> TailCurve(t)] /\ Len(landist) = Len(order_rate)
    <3>1. landist = [t \in 1 .. Len(order_rate) |-> TailCurve(t)]
      BY DEF TailInv
    <3> QED BY <2>1, <3>1
  <2>3. s \in 2 .. Services /\ s \in 1 .. Len(order_rate) /\ s - 1 \in 1 .. Len(order_rate)
    BY <2>1, <2>2, ServicesAssumption DEF TailInv
  <2>4. landist[s - 1] = TailCurve(s - 1) /\ landist[s] = TailCurve(s)
    BY <2>2, <2>3
  <2>5. b \in 0 .. size + Gap - 1
    BY <2>4 DEF TailCurve
  <2> DEFINE O == PlacedIn(s, b)
  <2>6. O \subseteq Orders /\ O = PlacedIn(s - 1, b)
    BY DEF PlacedIn, Started
  <2>7. landist[s - 1][b] = TailOf(s - 1, O) /\ landist[s][b] = TailOf(s, O)
    BY <2>4, <2>5, <2>6 DEF TailCurve
  <2> HIDE DEF O
  <2> QED BY <2>1, <2>3, <2>6, <2>7, TailGrows
<1> QED BY <1>1, InvHolds, InitTail, NextTail, PTL DEF Spec
================================================================================
