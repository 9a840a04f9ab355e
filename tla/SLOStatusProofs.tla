---------------------------- MODULE SLOStatusProofs ----------------------------
(***************************************************************************)
(* The metrics the observer publishes count every arrival at most once,    *)
(* and in order, for any number of overlapping runs and any length of the  *)
(* history.  The argument: what is published came before what the counter  *)
(* holds, and a run whose status will be accepted read the counter after   *)
(* the last metric was published.                                          *)
(***************************************************************************)
EXTENDS SLOStatus, TLAPS, FiniteSetTheorems

Below(A, B) == \A a \in A, b \in B : a < b

\* What was published came before what the counter holds now.
PublishedBefore == \A k \in DOMAIN published : Below(published[k], inputTracking)

\* So did what a run has read and zeroed, whichever run zeroed it.
ZeroedBefore == \A j \in Job : pc[j] = "publish" => Below(window[j], inputTracking)

\* No run has a version of the SLODesc that the API server has not given out yet.
VersionsKnown == \A j \in Job : slo[j].version <= sloDesc.version

\* A run whose object is still current read the counter after the last metric.
CurrentReadLate ==
    \A j \in Job : pc[j] \in {"zero", "publish"} /\ Current(j)
        => \A k \in DOMAIN published : Below(published[k], window[j])

Order == WindowsAreOrdered /\ PublishedBefore /\ ZeroedBefore /\ VersionsKnown /\ CurrentReadLate

--------------------------------------------------------------------------------
(* Types.                                                                  *)

LEMMA SeqGrows ==
    ASSUME NEW S, NEW T, S \subseteq T, NEW s \in Seq(S)
    PROVE  s \in Seq(T)
OBVIOUS

\* The rate of a window is a natural number.
LEMMA RateIsNat ==
    ASSUME NEW n \in Nat, NEW w \in SUBSET (1..n)
    PROVE  Rate(w) \in Nat
<1>1. IsFiniteSet(1..n)
  BY FS_Interval
<1>2. IsFiniteSet(w)
  BY <1>1, FS_Subset
<1>3. Cardinality(w) \in Nat
  BY <1>2, FS_CardinalityType
<1> QED
  BY <1>3, PeriodAssumption DEF Rate

\* The history with one more metric is a history.
LEMMA AppendedType ==
    ASSUME NEW metrics \in Seq(Metric), NEW m \in Metric
    PROVE  Appended(metrics, m) \in Seq(Metric)
<1>1. CASE Len(metrics) < TrackingLength
  BY <1>1 DEF Appended
<1>2. CASE ~(Len(metrics) < TrackingLength)
  <2>1. SubSeq(metrics, 2, Len(metrics)) \in Seq(Metric)
    OBVIOUS
  <2> QED
    BY <1>2, <2>1 DEF Appended
<1> QED
  BY <1>1, <1>2

LEMMA InitType == Init => TypeOK
<1> SUFFICES ASSUME Init PROVE TypeOK
  OBVIOUS
<1>1. Absent \in Object /\ [version |-> 1, metrics |-> <<>>] \in Object
  BY DEF Absent, Object
<1> QED
  BY <1>1, BoundAssumption DEF Init, TypeOK, JobSteps

LEMMA NextType == TypeOK /\ [Next]_vars => TypeOK'
<1> SUFFICES ASSUME TypeOK, [Next]_vars PROVE TypeOK'
  OBVIOUS
<1>a. Absent \in Object
  BY DEF Absent, Object
<1> USE BoundAssumption DEF JobSteps
<1>1. CASE Arrive
  <2>1. arrivals' = arrivals + 1 /\ arrivals \in Nat /\ 1..arrivals \subseteq 1..(arrivals')
    BY <1>1 DEF Arrive, TypeOK
  <2>2. SUBSET (1..arrivals) \subseteq SUBSET (1..(arrivals'))
    BY <2>1
  <2>3. published' \in Seq(SUBSET (1..(arrivals')))
    BY <1>1, <2>2, SeqGrows DEF Arrive, server, TypeOK
  <2>4. window' \in [Job -> SUBSET (1..(arrivals'))]
    BY <1>1, <2>2 DEF Arrive, runs, TypeOK
  <2>5. inputTracking' \subseteq 1..(arrivals')
    BY <1>1, <2>1 DEF Arrive, TypeOK
  <2> QED
    BY <1>1, <2>1, <2>3, <2>4, <2>5 DEF Arrive, runs, server, TypeOK
<1>2. ASSUME NEW j \in Job, Tick(j) PROVE TypeOK'
  BY <1>2 DEF Tick, server, TypeOK
<1>3. ASSUME NEW j \in Job, Get(j) PROVE TypeOK'
  BY <1>3 DEF Get, Goto, counter, server, TypeOK
<1>4. ASSUME NEW j \in Job, GetFails(j) PROVE TypeOK'
  BY <1>4, <1>a DEF GetFails, Return, Goto, counter, server, TypeOK
<1>5. ASSUME NEW j \in Job, Read(j) PROVE TypeOK'
  BY <1>5 DEF Read, Goto, counter, server, TypeOK
<1>6. ASSUME NEW j \in Job, Zero(j) PROVE TypeOK'
  BY <1>6 DEF Zero, Zeroed, Goto, server, TypeOK
<1>7. ASSUME NEW j \in Job, Publish(j) PROVE TypeOK'
  <2>1. window[j] \in SUBSET (1..arrivals) /\ arrivals \in Nat
    BY DEF TypeOK
  <2>a. window[j] \in SUBSET Nat
    BY <2>1
  <2>b. Rate(window[j]) \in Nat
    BY <2>1, RateIsNat
  <2>2. window[j] \in SUBSET Nat /\ Rate(window[j]) \in Nat
    BY <2>a, <2>b
  <2>3. [rate |-> Rate(window[j]), window |-> window[j]] \in Metric
    BY <2>2 DEF Metric
  <2>4. slo[j].metrics \in Seq(Metric) /\ sloDesc.version \in Nat
    BY DEF TypeOK, Object
  <2>5. sloDesc' \in Object
    BY <1>7, <2>3, <2>4, AppendedType DEF Publish, Object
  <2>6. published' \in Seq(SUBSET (1..arrivals)) /\ Len(published') = Len(published) + 1
    BY <1>7, <2>1 DEF Publish, TypeOK
  <2> QED
    BY <1>7, <1>a, <2>5, <2>6 DEF Publish, Return, Goto, counter, TypeOK
<1>8. ASSUME NEW j \in Job, PublishFails(j) PROVE TypeOK'
  BY <1>8, <1>a DEF PublishFails, Return, Goto, counter, server, TypeOK
<1>9. CASE Apply
  <2>1. sloDesc \in Object /\ sloDesc.version \in Nat /\ sloDesc.metrics \in Seq(Metric)
    BY DEF TypeOK, Object
  <2>2. sloDesc' = [version |-> sloDesc.version + 1, metrics |-> sloDesc.metrics]
    BY <1>9, <2>1 DEF Apply, Object
  <2>3. sloDesc' \in Object
    BY <2>1, <2>2 DEF Object
  <2>4. writes' \in 0..MaxWrites
    BY <1>9 DEF Apply, TypeOK
  <2> QED
    BY <1>9, <2>3, <2>4 DEF Apply, counter, runs, TypeOK
<1>10. CASE Recreate
  BY <1>10 DEF Recreate, counter, runs, Object, TypeOK
<1>11. CASE Restart
  BY <1>11, <1>a DEF Restart, TypeOK
<1>12. CASE UNCHANGED vars
  BY <1>12 DEF vars, TypeOK
<1> QED
  BY <1>1, <1>2, <1>3, <1>4, <1>5, <1>6, <1>7, <1>8, <1>9, <1>10, <1>11, <1>12 DEF Next, Step

\* The observer's variables and the SLODesc keep their types, whatever calls fail.
THEOREM StatusTypeCorrect == Spec => []TypeOK
<1>1. Init => TypeOK
  BY InitType
<1>2. TypeOK /\ [Next]_vars => TypeOK'
  BY NextType
<1> QED
  BY <1>1, <1>2, PTL DEF Spec

--------------------------------------------------------------------------------
(* Order.                                                                  *)

LEMMA InitOrder == Init => Order
BY DEF Init, Order, WindowsAreOrdered, PublishedBefore, ZeroedBefore, VersionsKnown,
       CurrentReadLate, Current, Absent, Below

\* The steps that leave alone what the order is about, except that runs may end.
LEMMA QuietStep ==
    ASSUME TypeOK, Order,
           inputTracking' = inputTracking, published' = published,
           sloDesc'.version >= sloDesc.version, sloDesc'.version \in Nat,
           \A j \in Job : \/ pc'[j] = pc[j] /\ slo'[j] = slo[j] /\ window'[j] = window[j]
                          \/ pc'[j] \in {"idle", "get", "read"} /\ slo'[j].version <= sloDesc'.version
    PROVE  Order'
<1>1. WindowsAreOrdered' /\ PublishedBefore'
  BY DEF Order, WindowsAreOrdered, PublishedBefore
<1>2. ZeroedBefore'
  BY DEF Order, ZeroedBefore
<1>3. VersionsKnown'
  BY DEF Order, VersionsKnown, TypeOK, Object
<1>4. CurrentReadLate'
  <2> SUFFICES ASSUME NEW j \in Job, pc'[j] \in {"zero", "publish"}, Current(j)'
               PROVE  \A k \in DOMAIN published : Below(published[k], window'[j])
    BY DEF CurrentReadLate
  <2>1. pc'[j] = pc[j] /\ slo'[j] = slo[j] /\ window'[j] = window[j]
    OBVIOUS
  <2>2. slo[j].version <= sloDesc.version /\ slo[j].version \in Nat /\ sloDesc.version \in Nat
    BY DEF Order, VersionsKnown, TypeOK, Object
  <2>3. Current(j)
    BY <2>1, <2>2 DEF Current
  <2> QED
    BY <2>1, <2>3 DEF Order, CurrentReadLate
<1> QED
  BY <1>1, <1>2, <1>3, <1>4 DEF Order

LEMMA ArriveOrder == TypeOK /\ Order /\ Arrive => Order'
<1> SUFFICES ASSUME TypeOK, Order, Arrive PROVE Order'
  OBVIOUS
<1>1. \A A \in SUBSET (1..arrivals) : Below(A, inputTracking) => Below(A, inputTracking')
  BY DEF Below, Arrive, TypeOK
<1>2. WindowsAreOrdered' /\ VersionsKnown'
  BY DEF Order, WindowsAreOrdered, VersionsKnown, Arrive, runs, server
<1>3. \A k \in DOMAIN published : published[k] \in SUBSET (1..arrivals)
  BY DEF TypeOK
<1>4. PublishedBefore'
  BY <1>1, <1>3 DEF Order, PublishedBefore, Arrive, server
<1>5. \A j \in Job : window[j] \in SUBSET (1..arrivals)
  BY DEF TypeOK
<1>6. ZeroedBefore'
  BY <1>1, <1>5 DEF Order, ZeroedBefore, Arrive, runs
<1>7. CurrentReadLate'
  BY DEF Order, CurrentReadLate, Current, Arrive, runs, server
<1> QED
  BY <1>2, <1>4, <1>6, <1>7 DEF Order

\* What a run read from the counter came after every metric that is out.
LEMMA ReadOrder ==
    ASSUME TypeOK, Order, NEW i \in Job, Read(i)
    PROVE  Order'
<1>1. WindowsAreOrdered' /\ PublishedBefore' /\ VersionsKnown'
  BY DEF Order, WindowsAreOrdered, PublishedBefore, VersionsKnown, Read, counter, server
<1>2. ZeroedBefore'
  BY DEF Order, ZeroedBefore, Read, Goto, counter, TypeOK
<1>3. CurrentReadLate'
  <2> SUFFICES ASSUME NEW j \in Job, pc'[j] \in {"zero", "publish"}, Current(j)'
               PROVE  \A k \in DOMAIN published : Below(published[k], window'[j])
    BY DEF CurrentReadLate, Read, server
  <2>1. CASE j = i
    <3>1. window'[j] = inputTracking
      BY <2>1 DEF Read, TypeOK
    <3> QED
      BY <3>1 DEF Order, PublishedBefore
  <2>2. CASE j # i
    <3>1. pc'[j] = pc[j] /\ window'[j] = window[j] /\ Current(j)
      BY <2>2 DEF Read, Goto, Current, server, TypeOK
    <3> QED
      BY <3>1 DEF Order, CurrentReadLate
  <2> QED
    BY <2>1, <2>2
<1> QED
  BY <1>1, <1>2, <1>3 DEF Order

LEMMA ZeroOrder ==
    ASSUME TypeOK, Order, NEW i \in Job, Zero(i)
    PROVE  Order'
<1>1. WindowsAreOrdered' /\ VersionsKnown'
  BY DEF Order, WindowsAreOrdered, VersionsKnown, Zero, server
<1>2. PublishedBefore' /\ ZeroedBefore'
  BY DEF PublishedBefore, ZeroedBefore, Below, Zero, Zeroed
<1>3. \A j \in Job : pc'[j] \in {"zero", "publish"} => pc[j] \in {"zero", "publish"}
  BY DEF Zero, Goto, TypeOK
<1>4. CurrentReadLate'
  BY <1>3 DEF Order, CurrentReadLate, Current, Zero, server
<1> QED
  BY <1>1, <1>2, <1>4 DEF Order

\* The metric put is the last one: of the other runs none has the object's new version.
LEMMA PublishOrder ==
    ASSUME TypeOK, Order, NEW i \in Job, Publish(i)
    PROVE  Order'
<1> DEFINE n == Len(published) + 1
<1>1. /\ n \in Nat /\ DOMAIN published = 1..Len(published) /\ Len(published) \in Nat
      /\ DOMAIN published' = 1..n
      /\ published'[n] = window[i]
      /\ \A k \in DOMAIN published : published'[k] = published[k]
  BY DEF Publish, TypeOK
<1>2. \A k \in DOMAIN published' : k = n \/ k \in DOMAIN published
  BY <1>1
<1>3. \A k \in DOMAIN published : Below(published[k], window[i])
  BY DEF Order, CurrentReadLate, Publish
<1>4. WindowsAreOrdered'
  <2> SUFFICES ASSUME NEW k \in DOMAIN published', NEW l \in DOMAIN published', k < l
               PROVE  Below(published'[k], published'[l])
    BY DEF WindowsAreOrdered, Below
  <2>1. k \in DOMAIN published
    BY <1>1
  <2>2. CASE l = n
    BY <2>1, <2>2, <1>1, <1>3
  <2>3. CASE l \in DOMAIN published
    BY <2>1, <2>3, <1>1 DEF Order, WindowsAreOrdered, Below
  <2> QED
    BY <1>2, <2>2, <2>3
<1>5. PublishedBefore'
  <2>1. inputTracking' = inputTracking
    BY DEF Publish, counter
  <2>2. Below(window[i], inputTracking)
    BY DEF Order, ZeroedBefore, Publish
  <2>3. \A k \in DOMAIN published : Below(published[k], inputTracking)
    BY DEF Order, PublishedBefore
  <2> QED
    BY <1>1, <1>2, <2>1, <2>2, <2>3 DEF PublishedBefore
<1>6. \A j \in Job \ {i} : pc'[j] = pc[j] /\ slo'[j] = slo[j] /\ window'[j] = window[j]
  BY DEF Publish, Return, Goto, TypeOK
<1>7. pc'[i] = "idle" /\ slo'[i] = Absent
  BY DEF Publish, Return, Goto, TypeOK
<1>8. /\ sloDesc'.version = sloDesc.version + 1 /\ sloDesc.version \in Nat
      /\ \A j \in Job : slo[j].version \in Nat /\ slo[j].version <= sloDesc.version
  BY DEF Publish, Order, VersionsKnown, TypeOK, Object
<1>9. ZeroedBefore'
  BY <1>6, <1>7 DEF Order, ZeroedBefore, Publish, counter
<1>10. VersionsKnown'
  <2> SUFFICES ASSUME NEW j \in Job PROVE slo'[j].version <= sloDesc'.version
    BY DEF VersionsKnown
  <2>1. CASE j = i
    BY <2>1, <1>7, <1>8 DEF Absent
  <2>2. CASE j # i
    BY <2>2, <1>6, <1>8
  <2> QED
    BY <2>1, <2>2
<1>11. CurrentReadLate'
  <2> SUFFICES ASSUME NEW j \in Job, pc'[j] \in {"zero", "publish"}, Current(j)' PROVE FALSE
    BY DEF CurrentReadLate
  <2>1. j # i
    BY <1>7
  <2>2. slo[j].version = sloDesc.version + 1
    BY <2>1, <1>6, <1>8 DEF Current
  <2> QED
    BY <2>2, <1>8
<1> QED
  BY <1>4, <1>5, <1>9, <1>10, <1>11 DEF Order

LEMMA RestartOrder == TypeOK /\ Order /\ Restart => Order'
<1> SUFFICES ASSUME TypeOK, Order, Restart PROVE Order'
  OBVIOUS
<1>1. WindowsAreOrdered'
  BY DEF Order, WindowsAreOrdered, Restart
<1>2. PublishedBefore' /\ ZeroedBefore' /\ CurrentReadLate'
  BY DEF PublishedBefore, ZeroedBefore, CurrentReadLate, Below, Restart
<1>3. VersionsKnown'
  BY DEF VersionsKnown, Absent, Restart, TypeOK, Object
<1> QED
  BY <1>1, <1>2, <1>3 DEF Order

LEMMA NextOrder == TypeOK /\ Order /\ [Next]_vars => Order'
<1> SUFFICES ASSUME TypeOK, Order, [Next]_vars PROVE Order'
  OBVIOUS
<1>a. sloDesc.version \in Nat /\ \A j \in Job : slo[j].version \in Nat /\ slo[j].version <= sloDesc.version
  BY DEF TypeOK, Object, Order, VersionsKnown
<1>1. CASE Arrive
  BY <1>1, ArriveOrder
<1>2. ASSUME NEW i \in Job, Tick(i) PROVE Order'
  <2>1. \A j \in Job : \/ pc'[j] = pc[j] /\ slo'[j] = slo[j] /\ window'[j] = window[j]
                       \/ pc'[j] = "get" /\ slo'[j].version <= sloDesc'.version
    BY <1>2, <1>a DEF Tick, server, TypeOK
  <2> QED
    BY <1>2, <1>a, <2>1, QuietStep DEF Tick, server
<1>3. ASSUME NEW i \in Job, Get(i) PROVE Order'
  <2>1. \A j \in Job : \/ pc'[j] = pc[j] /\ slo'[j] = slo[j] /\ window'[j] = window[j]
                       \/ pc'[j] = "read" /\ slo'[j].version <= sloDesc'.version
    BY <1>3, <1>a DEF Get, Goto, server, TypeOK
  <2> QED
    BY <1>3, <1>a, <2>1, QuietStep DEF Get, counter, server
<1>4. ASSUME NEW i \in Job, Return(i), inputTracking' = inputTracking,
             published' = published, sloDesc' = sloDesc
      PROVE  Order'
  <2>1. \A j \in Job : \/ pc'[j] = pc[j] /\ slo'[j] = slo[j] /\ window'[j] = window[j]
                       \/ pc'[j] = "idle" /\ slo'[j].version <= sloDesc'.version
    BY <1>4, <1>a DEF Return, Goto, TypeOK, Absent
  <2> QED
    BY <1>4, <1>a, <2>1, QuietStep
<1>5. ASSUME NEW i \in Job, GetFails(i) \/ PublishFails(i) PROVE Order'
  BY <1>4, <1>5 DEF GetFails, PublishFails, counter, server
<1>6. ASSUME NEW i \in Job, Read(i) PROVE Order'
  BY <1>6, ReadOrder
<1>7. ASSUME NEW i \in Job, Zero(i) PROVE Order'
  BY <1>7, ZeroOrder
<1>8. ASSUME NEW i \in Job, Publish(i) PROVE Order'
  BY <1>8, PublishOrder
<1>9. CASE Apply \/ Recreate
  <2>1. sloDesc'.version = sloDesc.version + 1
    BY <1>9 DEF Apply, Recreate, TypeOK, Object
  <2> QED
    BY <1>9, <1>a, <2>1, QuietStep DEF Apply, Recreate, counter, runs
<1>10. CASE Restart
  BY <1>10, RestartOrder
<1>11. CASE UNCHANGED vars
  BY <1>11, <1>a, QuietStep DEF vars
<1> QED
  BY <1>1, <1>2, <1>3, <1>5, <1>6, <1>7, <1>8, <1>9, <1>10, <1>11 DEF Next, Step

\* Metrics are published in the order of their windows, whatever runs overlap, and whoever
\* else writes the SLODesc.
THEOREM MetricsAreOrdered == Spec => []WindowsAreOrdered
<1>1. Init => TypeOK /\ Order
  BY InitType, InitOrder
<1>2. TypeOK /\ Order /\ [Next]_vars => TypeOK' /\ Order'
  BY NextType, NextOrder
<1>3. TypeOK /\ Order => WindowsAreOrdered
  BY DEF Order
<1> QED
  BY <1>1, <1>2, <1>3, PTL DEF Spec

\* No arrival is counted in two metrics.
THEOREM ArrivalsCountedOnce == Spec => []CountedOnce
<1>1. TypeOK /\ WindowsAreOrdered => CountedOnce
  <2> SUFFICES ASSUME TypeOK, WindowsAreOrdered,
                      NEW k \in DOMAIN published, NEW l \in DOMAIN published, k # l,
                      NEW a \in published[k] \cap published[l]
               PROVE  FALSE
    BY DEF CountedOnce
  <2>1. k \in Nat /\ l \in Nat /\ a \in Nat
    BY DEF TypeOK
  <2>2. k < l \/ l < k
    BY <2>1
  <2>3. a < a
    BY <2>2 DEF WindowsAreOrdered
  <2> QED
    BY <2>1, <2>3
<1> QED
  BY <1>1, StatusTypeCorrect, MetricsAreOrdered, PTL

--------------------------------------------------------------------------------
(* The status.                                                             *)

\* How many of n metrics are no longer in a status that keeps the last of them since c.
Older(n, c) == IF n - TrackingLength > c THEN n - TrackingLength ELSE c

\* metrics are the last of the published ones since the first c.
Recent(metrics, windows, c) ==
    /\ Len(metrics) = Len(windows) - Older(Len(windows), c)
    /\ \A k \in 1..Len(metrics) : metrics[k].window = windows[Older(Len(windows), c) + k]

\* A run that got the object and will find it current has it as it is.
CurrentIsObject ==
    \A j \in Job : pc[j] \in {"read", "zero", "publish"} /\ Current(j) => slo[j] = sloDesc

History == StatusIsRecentHistory /\ CurrentIsObject

LEMMA StatusIsRecent ==
    StatusIsRecentHistory <=> Recent(sloDesc.metrics, published, created)
BY DEF StatusIsRecentHistory, Recent, Older

\* One more metric: the recent history is still the recent one.
LEMMA AppendedIsRecent ==
    ASSUME NEW metrics \in Seq(Metric), NEW windows \in Seq(SUBSET Nat),
           NEW c \in 0..Len(windows), NEW m \in Metric,
           Recent(metrics, windows, c)
    PROVE  Recent(Appended(metrics, m), Append(windows, m.window), c)
<1> DEFINE n == Len(windows)
           len == Len(metrics)
           new == Append(windows, m.window)
<1>1. n \in Nat /\ len \in Nat /\ c \in Nat /\ c <= n
  OBVIOUS
<1>2. /\ len = n - Older(n, c)
      /\ \A k \in 1..len : metrics[k].window = windows[Older(n, c) + k]
  BY DEF Recent
<1>3. Len(new) = n + 1 /\ new[n + 1] = m.window /\ \A k \in 1..n : new[k] = windows[k]
  BY DEF Metric
<1>4. CASE len < TrackingLength
  <2>1. Older(n, c) = c /\ Older(n + 1, c) = c
    BY <1>1, <1>2, <1>4, LengthAssumption DEF Older
  <2>2. Appended(metrics, m) = Append(metrics, m)
    BY <1>4 DEF Appended
  <2>3. /\ Len(Append(metrics, m)) = len + 1
        /\ Append(metrics, m)[len + 1] = m
        /\ \A k \in 1..len : Append(metrics, m)[k] = metrics[k]
    OBVIOUS
  <2>4. len + 1 = n + 1 - c
    BY <1>1, <1>2, <2>1
  <2>5. ASSUME NEW k \in 1..(len + 1)
        PROVE  Append(metrics, m)[k].window = new[c + k]
    <3>1. CASE k = len + 1
      BY <3>1, <2>3, <2>4, <1>1, <1>3
    <3>2. CASE k \in 1..len
      <4>1. c + k \in 1..n
        BY <3>2, <2>4, <1>1
      <4>2. metrics[k].window = windows[c + k]
        BY <3>2, <1>2, <2>1
      <4> QED
        BY <3>2, <4>1, <4>2, <2>3, <1>3
    <3>3. k = len + 1 \/ k \in 1..len
      <4> HIDE DEF n, len
      <4> QED
        BY <1>1
    <3> QED
      BY <3>1, <3>2, <3>3
  <2> QED
    BY <1>3, <2>1, <2>2, <2>3, <2>4, <2>5 DEF Recent
<1>5. CASE ~(len < TrackingLength)
  <2> DEFINE tail == SubSeq(metrics, 2, len)
  <2>1. /\ Older(n, c) = n - TrackingLength
        /\ Older(n + 1, c) = n + 1 - TrackingLength
        /\ len = TrackingLength /\ len <= n
    BY <1>1, <1>2, <1>5, LengthAssumption DEF Older
  <2>2. Appended(metrics, m) = Append(tail, m)
    BY <1>5 DEF Appended
  <2>3. tail \in Seq(Metric) /\ Len(tail) = len - 1 /\ \A k \in 1..(len - 1) : tail[k] = metrics[k + 1]
    BY <2>1, LengthAssumption
  <2>4. /\ Len(Append(tail, m)) = len
        /\ Append(tail, m)[len] = m
        /\ \A k \in 1..(len - 1) : Append(tail, m)[k] = metrics[k + 1]
    <3> HIDE DEF tail
    <3> QED
      BY <2>3, <1>1
  <2>5. n + 1 - Older(n + 1, c) = len
    BY <2>1, <1>1, LengthAssumption
  <2>6. ASSUME NEW k \in 1..len
        PROVE  Append(tail, m)[k].window = new[Older(n + 1, c) + k]
    <3> HIDE DEF tail
    <3>1. CASE k = len
      <4>1. Older(n + 1, c) + k = n + 1
        BY <3>1, <2>1, <1>1, LengthAssumption
      <4> QED
        BY <3>1, <4>1, <2>4, <1>3
    <3>2. CASE k \in 1..(len - 1)
      <4>1. /\ k + 1 \in 1..len
            /\ Older(n, c) + (k + 1) = Older(n + 1, c) + k
            /\ Older(n + 1, c) + k \in 1..n
        <5> HIDE DEF n, len
        <5> QED
          BY <3>2, <2>1, <1>1, LengthAssumption
      <4>2. metrics[k + 1].window = windows[Older(n + 1, c) + k]
        BY <4>1, <1>2
      <4> QED
        BY <3>2, <4>1, <4>2, <2>4, <1>3
    <3>3. k = len \/ k \in 1..(len - 1)
      <4> HIDE DEF n, len
      <4> QED
        BY <1>1
    <3> QED
      BY <3>1, <3>2, <3>3
  <2> HIDE DEF tail
  <2>7. Len(Append(tail, m)) = Len(new) - Older(Len(new), c)
    <3> HIDE DEF new, n, len
    <3>1. Older(Len(new), c) = Older(n + 1, c)
      BY <1>3
    <3> QED
      BY <1>1, <1>3, <2>1, <2>4, <3>1, LengthAssumption
  <2>8. \A k \in 1..Len(Append(tail, m)) : Append(tail, m)[k].window = new[Older(Len(new), c) + k]
    BY <1>3, <2>4, <2>6
  <2> QED
    BY <2>2, <2>7, <2>8 DEF Recent
<1> QED
  BY <1>1, <1>4, <1>5, LengthAssumption

LEMMA InitHistory == Init => History
BY LengthAssumption DEF Init, History, StatusIsRecentHistory, CurrentIsObject

LEMMA NextHistory == TypeOK /\ Order /\ History /\ [Next]_vars => History'
<1> SUFFICES ASSUME TypeOK, Order, History, [Next]_vars PROVE History'
  OBVIOUS
<1>a. sloDesc.version \in Nat /\ \A j \in Job : slo[j].version \in Nat /\ slo[j].version <= sloDesc.version
  BY DEF TypeOK, Object, Order, VersionsKnown
<1>b. ASSUME sloDesc' = sloDesc, published' = published, created' = created,
             \A j \in Job : \/ pc'[j] = pc[j] /\ slo'[j] = slo[j]
                            \/ pc'[j] \in {"idle", "get"}
                            \/ slo'[j] = sloDesc
                            \/ pc'[j] \in {"zero", "publish"} /\ pc[j] \in {"read", "zero"}
                               /\ slo'[j] = slo[j]
      PROVE  History'
  <2>1. StatusIsRecentHistory'
    BY <1>b DEF History, StatusIsRecentHistory
  <2>2. CurrentIsObject'
    BY <1>b DEF History, CurrentIsObject, Current
  <2> QED
    BY <2>1, <2>2 DEF History
<1>1. CASE Arrive
  BY <1>1, <1>b DEF Arrive, runs, server
<1>2. ASSUME NEW i \in Job, Tick(i) PROVE History'
  BY <1>2, <1>b DEF Tick, server, TypeOK
<1>3. ASSUME NEW i \in Job, Get(i) PROVE History'
  BY <1>3, <1>b DEF Get, Goto, server, TypeOK
<1>4. ASSUME NEW i \in Job, GetFails(i) \/ PublishFails(i) PROVE History'
  BY <1>4, <1>b DEF GetFails, PublishFails, Return, Goto, server, TypeOK
<1>5. ASSUME NEW i \in Job, Read(i) \/ Zero(i) PROVE History'
  BY <1>5, <1>b DEF Read, Zero, Goto, server, TypeOK
<1>6. ASSUME NEW i \in Job, Publish(i) PROVE History'
  <2> DEFINE m == [rate |-> Rate(window[i]), window |-> window[i]]
  <2>1. /\ published \in Seq(SUBSET Nat) /\ created \in 0..Len(published)
        /\ window[i] \in SUBSET (1..arrivals) /\ arrivals \in Nat
        /\ sloDesc.metrics \in Seq(Metric)
    <3>1. SUBSET (1..arrivals) \subseteq SUBSET Nat
      BY DEF TypeOK
    <3>2. published \in Seq(SUBSET Nat)
      BY <3>1, SeqGrows DEF TypeOK
    <3> QED
      BY <3>2 DEF TypeOK, Object
  <2>2. Rate(window[i]) \in Nat
    BY <2>1, RateIsNat
  <2>3. m \in Metric
    <3>1. window[i] \in SUBSET Nat
      BY <2>1
    <3> QED
      BY <2>2, <3>1 DEF Metric
  <2>4. slo[i] = sloDesc
    BY <1>6 DEF Publish, History, CurrentIsObject
  <2>5. /\ sloDesc'.metrics = Appended(sloDesc.metrics, m)
        /\ sloDesc'.version = sloDesc.version + 1
        /\ published' = Append(published, m.window)
        /\ created' = created
    BY <1>6, <2>4 DEF Publish
  <2>6. Recent(sloDesc.metrics, published, created)
    BY StatusIsRecent DEF History
  <2>7. Recent(sloDesc'.metrics, published', created')
    <3> HIDE DEF m
    <3> QED
      BY <2>1, <2>3, <2>5, <2>6, AppendedIsRecent
  <2>8. StatusIsRecentHistory'
    BY <2>7 DEF Recent, Older, StatusIsRecentHistory
  <2>9. CurrentIsObject'
    <3>1. pc'[i] = "idle" /\ \A j \in Job \ {i} : slo'[j] = slo[j]
      BY <1>6 DEF Publish, Return, Goto, TypeOK
    <3>2. \A j \in Job \ {i} : slo'[j].version # sloDesc'.version
      BY <1>a, <2>5, <3>1
    <3> QED
      BY <3>1, <3>2 DEF CurrentIsObject, Current
  <2> QED
    BY <2>8, <2>9 DEF History
<1>7. CASE Apply
  <2>1. sloDesc'.metrics = sloDesc.metrics /\ sloDesc'.version = sloDesc.version + 1
    BY <1>7 DEF Apply, TypeOK, Object
  <2>2. StatusIsRecentHistory'
    BY <1>7, <2>1 DEF Apply, History, StatusIsRecentHistory
  <2>3. CurrentIsObject'
    BY <1>7, <1>a, <2>1 DEF Apply, runs, CurrentIsObject, Current
  <2> QED
    BY <2>2, <2>3 DEF History
<1>8. CASE Recreate
  <2>1. /\ sloDesc'.metrics = <<>> /\ sloDesc'.version = sloDesc.version + 1
        /\ published' = published /\ created' = Len(published) /\ Len(published) \in Nat
    BY <1>8 DEF Recreate, TypeOK, Object
  <2>2. StatusIsRecentHistory'
    BY <2>1, LengthAssumption DEF StatusIsRecentHistory
  <2>3. CurrentIsObject'
    BY <1>8, <1>a, <2>1 DEF Recreate, runs, CurrentIsObject, Current
  <2> QED
    BY <2>2, <2>3 DEF History
<1>9. CASE Restart
  BY <1>9, <1>b DEF Restart
<1>10. CASE UNCHANGED vars
  BY <1>10, <1>b DEF vars
<1> QED
  BY <1>1, <1>2, <1>3, <1>4, <1>5, <1>6, <1>7, <1>8, <1>9, <1>10 DEF Next, Step

\* updateSLOEnforcement never overwrites a metric that another run put, nor leaves one out:
\* the status is the recent history, whatever runs overlap and whoever writes the SLODesc.
THEOREM StatusKeepsHistory == Spec => []StatusIsRecentHistory
<1>1. Init => TypeOK /\ Order /\ History
  BY InitType, InitOrder, InitHistory
<1>2. TypeOK /\ Order /\ History /\ [Next]_vars => TypeOK' /\ Order' /\ History'
  BY NextType, NextOrder, NextHistory
<1>3. History => StatusIsRecentHistory
  BY DEF History
<1> QED
  BY <1>1, <1>2, <1>3, PTL DEF Spec

--------------------------------------------------------------------------------
(* The counter.                                                            *)

\* The runs are finitely many, and so are the arrivals.
LEMMA Counted ==
    ASSUME TypeOK
    PROVE  /\ IsFiniteSet(Unzeroed) /\ Cardinality(Unzeroed) \in Nat
           /\ IsFiniteSet(inputTracking) /\ Cardinality(inputTracking) \in Nat
<1>1. IsFiniteSet(Unzeroed)
  BY JobAssumption, FS_Subset DEF Unzeroed
<1>2. IsFiniteSet(1..arrivals)
  BY FS_Interval DEF TypeOK
<1>3. IsFiniteSet(inputTracking)
  BY <1>2, FS_Subset DEF TypeOK
<1> QED
  BY <1>1, <1>3, FS_CardinalityType

\* A run more, or a run that gave up, is a load more.
LEMMA OneMoreLoad ==
    ASSUME NEW n \in Nat
    PROVE  Load * n \in Nat /\ Load * (n + 1) = Load * n + Load
BY BoundAssumption

LEMMA InitRate == Init => RateIsBounded
<1> SUFFICES ASSUME Init PROVE RateIsBounded
  OBVIOUS
<1>1. Unzeroed = {} /\ inputTracking = {} /\ sinceTick = 0 /\ missed = 0
  BY DEF Init, Unzeroed
<1> QED
  BY <1>1, FS_EmptySet, BoundAssumption DEF RateIsBounded

LEMMA NextRate == TypeOK /\ RateIsBounded /\ [Next]_vars => RateIsBounded'
<1> SUFFICES ASSUME TypeOK, RateIsBounded, [Next]_vars PROVE RateIsBounded'
  OBVIOUS
<1> DEFINE u == Cardinality(Unzeroed)
           n == Cardinality(inputTracking)
<1>a. /\ u \in Nat /\ n \in Nat /\ missed \in Nat /\ sinceTick \in Nat /\ sinceTick <= Load
      /\ Load \in Nat /\ n <= Load * (missed + u) + sinceTick
  BY Counted, BoundAssumption DEF TypeOK, RateIsBounded
<1>b. ASSUME Unzeroed' = Unzeroed, inputTracking' = inputTracking, sinceTick' = sinceTick,
             missed' = missed
      PROVE  RateIsBounded'
  BY <1>b DEF RateIsBounded
<1>c. ASSUME inputTracking' = {}, TypeOK' PROVE RateIsBounded'
  <2> DEFINE v == Cardinality(Unzeroed')
  <2>1. Cardinality(inputTracking') = 0
    BY <1>c, FS_EmptySet
  <2>2. v \in Nat /\ missed' \in Nat /\ sinceTick' \in Nat
    <3>1. IsFiniteSet(Unzeroed')
      BY JobAssumption, FS_Subset DEF Unzeroed
    <3> QED
      BY <3>1, <1>c, FS_CardinalityType DEF TypeOK
  <2>3. Load * (missed' + v) \in Nat
    <3> HIDE DEF v
    <3> QED
      BY <2>2, OneMoreLoad
  <2> QED
    BY <2>1, <2>2, <2>3 DEF RateIsBounded
<1>1. CASE Arrive
  <2>1. Unzeroed' = Unzeroed /\ missed' = missed /\ sinceTick' = sinceTick + 1
    BY <1>1 DEF Arrive, runs, Unzeroed
  <2>2. Cardinality(inputTracking') <= n + 1
    <3>1. IsFiniteSet(inputTracking)
      BY Counted
    <3>2. Cardinality(inputTracking \cup {arrivals + 1})
            = IF arrivals + 1 \in inputTracking THEN n ELSE n + 1
      BY <3>1, FS_AddElement
    <3> HIDE DEF n
    <3> QED
      BY <1>1, <3>2, <1>a DEF Arrive
  <2>3. Cardinality(inputTracking') \in Nat
    <3>1. TypeOK'
      BY NextType
    <3>2. IsFiniteSet(inputTracking) /\ inputTracking' = inputTracking \cup {arrivals + 1}
      BY <1>1, Counted DEF Arrive
    <3>3. IsFiniteSet(inputTracking')
      BY <3>2, FS_AddElement
    <3> QED
      BY <3>3, FS_CardinalityType
  <2> DEFINE w == Cardinality(inputTracking')
             x == Load * (missed + u)
  <2>4. x \in Nat
    <3> HIDE DEF u
    <3> QED
      BY <1>a, OneMoreLoad
  <2>5. w <= x + (sinceTick + 1)
    <3>1. n <= x + sinceTick /\ w <= n + 1 /\ w \in Nat
      BY <1>a, <2>2, <2>3
    <3> HIDE DEF w, x, n
    <3> QED
      BY <1>a, <2>4, <3>1
  <2> QED
    BY <2>1, <2>5 DEF RateIsBounded
<1>2. ASSUME NEW i \in Job, Tick(i) PROVE RateIsBounded'
  <2>1. Unzeroed' = Unzeroed \cup {i} /\ i \notin Unzeroed
    BY <1>2 DEF Tick, Unzeroed, TypeOK
  <2>2. Cardinality(Unzeroed') = u + 1
    BY <2>1, Counted, FS_AddElement
  <2>3. inputTracking' = inputTracking /\ missed' = missed /\ sinceTick' = 0
    BY <1>2 DEF Tick
  <2>4. n <= Load * (missed + (u + 1)) + 0
    <3> HIDE DEF u, n
    <3>1. missed + u \in Nat /\ missed + (u + 1) = (missed + u) + 1
      BY <1>a
    <3> DEFINE y == missed + u
    <3>2. Load * (y + 1) = Load * y + Load /\ Load * y \in Nat
      BY <3>1, OneMoreLoad
    <3> QED
      BY <3>1, <3>2, <1>a
  <2> QED
    BY <2>2, <2>3, <2>4 DEF RateIsBounded
<1>3. ASSUME NEW i \in Job, Get(i) \/ Read(i) PROVE RateIsBounded'
  <2>1. Unzeroed' = Unzeroed
    BY <1>3 DEF Get, Read, Goto, Unzeroed, TypeOK
  <2> QED
    BY <1>3, <1>b, <2>1 DEF Get, Read, counter
<1>4. ASSUME NEW i \in Job, GetFails(i) PROVE RateIsBounded'
  <2>1. Unzeroed' = Unzeroed \ {i} /\ i \in Unzeroed
    BY <1>4 DEF GetFails, Return, Goto, Unzeroed, TypeOK
  <2>2. Cardinality(Unzeroed') = u - 1
    BY <2>1, Counted, FS_RemoveElement
  <2>3. inputTracking' = inputTracking /\ missed' = missed + 1 /\ sinceTick' = sinceTick
    BY <1>4 DEF GetFails, counter
  <2>4. missed' + Cardinality(Unzeroed') = missed + u
    <3> HIDE DEF u
    <3> QED
      BY <2>2, <2>3, <1>a
  <2> QED
    BY <2>3, <2>4 DEF RateIsBounded
<1>5. ASSUME NEW i \in Job, Zero(i) PROVE RateIsBounded'
  BY <1>5, <1>c, NextType DEF Zero, Zeroed
<1>6. ASSUME NEW i \in Job, Publish(i) \/ PublishFails(i) PROVE RateIsBounded'
  <2>1. Unzeroed' = Unzeroed
    BY <1>6 DEF Publish, PublishFails, Return, Goto, Unzeroed, TypeOK
  <2> QED
    BY <1>6, <1>b, <2>1 DEF Publish, PublishFails, counter
<1>7. CASE Apply \/ Recreate \/ UNCHANGED vars
  <2>1. Unzeroed' = Unzeroed
    BY <1>7 DEF Apply, Recreate, runs, vars, Unzeroed
  <2> QED
    BY <1>7, <1>b, <2>1 DEF Apply, Recreate, counter, vars
<1>8. CASE Restart
  BY <1>8, <1>c, NextType DEF Restart
<1> QED
  BY <1>1, <1>2, <1>3, <1>4, <1>5, <1>6, <1>7, <1>8 DEF Next, Step

\* The rate updateSLOEnforcement publishes overstates the load only by the periods of the
\* runs that gave up or are late, however long the others hold it up.
THEOREM RatesAreBounded == Spec => []RateIsBounded
<1>1. Init => TypeOK /\ RateIsBounded
  BY InitType, InitRate
<1>2. TypeOK /\ RateIsBounded /\ [Next]_vars => TypeOK' /\ RateIsBounded'
  BY NextType, NextRate
<1> QED
  BY <1>1, <1>2, PTL DEF Spec
================================================================================
