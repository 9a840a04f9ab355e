----------------------------- MODULE PipelineProofs ----------------------------
(***************************************************************************)
(* First the observer alone (OrderMatcher), for every set of orders,       *)
(* reports and handlers, every number of deliveries, and restarts.  These  *)
(* proofs use no assumption of Pipeline.                                   *)
(*                                                                         *)
(* Then the workflow and the observer together, for any orders, functions, *)
(* handlers, losses and copies.  The invariant has a part about the        *)
(* workflow (every copy of an order has a number of its own, and carries a *)
(* mid timestamp for each function it has been through), a part about the  *)
(* reports (each is in one place of the observer), and a part about the    *)
(* turns in which the handlers take the reports of an order.  The accounts *)
(* of the observer hold here too: every step is a step of the observer or  *)
(* leaves it alone.                                                        *)
(***************************************************************************)
EXTENDS Pipeline, FiniteSetTheorems, TLAPS

--------------------------------------------------------------------------------
(* The observer alone.                                                     *)


\* A handler holds a report exactly while it is busy, and a partner once it has loaded one.
HoldsReports ==
    \A h \in Handler :
        /\ pc[h] # "idle" => msg[h] \in Report
        /\ pc[h] \in {"record", "delete"} => old[h] \in Report

TypeInv == TypeOK /\ HoldsReports

LEMMA ReportFields ==
    ASSUME NEW r \in Report
    PROVE  /\ r.order \in Order /\ r.stamp \in Nat
           /\ r.mids \in Nat /\ r # NoReport
BY ReportAssumption

\* The latency of two reports is a number of milliseconds, whichever came first.
LEMMA LatencyIsNat ==
    ASSUME NEW a \in Report, NEW b \in Report
    PROVE  Latency(a, b) \in Nat /\ Latency(a, b) = Latency(b, a)
BY ReportFields, ReportAssumption DEF Latency

LEMMA RestartTypes ==
    ASSUME deliveries' \in [Report -> 0..MaxDeliveries], Restart
    PROVE  TypeInv'
BY DEF Restart, TypeInv, TypeOK, HoldsReports, Idle, Nobody, Nothing, Zero, Unmeasured, Control

LEMMA DeliverTypes ==
    ASSUME TypeOK, NEW h \in Handler, NEW r \in Report, Deliver(h, r)
    PROVE  deliveries' \in [Report -> 0..MaxDeliveries]
BY BoundAssumption DEF TypeOK, Deliver

LEMMA InitTypes == Init => TypeInv
BY BoundAssumption DEF Init, TypeInv, TypeOK, HoldsReports, Idle, Nobody, Nothing, Zero, Unmeasured, Control

LEMMA NextTypes == TypeInv /\ [Next]_vars => TypeInv'
<1> SUFFICES ASSUME TypeInv, [Next]_vars PROVE TypeInv'
  OBVIOUS
<1> USE DEF TypeInv, TypeOK, HoldsReports, Goto, Control
<1>1. CASE UNCHANGED vars
  BY <1>1 DEF vars
<1>2. ASSUME NEW h \in Handler, NEW r \in Report, Skip(h, r) PROVE TypeInv'
  BY <1>2, DeliverTypes DEF Skip, handlers, memory
<1>3. ASSUME NEW h \in Handler, NEW r \in Report, Poison(h, r) PROVE TypeInv'
  BY <1>3, DeliverTypes, RestartTypes DEF Poison
<1>4. ASSUME NEW h \in Handler, NEW r \in Report, Receive(h, r) PROVE TypeInv'
  <2>1. deliveries' \in [Report -> 0..MaxDeliveries] /\ r.order \in Order
    BY <1>4, DeliverTypes, ReportFields DEF Receive
  <2>2. arrived' \in [Order -> Nat]
    BY <1>4, <2>1 DEF Receive
  <2>3. UNCHANGED <<old, pendingOrders, counted, latencyTracking>>
    BY <1>4 DEF Receive, memory
  <2>4. pc' = [pc EXCEPT ![h] = "load"] /\ msg' = [msg EXCEPT ![h] = r]
    BY <1>4 DEF Receive
  <2> QED
    BY <2>1, <2>2, <2>3, <2>4
<1>5. ASSUME NEW h \in Handler, LoadMiss(h) PROVE TypeInv'
  BY <1>5 DEF LoadMiss, channel, memory
<1>6. ASSUME NEW h \in Handler, LoadHit(h) PROVE TypeInv'
  <2>1. pendingOrders[msg[h].order] \in Report
    BY <1>6, ReportFields DEF LoadHit
  <2> QED
    BY <1>6, <2>1 DEF LoadHit, channel, memory
<1>7. ASSUME NEW h \in Handler, LoadPanic(h) PROVE TypeInv'
  BY <1>7, RestartTypes DEF LoadPanic, channel
<1>8. ASSUME NEW h \in Handler, Count(h) PROVE TypeInv'
  BY <1>8, ReportFields DEF Count, channel
<1>9. ASSUME NEW h \in Handler, Store(h) PROVE TypeInv'
  BY <1>9, ReportFields DEF Store, Stored, Return, channel
<1>10. ASSUME NEW h \in Handler, Record(h) PROVE TypeInv'
  <2>1. Latency(msg[h], old[h]) \in Nat /\ msg[h].order \in Order
    BY <1>10, ReportFields, LatencyIsNat DEF Record
  <2>2. latencyTracking' \in [Order -> Seq(Nat)]
    BY <1>10, <2>1 DEF Record
  <2> QED
    BY <1>10, <2>2 DEF Record, channel
<1>11. ASSUME NEW h \in Handler, Delete(h) PROVE TypeInv'
  BY <1>11, ReportFields DEF Delete, Deleted, Return, channel
<1>12. CASE Kill
  BY <1>12, RestartTypes DEF Kill, channel
<1> QED
  BY <1>1, <1>2, <1>3, <1>4, <1>5, <1>6, <1>7, <1>8, <1>9, <1>10, <1>11, <1>12 DEF Next, Step

\* The type invariant: what each variable of the handler and of the observer's memory holds.
THEOREM TypeCorrect == Spec => []TypeOK
<1>1. TypeInv => TypeOK
  BY DEF TypeInv
<1> QED
  BY InitTypes, NextTypes, <1>1, PTL DEF Spec

--------------------------------------------------------------------------------
(* Counting the handlers at a step of the handler.                         *)

\* 1 when handler h holds a report of o and its next step is one of steps.
Here(h, steps, o) == IF pc[h] \in steps /\ msg[h].order = o THEN 1 ELSE 0

LEMMA AtFinite ==
    ASSUME NEW steps, NEW o
    PROVE  /\ IsFiniteSet(At(steps, o))
           /\ Cardinality(At(steps, o)) \in Nat
           /\ Cardinality(At(steps, o)) <= Cardinality(Handler)
           /\ Cardinality(Handler) \in Nat
<1>1. At(steps, o) \subseteq Handler
  BY DEF At
<1> QED
  BY <1>1, HandlerAssumption, FS_Subset, FS_CardinalityType

\* Moving one handler changes the count by what that handler adds and takes away.
LEMMA AtMove ==
    ASSUME NEW steps, NEW o, NEW h \in Handler,
           \A g \in Handler \ {h} : pc'[g] = pc[g] /\ msg'[g] = msg[g]
    PROVE  Cardinality(At(steps, o)') =
               Cardinality(At(steps, o)) + Here(h, steps, o)' - Here(h, steps, o)
<1> DEFINE S == At(steps, o)
           T == At(steps, o)'
           Rest == {g \in Handler \ {h} : pc[g] \in steps /\ msg[g].order = o}
<1>1. IsFiniteSet(Rest) /\ h \notin Rest /\ Cardinality(Rest) \in Nat
  BY HandlerAssumption, FS_Subset, FS_CardinalityType
<1>2. Cardinality(Rest \cup {h}) = Cardinality(Rest) + 1
  BY <1>1, FS_AddElement
<1>3. Cardinality(S) = Cardinality(Rest) + Here(h, steps, o)
  <2>1. CASE pc[h] \in steps /\ msg[h].order = o
    <3>1. S = Rest \cup {h}
      BY <2>1 DEF At
    <3> QED
      BY <1>1, <1>2, <2>1, <3>1 DEF Here
  <2>2. CASE ~(pc[h] \in steps /\ msg[h].order = o)
    <3>1. S = Rest
      BY <2>2 DEF At
    <3> QED
      BY <1>1, <2>2, <3>1 DEF Here
  <2> QED
    BY <2>1, <2>2
<1>4. Cardinality(T) = Cardinality(Rest) + Here(h, steps, o)'
  <2>1. CASE pc'[h] \in steps /\ msg'[h].order = o
    <3>1. T = Rest \cup {h}
      BY <2>1 DEF At
    <3> QED
      BY <1>1, <1>2, <2>1, <3>1 DEF Here
  <2>2. CASE ~(pc'[h] \in steps /\ msg'[h].order = o)
    <3>1. T = Rest
      BY <2>2 DEF At
    <3> QED
      BY <1>1, <2>2, <3>1 DEF Here
  <2> QED
    BY <2>1, <2>2
<1>5. Here(h, steps, o) \in {0, 1} /\ Here(h, steps, o)' \in {0, 1}
  BY DEF Here
<1> QED
  BY <1>1, <1>3, <1>4, <1>5

\* No handler is anywhere when the process starts.
LEMMA AtIdle ==
    ASSUME NEW steps, NEW o, "idle" \notin steps
    PROVE  /\ pc = Idle => Cardinality(At(steps, o)) = 0
           /\ pc' = Idle => Cardinality(At(steps, o)') = 0
<1>1. pc = Idle => At(steps, o) = {}
  BY DEF At, Idle
<1>2. pc' = Idle => At(steps, o)' = {}
  BY DEF At, Idle
<1> QED
  BY <1>1, <1>2, FS_EmptySet

--------------------------------------------------------------------------------
(* The accounts: what the process received against what it counted and     *)
(* measured.                                                               *)

Undec(o) == Cardinality(At({"load", "count", "record"}, o))
Recording(o) == Cardinality(At({"record"}, o))
Matched(o) == Cardinality(At({"record", "delete"}, o))
Storing(o) == Cardinality(At({"store"}, o))
Handlers == Cardinality(Handler)

\* The measurements that n inputs pay for.
Owed(n) == Handlers * n

\* While the report of o is pending each handler that has not matched it yet still may,
\* once: it deletes the entry before it takes another report.
Chances(o) == IF pendingOrders[o] = NoReport THEN 0 ELSE Handlers - Matched(o)

\* The inductive strengthening of MeasuredPerInput: the measurements made, those under
\* way and those a pending or a nearly stored report may still allow are paid for by the
\* inputs counted, |Handler| for each.
MeasureBudget ==
    \A o \in Order :
        Len(latencyTracking[o]) + Recording(o) + Chances(o) + Owed(Storing(o))
            <= Owed(counted[o])

Accounts == Conservation /\ MeasureBudget

LEMMA CountsAreNat ==
    ASSUME NEW o
    PROVE  /\ Undec(o) \in Nat /\ Recording(o) \in Nat
           /\ Matched(o) \in Nat /\ Storing(o) \in Nat
           /\ Matched(o) <= Handlers /\ Handlers \in Nat
BY AtFinite DEF Undec, Recording, Matched, Storing, Handlers

LEMMA OwedSteps ==
    ASSUME NEW n \in Nat
    PROVE  /\ Owed(n) \in Nat
           /\ Owed(0) = 0
           /\ Owed(n + 1) = Owed(n) + Handlers
           /\ n > 0 => Owed(n - 1) = Owed(n) - Handlers
BY CountsAreNat DEF Owed

LEMMA OwedIsRigid == /\ \A o : Owed(Storing(o))' = Owed(Storing(o)')
                     /\ \A o : Owed(counted[o])' = Owed(counted'[o])
                     /\ Handlers' = Handlers
BY DEF Owed, Handlers

\* The counts of o when one handler moves: it joins those at the steps, leaves them, or neither.
LEMMA Moved ==
    ASSUME NEW steps, NEW o, NEW h \in Handler,
           \A g \in Handler \ {h} : pc'[g] = pc[g] /\ msg'[g] = msg[g]
    PROVE  LET before == pc[h] \in steps /\ msg[h].order = o
               after == pc'[h] \in steps /\ msg'[h].order = o
           IN  /\ (before <=> after) => Cardinality(At(steps, o)') = Cardinality(At(steps, o))
               /\ (~before /\ after) => Cardinality(At(steps, o)') = Cardinality(At(steps, o)) + 1
               /\ (before /\ ~after) => Cardinality(At(steps, o)') = Cardinality(At(steps, o)) - 1
<1>1. Cardinality(At(steps, o)') = Cardinality(At(steps, o)) + Here(h, steps, o)' - Here(h, steps, o)
  BY AtMove
<1>2. Cardinality(At(steps, o)) \in Nat
  BY AtFinite
<1> QED
  BY <1>1, <1>2 DEF Here

\* The accounts of one order.
Balanced(o) == arrived[o] = counted[o] + Len(latencyTracking[o]) + Undec(o)
Paid(o) ==
    Len(latencyTracking[o]) + Recording(o) + Chances(o) + Owed(Storing(o))
        <= Owed(counted[o])

LEMMA AccountsByOrder ==
    /\ Accounts <=> \A o \in Order : Balanced(o) /\ Paid(o)
    /\ Accounts' <=> \A o \in Order : Balanced(o)' /\ Paid(o)'
BY DEF Accounts, Conservation, MeasureBudget, Balanced, Paid, Undec, Undecided

LEMMA EmptyCounts ==
    ASSUME NEW o
    PROVE  /\ pc = Idle => Undec(o) = 0 /\ Recording(o) = 0 /\ Matched(o) = 0 /\ Storing(o) = 0
           /\ pc' = Idle => Undec(o)' = 0 /\ Recording(o)' = 0 /\ Matched(o)' = 0 /\ Storing(o)' = 0
BY AtIdle DEF Undec, Recording, Matched, Storing

LEMMA InitAccounts == Init => Accounts
<1> SUFFICES ASSUME Init, NEW o \in Order PROVE Balanced(o) /\ Paid(o)
  BY AccountsByOrder
<1>1. Undec(o) = 0 /\ Recording(o) = 0 /\ Matched(o) = 0 /\ Storing(o) = 0
  BY EmptyCounts DEF Init
<1>2. arrived[o] = 0 /\ counted[o] = 0 /\ latencyTracking[o] = <<>> /\ pendingOrders[o] = NoReport
  BY DEF Init, Zero, Unmeasured, Nothing
<1> QED
  BY <1>1, <1>2, OwedSteps DEF Balanced, Paid, Chances

LEMMA RestartAccounts == Restart => Accounts'
<1> SUFFICES ASSUME Restart, NEW o \in Order PROVE Balanced(o)' /\ Paid(o)'
  BY AccountsByOrder
<1>1. Undec(o)' = 0 /\ Recording(o)' = 0 /\ Matched(o)' = 0 /\ Storing(o)' = 0
  BY EmptyCounts DEF Restart
<1>2. arrived'[o] = 0 /\ counted'[o] = 0 /\ latencyTracking'[o] = <<>> /\ pendingOrders'[o] = NoReport
  BY DEF Restart, Zero, Unmeasured, Nothing
<1> QED
  BY <1>1, <1>2, OwedSteps, OwedIsRigid DEF Balanced, Paid, Chances

SameCounts(o) == /\ Undec(o)' = Undec(o) /\ Recording(o)' = Recording(o)
                 /\ Matched(o)' = Matched(o) /\ Storing(o)' = Storing(o)

\* The counts of the other orders do not change.
LEMMA OtherOrders ==
    ASSUME NEW o, NEW h \in Handler,
           \A g \in Handler \ {h} : pc'[g] = pc[g] /\ msg'[g] = msg[g],
           pc[h] = "idle" \/ msg[h].order # o,
           pc'[h] = "idle" \/ msg'[h].order # o
    PROVE  SameCounts(o)
<1>1. ASSUME NEW steps, "idle" \notin steps
      PROVE  Cardinality(At(steps, o)') = Cardinality(At(steps, o))
  BY <1>1, Moved
<1>2. Undec(o)' = Undec(o)
  BY <1>1 DEF Undec
<1>3. Recording(o)' = Recording(o)
  BY <1>1 DEF Recording
<1>4. Matched(o)' = Matched(o)
  BY <1>1 DEF Matched
<1>5. Storing(o)' = Storing(o)
  BY <1>1 DEF Storing
<1> QED
  BY <1>2, <1>3, <1>4, <1>5 DEF SameCounts

\* An order none of whose accounts changes stays balanced and paid.
LEMMA SameAccounts ==
    ASSUME NEW o, Balanced(o), Paid(o), SameCounts(o),
           arrived'[o] = arrived[o], counted'[o] = counted[o],
           latencyTracking'[o] = latencyTracking[o], pendingOrders'[o] = pendingOrders[o]
    PROVE  Balanced(o)' /\ Paid(o)'
BY OwedIsRigid DEF SameCounts, Balanced, Paid, Chances

LEMMA NextAccounts == TypeInv /\ Accounts /\ [Next]_vars => Accounts'
<1> SUFFICES ASSUME TypeInv, Accounts, [Next]_vars PROVE Accounts'
  OBVIOUS
<1>t. TypeOK /\ HoldsReports
  BY DEF TypeInv
<1>n. \A o \in Order :
        /\ arrived[o] \in Nat /\ counted[o] \in Nat /\ Len(latencyTracking[o]) \in Nat
        /\ Undec(o) \in Nat /\ Recording(o) \in Nat /\ Matched(o) \in Nat /\ Storing(o) \in Nat
        /\ Matched(o) <= Handlers /\ Handlers \in Nat
        /\ Owed(Storing(o)) \in Nat /\ Owed(counted[o]) \in Nat
  <2> SUFFICES ASSUME NEW o \in Order
               PROVE  /\ arrived[o] \in Nat /\ counted[o] \in Nat /\ Len(latencyTracking[o]) \in Nat
                      /\ Owed(Storing(o)) \in Nat /\ Owed(counted[o]) \in Nat
    BY CountsAreNat
  <2>1. arrived[o] \in Nat /\ counted[o] \in Nat /\ latencyTracking[o] \in Seq(Nat)
    BY <1>t DEF TypeOK
  <2>2. Len(latencyTracking[o]) \in Nat
    BY <2>1
  <2>3. Storing(o) \in Nat
    BY CountsAreNat
  <2>4. Owed(Storing(o)) \in Nat
    BY <2>3, OwedSteps
  <2>5. Owed(counted[o]) \in Nat
    BY <2>1, OwedSteps
  <2> QED
    BY <2>1, <2>2, <2>4, <2>5
<1>1. ASSUME UNCHANGED <<pc, msg, memory, arrived>> PROVE Accounts'
  BY <1>1 DEF Accounts, Conservation, MeasureBudget, memory, Undecided, At, Recording,
      Chances, Matched, Storing, Handlers, Owed
<1>2. ASSUME NEW h \in Handler, NEW r \in Report, Receive(h, r) PROVE Accounts'
  <2> SUFFICES ASSUME NEW o \in Order PROVE Balanced(o)' /\ Paid(o)'
    BY AccountsByOrder
  <2>0. Balanced(o) /\ Paid(o)
    BY AccountsByOrder
  <2>n. arrived[o] \in Nat /\ counted[o] \in Nat /\ Len(latencyTracking[o]) \in Nat /\ Undec(o) \in Nat
    BY <1>n
  <2>1. /\ pc[h] = "idle" /\ pc'[h] = "load" /\ msg'[h] = r
        /\ \A g \in Handler \ {h} : pc'[g] = pc[g] /\ msg'[g] = msg[g]
    BY <1>2, <1>t DEF Receive, Deliver, Goto, TypeOK
  <2>2. UNCHANGED <<pendingOrders, counted, latencyTracking>>
    BY <1>2 DEF Receive, memory
  <2>3. CASE r.order # o
    <3>1. SameCounts(o)
      BY <2>1, <2>3, OtherOrders
    <3>2. arrived'[o] = arrived[o]
      BY <1>2, <1>t, <2>3, ReportFields DEF Receive, TypeOK
    <3> QED
      BY <2>0, <2>2, <3>1, <3>2, SameAccounts
  <2>4. CASE r.order = o
    <3>1. Undec(o)' = Undec(o) + 1
      BY <2>1, <2>4, Moved DEF Undec
    <3>2. Recording(o)' = Recording(o) /\ Matched(o)' = Matched(o) /\ Storing(o)' = Storing(o)
      BY <2>1, Moved DEF Recording, Matched, Storing
    <3>3. arrived'[o] = arrived[o] + 1
      BY <1>2, <1>t, <2>4, ReportFields DEF Receive, TypeOK
    <3>4. Balanced(o)'
      BY <2>n, <2>0, <2>2, <3>1, <3>3 DEF Balanced
    <3>5. Paid(o)'
      BY <2>0, <2>2, <3>2, OwedIsRigid DEF Paid, Chances
    <3> QED
      BY <3>4, <3>5
  <2> QED
    BY <2>3, <2>4
<1>3. ASSUME NEW h \in Handler, LoadMiss(h) PROVE Accounts'
  <2> SUFFICES ASSUME NEW o \in Order PROVE Balanced(o)' /\ Paid(o)'
    BY AccountsByOrder
  <2>0. Balanced(o) /\ Paid(o)
    BY AccountsByOrder
  <2>n. arrived[o] \in Nat /\ counted[o] \in Nat /\ Len(latencyTracking[o]) \in Nat /\ Undec(o) \in Nat
    BY <1>n
  <2>1. /\ pc[h] = "load" /\ pc'[h] = "count" /\ msg'[h] = msg[h]
        /\ \A g \in Handler \ {h} : pc'[g] = pc[g] /\ msg'[g] = msg[g]
    BY <1>3, <1>t DEF LoadMiss, Goto, TypeOK
  <2>2. UNCHANGED <<pendingOrders, counted, latencyTracking, arrived>>
    BY <1>3 DEF LoadMiss, memory
  <2>3. CASE msg[h].order # o
    <3>1. SameCounts(o)
      BY <2>1, <2>3, OtherOrders
    <3> QED
      BY <2>0, <2>2, <3>1, SameAccounts
  <2>4. CASE msg[h].order = o
    <3>1. Undec(o)' = Undec(o)
      BY <2>1, <2>4, Moved DEF Undec
    <3>2. Recording(o)' = Recording(o) /\ Matched(o)' = Matched(o) /\ Storing(o)' = Storing(o)
      BY <2>1, Moved DEF Recording, Matched, Storing
    <3> QED
      BY <2>0, <2>2, <3>1, <3>2, SameAccounts DEF SameCounts
  <2> QED
    BY <2>3, <2>4
<1>4. ASSUME NEW h \in Handler, LoadHit(h) PROVE Accounts'
  <2> SUFFICES ASSUME NEW o \in Order PROVE Balanced(o)' /\ Paid(o)'
    BY AccountsByOrder
  <2>0. Balanced(o) /\ Paid(o)
    BY AccountsByOrder
  <2>n. arrived[o] \in Nat /\ counted[o] \in Nat /\ Len(latencyTracking[o]) \in Nat /\ Undec(o) \in Nat
    BY <1>n
  <2>1. /\ pc[h] = "load" /\ pc'[h] = "record" /\ msg'[h] = msg[h]
        /\ \A g \in Handler \ {h} : pc'[g] = pc[g] /\ msg'[g] = msg[g]
    BY <1>4, <1>t DEF LoadHit, Goto, TypeOK
  <2>2. UNCHANGED <<pendingOrders, counted, latencyTracking, arrived>>
    BY <1>4 DEF LoadHit, memory
  <2>3. CASE msg[h].order # o
    <3>1. SameCounts(o)
      BY <2>1, <2>3, OtherOrders
    <3> QED
      BY <2>0, <2>2, <3>1, SameAccounts
  <2>4. CASE msg[h].order = o
    <3>1. Undec(o)' = Undec(o)
      BY <2>1, <2>4, Moved DEF Undec
    <3>2. Recording(o)' = Recording(o) + 1
      BY <2>1, <2>4, Moved DEF Recording
    <3>3. Matched(o)' = Matched(o) + 1
      BY <2>1, <2>4, Moved DEF Matched
    <3>4. Storing(o)' = Storing(o)
      BY <2>1, Moved DEF Storing
    <3>5. pendingOrders[o] # NoReport
      BY <1>4, <2>4 DEF LoadHit
    <3>6. Balanced(o)'
      BY <2>0, <2>2, <3>1 DEF Balanced
    <3>7. Chances(o)' = Chances(o) - 1 /\ Chances(o) \in Nat
      BY <1>n, <2>2, <3>3, <3>5, OwedIsRigid DEF Chances
    <3>8. Recording(o)' + Chances(o)' = Recording(o) + Chances(o)
      BY <1>n, <3>2, <3>7
    <3> DEFINE len == Len(latencyTracking[o])
    <3>9. len + Recording(o) + Chances(o) = len + Recording(o)' + Chances(o)'
      <4>1. /\ len \in Nat /\ Recording(o) \in Nat /\ Recording(o)' \in Nat
            /\ Chances(o) \in Nat /\ Chances(o)' \in Int
        BY <1>n, <3>2, <3>7
      <4> HIDE DEF len
      <4> QED
        BY <3>8, <4>1
    <3>10. Paid(o)'
      BY <2>0, <2>2, <3>4, <3>9, OwedIsRigid DEF Paid
    <3> QED
      BY <3>6, <3>10
  <2> QED
    BY <2>3, <2>4
<1>5. ASSUME NEW h \in Handler, Count(h) PROVE Accounts'
  <2> SUFFICES ASSUME NEW o \in Order PROVE Balanced(o)' /\ Paid(o)'
    BY AccountsByOrder
  <2>0. Balanced(o) /\ Paid(o)
    BY AccountsByOrder
  <2>n. arrived[o] \in Nat /\ counted[o] \in Nat /\ Len(latencyTracking[o]) \in Nat /\ Undec(o) \in Nat
    BY <1>n
  <2>1. /\ pc[h] = "count" /\ pc'[h] = "store" /\ msg'[h] = msg[h]
        /\ \A g \in Handler \ {h} : pc'[g] = pc[g] /\ msg'[g] = msg[g]
    BY <1>5, <1>t DEF Count, Goto, TypeOK
  <2>2. UNCHANGED <<pendingOrders, latencyTracking, arrived>>
    BY <1>5 DEF Count
  <2>3. CASE msg[h].order # o
    <3>1. SameCounts(o)
      BY <2>1, <2>3, OtherOrders
    <3>2. counted'[o] = counted[o]
      BY <1>5, <1>t, <2>3 DEF Count, TypeOK
    <3> QED
      BY <2>0, <2>2, <3>1, <3>2, SameAccounts
  <2>4. CASE msg[h].order = o
    <3>1. Undec(o)' = Undec(o) - 1
      BY <2>1, <2>4, Moved DEF Undec
    <3>2. Recording(o)' = Recording(o) /\ Matched(o)' = Matched(o)
      BY <2>1, Moved DEF Recording, Matched
    <3>3. Storing(o)' = Storing(o) + 1
      BY <2>1, <2>4, Moved DEF Storing
    <3>4. counted'[o] = counted[o] + 1
      BY <1>5, <1>t, <2>4 DEF Count, TypeOK
    <3>9. counted'[o] + Undec(o)' = counted[o] + Undec(o) /\ Undec(o)' \in Int
      BY <2>n, <3>1, <3>4
    <3>5. Balanced(o)'
      <4> DEFINE len == Len(latencyTracking[o])
      <4>1. arrived[o] = counted[o] + len + Undec(o) /\ len' = len /\ len \in Nat
        BY <2>n, <2>0, <2>2 DEF Balanced
      <4>2. counted'[o] \in Nat /\ counted[o] \in Nat /\ Undec(o) \in Nat
        BY <2>n, <3>4
      <4>3. arrived[o] = counted'[o] + len + Undec(o)'
        <5> HIDE DEF len
        <5> QED
          BY <3>9, <4>1, <4>2
      <4> QED
        BY <2>2, <4>1, <4>3 DEF Balanced
    <3>6. Owed(Storing(o)') = Owed(Storing(o)) + Handlers /\ Owed(counted'[o]) = Owed(counted[o]) + Handlers
      BY <1>n, <3>3, <3>4, OwedSteps
    <3>7. Chances(o)' = Chances(o) /\ Chances(o) \in Nat
      BY <1>n, <2>2, <3>2, OwedIsRigid DEF Chances
    <3> DEFINE made == Len(latencyTracking[o]) + Recording(o) + Chances(o)
    <3>8. made + Owed(Storing(o)) <= Owed(counted[o]) /\ made \in Nat
      BY <1>n, <2>0, <3>7 DEF Paid
    <3>11. made + Owed(Storing(o)') <= Owed(counted'[o])
      <4> HIDE DEF made
      <4> QED
        BY <1>n, <3>6, <3>8
    <3>10. Paid(o)'
      BY <2>2, <3>2, <3>7, <3>11, OwedIsRigid DEF Paid
    <3> QED
      BY <3>5, <3>10
  <2> QED
    BY <2>3, <2>4
<1>6. ASSUME NEW h \in Handler, Store(h) PROVE Accounts'
  <2> SUFFICES ASSUME NEW o \in Order PROVE Balanced(o)' /\ Paid(o)'
    BY AccountsByOrder
  <2>0. Balanced(o) /\ Paid(o)
    BY AccountsByOrder
  <2>n. arrived[o] \in Nat /\ counted[o] \in Nat /\ Len(latencyTracking[o]) \in Nat /\ Undec(o) \in Nat
    BY <1>n
  <2>1. /\ pc[h] = "store" /\ pc'[h] = "idle"
        /\ \A g \in Handler \ {h} : pc'[g] = pc[g] /\ msg'[g] = msg[g]
    BY <1>6, <1>t DEF Store, Return, Goto, TypeOK
  <2>2. UNCHANGED <<counted, latencyTracking, arrived>>
    BY <1>6 DEF Store
  <2>3. CASE msg[h].order # o
    <3>1. SameCounts(o)
      BY <2>1, <2>3, OtherOrders
    <3>2. pendingOrders'[o] = pendingOrders[o]
      BY <1>6, <1>t, <2>3 DEF Store, Stored, TypeOK
    <3> QED
      BY <2>0, <2>2, <3>1, <3>2, SameAccounts
  <2>4. CASE msg[h].order = o
    <3>1. Undec(o)' = Undec(o)
      BY <2>1, Moved DEF Undec
    <3>2. Recording(o)' = Recording(o) /\ Matched(o)' = Matched(o)
      BY <2>1, Moved DEF Recording, Matched
    <3>3. Storing(o)' = Storing(o) - 1 /\ Storing(o) > 0
      <4>1. Storing(o)' = Storing(o) - 1
        BY <2>1, <2>4, Moved DEF Storing
      <4>2. Storing(o)' \in Nat
        BY HandlerAssumption, FS_Subset, FS_CardinalityType DEF Storing, At
      <4> QED
        BY <1>n, <4>1, <4>2
    <3>4. Balanced(o)'
      BY <2>0, <2>2, <3>1 DEF Balanced
    <3>5. Owed(Storing(o)') = Owed(Storing(o)) - Handlers
      BY <1>n, <3>3, OwedSteps
    <3>6. Chances(o)' \in Nat /\ Chances(o) \in Nat /\ Chances(o)' <= Handlers
      BY <1>n, <3>2, OwedIsRigid DEF Chances
    <3> DEFINE made == Len(latencyTracking[o]) + Recording(o)
    <3>7. made + Chances(o) + Owed(Storing(o)) <= Owed(counted[o]) /\ made \in Nat
      BY <1>n, <2>0 DEF Paid
    <3>8. made + Chances(o)' + Owed(Storing(o)') <= Owed(counted[o])
      <4> HIDE DEF made
      <4> QED
        BY <1>n, <3>5, <3>6, <3>7
    <3>9. Paid(o)'
      BY <2>2, <3>2, <3>8, OwedIsRigid DEF Paid
    <3> QED
      BY <3>4, <3>9
  <2> QED
    BY <2>3, <2>4
<1>7. ASSUME NEW h \in Handler, Record(h) PROVE Accounts'
  <2> SUFFICES ASSUME NEW o \in Order PROVE Balanced(o)' /\ Paid(o)'
    BY AccountsByOrder
  <2>0. Balanced(o) /\ Paid(o)
    BY AccountsByOrder
  <2>n. arrived[o] \in Nat /\ counted[o] \in Nat /\ Len(latencyTracking[o]) \in Nat /\ Undec(o) \in Nat
    BY <1>n
  <2>1. /\ pc[h] = "record" /\ pc'[h] = "delete" /\ msg'[h] = msg[h]
        /\ \A g \in Handler \ {h} : pc'[g] = pc[g] /\ msg'[g] = msg[g]
    BY <1>7, <1>t DEF Record, Goto, TypeOK
  <2>2. UNCHANGED <<pendingOrders, counted, arrived>>
    BY <1>7 DEF Record
  <2>3. CASE msg[h].order # o
    <3>1. SameCounts(o)
      BY <2>1, <2>3, OtherOrders
    <3>2. latencyTracking'[o] = latencyTracking[o]
      BY <1>7, <1>t, <2>3 DEF Record, TypeOK
    <3> QED
      BY <2>0, <2>2, <3>1, <3>2, SameAccounts
  <2>4. CASE msg[h].order = o
    <3>1. Undec(o)' = Undec(o) - 1
      BY <2>1, <2>4, Moved DEF Undec
    <3>2. Recording(o)' = Recording(o) - 1
      BY <2>1, <2>4, Moved DEF Recording
    <3>3. Matched(o)' = Matched(o) /\ Storing(o)' = Storing(o)
      BY <2>1, Moved DEF Matched, Storing
    <3>4. Len(latencyTracking'[o]) = Len(latencyTracking[o]) + 1
      <4>1. Latency(msg[h], old[h]) \in Nat
        BY <1>t, <2>1, LatencyIsNat DEF HoldsReports
      <4>2. latencyTracking'[o] = Append(latencyTracking[o], Latency(msg[h], old[h]))
        BY <1>7, <1>t, <2>4 DEF Record, TypeOK
      <4> QED
        BY <1>t, <4>1, <4>2 DEF TypeOK
    <3>5. Balanced(o)'
      BY <2>n, <2>0, <2>2, <3>1, <3>4 DEF Balanced
    <3>6. Len(latencyTracking'[o]) + Recording(o)' = Len(latencyTracking[o]) + Recording(o)
      BY <1>n, <3>2, <3>4
    <3>7. Paid(o)'
      BY <2>0, <2>2, <3>3, <3>6, OwedIsRigid DEF Paid, Chances
    <3> QED
      BY <3>5, <3>7
  <2> QED
    BY <2>3, <2>4
<1>8. ASSUME NEW h \in Handler, Delete(h) PROVE Accounts'
  <2> SUFFICES ASSUME NEW o \in Order PROVE Balanced(o)' /\ Paid(o)'
    BY AccountsByOrder
  <2>0. Balanced(o) /\ Paid(o)
    BY AccountsByOrder
  <2>n. arrived[o] \in Nat /\ counted[o] \in Nat /\ Len(latencyTracking[o]) \in Nat /\ Undec(o) \in Nat
    BY <1>n
  <2>1. /\ pc[h] = "delete" /\ pc'[h] = "idle"
        /\ \A g \in Handler \ {h} : pc'[g] = pc[g] /\ msg'[g] = msg[g]
    BY <1>8, <1>t DEF Delete, Return, Goto, TypeOK
  <2>2. UNCHANGED <<counted, latencyTracking, arrived>>
    BY <1>8 DEF Delete
  <2>3. CASE msg[h].order # o
    <3>1. SameCounts(o)
      BY <2>1, <2>3, OtherOrders
    <3>2. pendingOrders'[o] = pendingOrders[o]
      BY <1>8, <1>t, <2>3 DEF Delete, Deleted, TypeOK
    <3> QED
      BY <2>0, <2>2, <3>1, <3>2, SameAccounts
  <2>4. CASE msg[h].order = o
    <3>1. Undec(o)' = Undec(o) /\ Recording(o)' = Recording(o) /\ Storing(o)' = Storing(o)
      BY <2>1, Moved DEF Undec, Recording, Storing
    <3>2. pendingOrders'[o] = NoReport
      BY <1>8, <1>t, <2>4 DEF Delete, Deleted, TypeOK
    <3>3. Balanced(o)'
      BY <2>0, <2>2, <3>1 DEF Balanced
    <3>4. Chances(o)' = 0 /\ Chances(o) \in Nat
      BY <1>n, <3>2 DEF Chances
    <3> DEFINE made == Len(latencyTracking[o]) + Recording(o)
    <3>5. made + Chances(o) + Owed(Storing(o)) <= Owed(counted[o]) /\ made \in Nat
      BY <1>n, <2>0 DEF Paid
    <3>6. made + Chances(o)' + Owed(Storing(o)) <= Owed(counted[o])
      <4> HIDE DEF made
      <4> QED
        BY <1>n, <3>4, <3>5
    <3>7. Paid(o)'
      BY <2>2, <3>1, <3>6, OwedIsRigid DEF Paid
    <3> QED
      BY <3>3, <3>7
  <2> QED
    BY <2>3, <2>4
<1>9. ASSUME NEW h \in Handler, NEW r \in Report, Skip(h, r) PROVE Accounts'
  BY <1>9, <1>1 DEF Skip, handlers
<1>10. ASSUME NEW h \in Handler, NEW r \in Report, Poison(h, r) PROVE Accounts'
  BY <1>10, RestartAccounts DEF Poison
<1>11. ASSUME NEW h \in Handler, LoadPanic(h) PROVE Accounts'
  BY <1>11, RestartAccounts DEF LoadPanic
<1>12. CASE Kill
  BY <1>12, RestartAccounts DEF Kill
<1>13. CASE UNCHANGED vars
  BY <1>13, <1>1 DEF vars, memory
<1> QED
  BY <1>2, <1>3, <1>4, <1>5, <1>6, <1>7, <1>8, <1>9, <1>10, <1>11, <1>12, <1>13 DEF Next, Step

LEMMA SpecAccounts == Spec => [](TypeInv /\ Accounts)
BY InitTypes, NextTypes, InitAccounts, NextAccounts, PTL DEF Spec

\* However the handlers interleave, whatever is delivered again and whenever the process
\* restarts, every report received is counted, measured or still being decided.
THEOREM NothingLost == Spec => []Conservation
BY SpecAccounts, PTL DEF Accounts

\* An order is measured at most |Handler| times for each input counted.
THEOREM MeasurementsArePaid == Spec => []MeasuredPerInput
<1>1. TypeInv /\ Accounts => MeasuredPerInput
  <2> SUFFICES ASSUME TypeInv, Accounts, NEW o \in Order
               PROVE  Len(latencyTracking[o]) <= Cardinality(Handler) * counted[o]
    BY DEF MeasuredPerInput
  <2>1. Paid(o) /\ counted[o] \in Nat /\ Len(latencyTracking[o]) \in Nat
    BY AccountsByOrder DEF TypeInv, TypeOK
  <2>2. Recording(o) \in Nat /\ Matched(o) \in Nat /\ Storing(o) \in Nat
        /\ Matched(o) <= Handlers /\ Handlers \in Nat
    BY CountsAreNat
  <2>3. Chances(o) \in Nat
    BY <2>2 DEF Chances
  <2>4. Owed(Storing(o)) \in Nat /\ Owed(counted[o]) \in Nat
    BY <2>1, <2>2, OwedSteps
  <2>5. Len(latencyTracking[o]) <= Owed(counted[o])
    BY <2>1, <2>2, <2>3, <2>4 DEF Paid
  <2> QED
    BY <2>5 DEF Owed, Handlers
<1> QED
  BY SpecAccounts, <1>1, PTL

--------------------------------------------------------------------------------
(* The workflow and the observer: the invariant.                           *)

\* An event has a mid timestamp of each function it has been through, and the number of its
\* copy is its own: no other event of the order has it, and no report yet.
EventsAreNumbered ==
    \A e \in channels :
        /\ e.order \in placed
        /\ e.mids = e.to - 1
        /\ e.copy <= copies[e.order]
        /\ OutputReport(e.order, e.copy, Tasks) \notin posted
        /\ \A f \in channels : f.order = e.order /\ f.copy = e.copy => f = e

\* A report is the input of its order, or the output of one of its copies.
ReportsAreOfCopies ==
    \A r \in posted :
        /\ r.order \in placed
        /\ \/ r = InputReport(r.order)
           \/ \E c \in 0 .. copies[r.order] : r = OutputReport(r.order, c, Tasks)

\* Every copy of a placed order is on its way, reported or lost.
CopiesAreAccounted(o) ==
    /\ IsFiniteSet(Reports(o)) /\ IsFiniteSet(Copies(o))
    /\ o \in placed =>
           Cardinality(Reports(o)) + Cardinality(Copies(o)) + lost[o] = 2 + copies[o]
    /\ o \notin placed => copies[o] = 0 /\ lost[o] = 0
    /\ o \notin Fragile => copies[o] = 0 /\ lost[o] = 0

WorkflowInv ==
    /\ placed \subseteq Order
    /\ channels \subseteq Event
    /\ copies \in [Order -> 0 .. MaxCopies]
    /\ lost \in [Order -> Nat]
    /\ EventsAreNumbered
    /\ ReportsAreOfCopies
    /\ \A o \in Order : CopiesAreAccounted(o)

\* The reports of o that the observer has taken.
Taken(o) == {r \in Reports(o) : deliveries[r] = 1}

\* A report that was taken is in one handler, or pending, or done with.
ReportsAreTakenOnce ==
    /\ \A r \in Report : deliveries[r] # 0 => r \in posted
    /\ \A h \in Handler : pc[h] # "idle" =>
           /\ deliveries[msg[h]] = 1
           /\ pendingOrders[msg[h].order] # msg[h]
           /\ \A g \in Handler : g # h /\ pc[g] # "idle" => msg[g] # msg[h]
    /\ \A o \in Order : pendingOrders[o] # NoReport =>
           deliveries[pendingOrders[o]] = 1 /\ pendingOrders[o].order = o
    /\ \A h \in Handler : pc[h] = "record" =>
           /\ deliveries[old[h]] = 1
           /\ old[h].order = msg[h].order
           /\ old[h] # msg[h]
    /\ \A o \in Order : arrived[o] = Cardinality(Taken(o))

Busy(o) == At({"load", "count", "store", "record", "delete"}, o)

\* While no two handlers work on the order its reports are taken in turn: the first is
\* counted and stored, the second measured with it and the first deleted.
InTurn(o) ==
    LET count == counted[o]
        len == Len(latencyTracking[o])
        pending == pendingOrders[o] # NoReport
    IN  /\ \A g, h \in Busy(o) : g = h
        /\ Busy(o) = {} => count = len + (IF pending THEN 1 ELSE 0)
        /\ \A h \in Busy(o) :
            /\ pc[h] = "load" => count = len + (IF pending THEN 1 ELSE 0)
            /\ pc[h] = "count" => ~pending /\ count = len
            /\ pc[h] = "store" => ~pending /\ count = len + 1
            /\ pc[h] = "record" => pending /\ count = len + 1
            /\ pc[h] = "delete" => pending /\ count = len

TurnsAreKept ==
    /\ overlapped \subseteq Order
    /\ overlapped # {} => Cardinality(Handler) > 1
    /\ \A o \in Order \ overlapped : InTurn(o)

\* Whatever overlaps: what was counted is pending, or will be, until a measurement is made;
\* and the only input counted is deleted once it is measured.
InputStays(o) ==
    /\ At({"delete"}, o) # {} => latencyTracking[o] # <<>>
    /\ counted[o] > 0 /\ latencyTracking[o] = <<>> =>
           pendingOrders[o] # NoReport \/ At({"store"}, o) # {}
    /\ counted[o] = 1 /\ latencyTracking[o] # <<>> =>
           pendingOrders[o] = NoReport \/ At({"delete"}, o) # {}

InputsStay == \A o \in Order : InputStays(o)

ObserverInv == TypeInv /\ Accounts /\ ReportsAreTakenOnce /\ TurnsAreKept /\ InputsStay

PipelineInv == WorkflowInv /\ ObserverInv

--------------------------------------------------------------------------------
(* Reports.                                                                *)

LEMMA Numbers ==
    /\ Tasks \in Nat \ {0} /\ MaxCopies \in Nat
    /\ \A o \in Order : PlacedAt[o] \in Nat /\ Duration[o] \in Nat
BY WorkflowAssumption, BoundAssumption, StampAssumption, FragileAssumption

LEMMA InputForm ==
    ASSUME NEW o \in Order
    PROVE  /\ InputReport(o) \in Report /\ InputReport(o).order = o
           /\ InputReport(o).mids = 0 /\ InputReport(o).stamp = PlacedAt[o]
BY WorkflowAssumption DEF InputReport

LEMMA OutputForm ==
    ASSUME NEW o \in Order, NEW c \in Nat
    PROVE  /\ OutputReport(o, c, Tasks).order = o
           /\ OutputReport(o, c, Tasks).mids = Tasks
           /\ OutputReport(o, c, Tasks).stamp = PlacedAt[o] + Duration[o] + c
           /\ OutputReport(o, c, Tasks) # InputReport(o)
<1>1. /\ OutputReport(o, c, Tasks).order = o
      /\ OutputReport(o, c, Tasks).mids = Tasks
      /\ OutputReport(o, c, Tasks).stamp = PlacedAt[o] + Duration[o] + c
  BY DEF OutputReport
<1> QED
  BY <1>1, InputForm, Numbers

\* The outputs of two copies have different stamps.
LEMMA OutputsDiffer ==
    ASSUME NEW o \in Order, NEW p \in Order, NEW c \in Nat, NEW d \in Nat,
           OutputReport(o, c, Tasks) = OutputReport(p, d, Tasks)
    PROVE  o = p /\ c = d
<1>1. o = p /\ PlacedAt[o] + Duration[o] + c = PlacedAt[p] + Duration[p] + d
  BY OutputForm
<1> QED
  BY <1>1, Numbers

LEMMA PostedForm ==
    ASSUME WorkflowInv, NEW r \in posted
    PROVE  /\ r \in Report /\ r.order \in Order /\ r.order \in placed
           /\ r = InputReport(r.order) \/ r.mids = Tasks
           /\ r.order \notin Fragile =>
                  r \in {InputReport(r.order), OutputReport(r.order, 0, Tasks)}
<1>1. r.order \in Order /\ r.order \in placed
  BY DEF WorkflowInv, ReportsAreOfCopies
<1>2. CASE r = InputReport(r.order)
  BY <1>1, <1>2, InputForm
<1>3. ASSUME NEW c \in 0 .. copies[r.order], r = OutputReport(r.order, c, Tasks)
      PROVE  /\ r \in Report /\ r.mids = Tasks
             /\ r.order \notin Fragile => c = 0
  <2>1. copies[r.order] \in 0 .. MaxCopies /\ (r.order \notin Fragile => copies[r.order] = 0)
    BY <1>1 DEF WorkflowInv, CopiesAreAccounted
  <2>2. c \in 0 .. MaxCopies /\ (c = 0 \/ r.order \in Fragile) /\ c \in Nat
    BY <2>1, Numbers
  <2> QED
    BY <1>1, <1>3, <2>2, WorkflowAssumption, OutputForm
<1> QED
  BY <1>1, <1>2, <1>3 DEF WorkflowInv, ReportsAreOfCopies

PostedReports == posted \subseteq Report

LEMMA PostedAreReports == WorkflowInv' => PostedReports'
<1>1. WorkflowInv => PostedReports
  BY PostedForm DEF PostedReports
<1> QED
  BY <1>1, PTL

--------------------------------------------------------------------------------
(* The client and the functions.                                           *)

LEMMA InitWorkflow == PipelineInit => WorkflowInv
<1> SUFFICES ASSUME PipelineInit PROVE WorkflowInv
  OBVIOUS
<1>1. \A o \in Order : Reports(o) = {} /\ Copies(o) = {}
  BY DEF PipelineInit, Reports, Copies
<1>2. \A o \in Order : CopiesAreAccounted(o)
  BY <1>1, FS_EmptySet DEF PipelineInit, CopiesAreAccounted, Zero
<1>3. copies \in [Order -> 0 .. MaxCopies] /\ lost \in [Order -> Nat]
  BY Numbers DEF PipelineInit, Zero
<1> QED
  BY <1>2, <1>3 DEF PipelineInit, WorkflowInv, EventsAreNumbered, ReportsAreOfCopies

LEMMA PlaceWorkflow ==
    ASSUME WorkflowInv, NEW o \in Order, Place(o)
    PROVE  WorkflowInv'
<1> DEFINE first == [order |-> o, to |-> 1, copy |-> 0, mids |-> 0]
<1>1. /\ o \notin placed /\ placed' = placed \cup {o}
      /\ channels' = channels \cup {first}
      /\ posted' = posted \cup {InputReport(o)}
      /\ copies' = copies /\ lost' = lost
  BY DEF Place
<1>2. /\ first \in Event /\ first.order = o /\ first.copy = 0
      /\ first.mids = first.to - 1
  BY Numbers DEF Event
<1> HIDE DEF first
<1>3. \A e \in channels : e.order \in Order /\ e.order # o /\ e.copy \in Nat
  BY <1>1 DEF WorkflowInv, EventsAreNumbered, Event
<1>4. \A r \in posted : r.order # o
  BY <1>1, PostedForm
<1>5. copies[o] = 0 /\ lost[o] = 0
  BY <1>1 DEF WorkflowInv, CopiesAreAccounted
<1>6. EventsAreNumbered'
  <2>1. \A e \in channels : OutputReport(e.order, e.copy, Tasks) # InputReport(o)
    BY <1>3, OutputForm, InputForm
  <2>2. OutputReport(o, 0, Tasks) \notin posted' /\ 0 <= copies[o]
    BY <1>1, <1>4, <1>5, OutputForm
  <2> QED
    BY <1>1, <1>2, <1>3, <2>1, <2>2 DEF WorkflowInv, EventsAreNumbered
<1>7. ReportsAreOfCopies'
  BY <1>1, InputForm DEF WorkflowInv, ReportsAreOfCopies
<1>8. ASSUME NEW p \in Order PROVE CopiesAreAccounted(p)'
  <2>1. CASE p # o
    <3>1. Reports(p)' = Reports(p) /\ Copies(p)' = Copies(p)
      BY <1>1, <1>2, <2>1, InputForm DEF Reports, Copies
    <3> QED
      BY <1>1, <2>1, <3>1 DEF WorkflowInv, CopiesAreAccounted
  <2>2. CASE p = o
    <3>1. Reports(o)' = {InputReport(o)} /\ Copies(o)' = {first}
      BY <1>1, <1>2, <1>3, <1>4, InputForm DEF Reports, Copies
    <3>2. /\ IsFiniteSet(Reports(o)') /\ IsFiniteSet(Copies(o)')
          /\ Cardinality(Reports(o)') = 1 /\ Cardinality(Copies(o)') = 1
      BY <3>1, FS_Singleton
    <3> QED
      BY <1>1, <1>5, <2>2, <3>2 DEF CopiesAreAccounted
  <2> QED
    BY <2>1, <2>2
<1> QED
  BY <1>1, <1>2, <1>6, <1>7, <1>8 DEF WorkflowInv

\* Replacing an element of a finite set by others.
LEMMA Replaced ==
    ASSUME NEW S, NEW x \in S, NEW T, IsFiniteSet(S), IsFiniteSet(T), (S \ {x}) \cap T = {}
    PROVE  /\ IsFiniteSet((S \ {x}) \cup T)
           /\ Cardinality((S \ {x}) \cup T) = Cardinality(S) - 1 + Cardinality(T)
<1>1. IsFiniteSet(S \ {x}) /\ Cardinality(S \ {x}) = Cardinality(S) - 1
  BY FS_RemoveElement
<1>2. /\ IsFiniteSet((S \ {x}) \cup T)
      /\ Cardinality((S \ {x}) \cup T) =
             Cardinality(S \ {x}) + Cardinality(T) - Cardinality({})
  BY <1>1, FS_Union
<1>3. Cardinality(S) \in Nat /\ Cardinality(T) \in Nat /\ Cardinality({}) = 0
  BY FS_CardinalityType, FS_EmptySet
<1> QED
  BY <1>1, <1>2, <1>3

\* A function takes the event e: the channels have the events of T in its place, and the
\* observer's the reports of N.  Whatever is sent, kept as a copy or lost, all copies remain
\* numbered and accounted for.
LEMMA EventTaken ==
    ASSUME WorkflowInv, NEW e \in channels, NEW T, NEW N, IsFiniteSet(T), IsFiniteSet(N),
           channels' = (channels \ {e}) \cup T,
           posted' = posted \cup N,
           placed' = placed,
           copies' \in [Order -> 0 .. MaxCopies], lost' \in [Order -> Nat],
           copies[e.order] <= copies'[e.order],
           \A o \in Order \ {e.order} : copies'[o] = copies[o] /\ lost'[o] = lost[o],
           e.order \notin Fragile => copies' = copies /\ lost' = lost,
           \A t \in T : /\ t \in Event /\ t.order = e.order /\ t.mids = t.to - 1
                        /\ t.copy <= copies'[e.order]
                        /\ t.copy = e.copy \/ t.copy > copies[e.order]
                        /\ t.copy = e.copy => N = {},
           \A t \in T, u \in T : t.copy = u.copy => t = u,
           N \subseteq {OutputReport(e.order, e.copy, Tasks)},
           Cardinality(T) + Cardinality(N) + lost'[e.order] + copies[e.order]
               = 1 + lost[e.order] + copies'[e.order]
    PROVE  WorkflowInv'
<1> DEFINE o == e.order
           output == OutputReport(e.order, e.copy, Tasks)
<1>1. /\ o \in Order /\ o \in placed /\ e.copy \in Nat /\ copies[o] \in Nat /\ copies'[o] \in Nat
      /\ e.copy <= copies[o] /\ output \notin posted
      /\ \A f \in channels : f.order \in Order /\ f.copy \in Nat
      /\ \A t \in T : t.copy \in Nat
  BY Numbers DEF WorkflowInv, EventsAreNumbered, Event
<1>2. output.order = o /\ (\A r \in N : r = output)
  BY <1>1, OutputForm
<1>3. \A f \in channels \ {e} : f.order = o => f.copy # e.copy /\ f.copy <= copies[o]
  BY DEF WorkflowInv, EventsAreNumbered
<1>4. EventsAreNumbered'
  <2>1. ASSUME NEW f \in channels \ {e}
        PROVE  /\ f.order \in placed' /\ f.mids = f.to - 1
               /\ f.copy <= copies'[f.order]
               /\ OutputReport(f.order, f.copy, Tasks) \notin posted'
               /\ \A g \in channels' : g.order = f.order /\ g.copy = f.copy => g = f
    <3>1. f.order \in Order /\ f.copy \in Nat /\ copies[f.order] \in Nat /\ copies'[f.order] \in Nat
      BY <1>1 DEF WorkflowInv
    <3>2. /\ f.order \in placed /\ f.mids = f.to - 1 /\ f.copy <= copies[f.order]
          /\ OutputReport(f.order, f.copy, Tasks) \notin posted
          /\ \A g \in channels : g.order = f.order /\ g.copy = f.copy => g = f
      BY DEF WorkflowInv, EventsAreNumbered
    <3>3. copies[f.order] <= copies'[f.order]
      BY <3>1
    <3>4. OutputReport(f.order, f.copy, Tasks) # output
      BY <1>1, <1>3, <3>1, OutputsDiffer
    <3>5. ASSUME NEW t \in T, t.order = f.order PROVE t.copy # f.copy
      BY <1>1, <1>3, <3>1, <3>5
    <3> QED
      BY <1>2, <3>1, <3>2, <3>3, <3>4, <3>5
  <2>2. ASSUME NEW t \in T
        PROVE  /\ t.order \in placed' /\ t.mids = t.to - 1
               /\ t.copy <= copies'[t.order]
               /\ OutputReport(t.order, t.copy, Tasks) \notin posted'
               /\ \A g \in channels' : g.order = t.order /\ g.copy = t.copy => g = t
    <3>1. \A f \in channels \ {e} : f.order = o => f.copy # t.copy
      BY <1>1, <1>3, <2>2
    <3>2. OutputReport(o, t.copy, Tasks) \notin posted
      <4>1. CASE t.copy = e.copy
        BY <1>1, <4>1
      <4>2. CASE t.copy > copies[o]
        <5> SUFFICES ASSUME OutputReport(o, t.copy, Tasks) \in posted PROVE FALSE
          OBVIOUS
        <5>1. PICK c \in 0 .. copies[o] :
                  OutputReport(o, t.copy, Tasks) = OutputReport(o, c, Tasks)
          BY <1>1, OutputForm DEF WorkflowInv, ReportsAreOfCopies
        <5>2. c \in Nat /\ c <= copies[o]
          BY <1>1
        <5>3. t.copy = c
          BY <1>1, <5>1, <5>2, OutputsDiffer
        <5> QED
          BY <1>1, <4>2, <5>2, <5>3
      <4> QED
        BY <4>1, <4>2
    <3>3. OutputReport(o, t.copy, Tasks) \notin N
      BY <1>1, <1>2, OutputsDiffer
    <3> QED
      BY <1>1, <3>1, <3>2, <3>3
  <2> QED
    BY <2>1, <2>2 DEF EventsAreNumbered
<1>5. ReportsAreOfCopies'
  <2>1. ASSUME NEW r \in posted
        PROVE  /\ r.order \in placed'
               /\ \/ r = InputReport(r.order)
                  \/ \E c \in 0 .. copies'[r.order] : r = OutputReport(r.order, c, Tasks)
    <3>1. /\ r.order \in placed /\ r.order \in Order
          /\ \/ r = InputReport(r.order)
             \/ \E c \in 0 .. copies[r.order] : r = OutputReport(r.order, c, Tasks)
      BY DEF WorkflowInv, ReportsAreOfCopies
    <3>2. copies[r.order] <= copies'[r.order] /\ copies[r.order] \in Nat /\ copies'[r.order] \in Nat
      BY <3>1, Numbers DEF WorkflowInv
    <3>3. 0 .. copies[r.order] \subseteq 0 .. copies'[r.order]
      BY <3>2
    <3> QED
      BY <3>1, <3>3
  <2>2. e.copy \in 0 .. copies'[o]
    BY <1>1
  <2> QED
    BY <1>1, <1>2, <2>1, <2>2 DEF ReportsAreOfCopies
<1>6. ASSUME NEW p \in Order PROVE CopiesAreAccounted(p)'
  <2>1. CASE p # o
    <3>1. Reports(p)' = Reports(p) /\ Copies(p)' = Copies(p)
      BY <1>2, <2>1 DEF Reports, Copies
    <3> QED
      BY <2>1, <3>1 DEF WorkflowInv, CopiesAreAccounted
  <2>2. CASE p = o
    <3>1. /\ IsFiniteSet(Reports(o)) /\ IsFiniteSet(Copies(o))
          /\ Cardinality(Reports(o)) + Cardinality(Copies(o)) + lost[o] = 2 + copies[o]
          /\ o \notin Fragile => copies[o] = 0 /\ lost[o] = 0
      BY <1>1 DEF WorkflowInv, CopiesAreAccounted
    <3>2. Copies(o)' = (Copies(o) \ {e}) \cup T
      BY DEF Copies
    <3>3. (Copies(o) \ {e}) \cap T = {} /\ e \in Copies(o)
      BY <1>1, <1>3 DEF Copies
    <3>4. /\ IsFiniteSet(Copies(o)')
          /\ Cardinality(Copies(o)') = Cardinality(Copies(o)) - 1 + Cardinality(T)
      BY <3>1, <3>2, <3>3, Replaced
    <3>5. Reports(o)' = Reports(o) \cup N /\ Reports(o) \cap N = {}
      BY <1>1, <1>2 DEF Reports
    <3>6. /\ IsFiniteSet(Reports(o)')
          /\ Cardinality(Reports(o)') = Cardinality(Reports(o)) + Cardinality(N)
      <4>1. /\ IsFiniteSet(Reports(o) \cup N)
            /\ Cardinality(Reports(o) \cup N) =
                   Cardinality(Reports(o)) + Cardinality(N) - Cardinality({})
        BY <3>1, <3>5, FS_Union
      <4> QED
        BY <3>1, <3>5, <4>1, FS_EmptySet, FS_CardinalityType
    <3>7. /\ Cardinality(Reports(o)) \in Nat /\ Cardinality(Copies(o)) \in Nat
          /\ Cardinality(T) \in Nat /\ Cardinality(N) \in Nat
          /\ lost[o] \in Nat /\ lost'[o] \in Nat
      BY <1>1, <3>1, FS_CardinalityType DEF WorkflowInv
    <3>8. Cardinality(Reports(o)') + Cardinality(Copies(o)') + lost'[o] = 2 + copies'[o]
      <4> HIDE DEF o
      <4>1. Cardinality(T) + Cardinality(N) + lost'[o] + copies[o] = 1 + lost[o] + copies'[o]
        BY DEF o
      <4> QED
        BY <1>1, <3>1, <3>4, <3>6, <3>7, <4>1
    <3> QED
      BY <1>1, <2>2, <3>1, <3>4, <3>6, <3>8 DEF CopiesAreAccounted
  <2> QED
    BY <2>1, <2>2
<1> QED
  BY <1>4, <1>5, <1>6 DEF WorkflowInv

\* The event that a function sends on to the next.
Passed(e) == [e EXCEPT !.to = @ + 1, !.mids = AppendedMids(e)]

LEMMA PassedForm ==
    ASSUME NEW e \in Event, e.to < Tasks, e.mids = e.to - 1
    PROVE  /\ Passed(e) \in Event /\ Passed(e).order = e.order /\ Passed(e).copy = e.copy
           /\ Passed(e).mids = Passed(e).to - 1
<1> DEFINE further == [e EXCEPT !.to = @ + 1]
<1>1. e.to + 1 \in 1 .. Tasks /\ e.to \in Nat
  BY Numbers DEF Event
<1>2. further \in Event
  BY <1>1 DEF Event
<1>3. ASSUME NEW f \in Event PROVE [f EXCEPT !.mids = AppendedMids(e)] \in Event
  BY DEF Event, AppendedMids
<1>4. Passed(e) = [[e EXCEPT !.to = @ + 1] EXCEPT !.mids = AppendedMids(e)]
  BY DEF Passed
<1>5. [further EXCEPT !.mids = AppendedMids(e)] \in Event
  <2> HIDE DEF further
  <2> QED
    BY <1>2, <1>3
<1>6. /\ Passed(e).order = e.order /\ Passed(e).copy = e.copy
      /\ Passed(e).mids = e.mids + 1 /\ Passed(e).to = e.to + 1
  BY DEF Event, Passed, AppendedMids
<1> QED
  BY <1>1, <1>4, <1>5, <1>6

\* An event is sent on, as one event or as the order's output, beside the copies in rest.
LEMMA SendWorkflow ==
    ASSUME WorkflowInv, NEW e \in channels, NEW rest, IsFiniteSet(rest), Send(e, rest),
           placed' = placed, lost' = lost,
           copies' \in [Order -> 0 .. MaxCopies],
           copies'[e.order] = copies[e.order] + Cardinality(rest),
           \A o \in Order \ {e.order} : copies'[o] = copies[o],
           e.order \notin Fragile => copies' = copies,
           \A t \in rest : /\ t \in Event /\ t.order = e.order /\ t.mids = t.to - 1
                           /\ t.copy <= copies'[e.order]
                           /\ t.copy > copies[e.order],
           \A t \in rest, u \in rest : t.copy = u.copy => t = u
    PROVE  WorkflowInv'
<1>1. /\ e \in Event /\ e.order \in Order /\ e.mids = e.to - 1 /\ e.copy \in Nat
      /\ e.copy <= copies[e.order] /\ copies[e.order] \in Nat /\ lost[e.order] \in Nat
      /\ Cardinality(rest) \in Nat /\ lost' \in [Order -> Nat] /\ e.to \in 1 .. Tasks
  BY FS_CardinalityType, Numbers DEF WorkflowInv, EventsAreNumbered, Event
<1>2. copies[e.order] <= copies'[e.order]
  BY <1>1
<1>3. \A t \in rest : t.copy # e.copy
  BY <1>1 DEF Event
<1>4. CASE e.to < Tasks
  <2> DEFINE T == rest \cup {Passed(e)}
  <2>1. /\ Passed(e) \in Event /\ Passed(e).order = e.order /\ Passed(e).copy = e.copy
        /\ Passed(e).mids = Passed(e).to - 1
    BY <1>1, <1>4, PassedForm
  <2>2. channels' = (channels \ {e}) \cup T /\ posted' = posted \cup {}
    BY <1>4 DEF Send, Passed
  <2>3. IsFiniteSet(T) /\ Cardinality(T) = Cardinality(rest) + 1
    BY <1>3, <2>1, FS_AddElement
  <2>4. Cardinality({}) = 0 /\ IsFiniteSet({})
    BY FS_EmptySet
  <2>5. \A t \in T : /\ t \in Event /\ t.order = e.order /\ t.mids = t.to - 1
                     /\ t.copy <= copies'[e.order]
                     /\ t.copy = e.copy \/ t.copy > copies[e.order]
    BY <1>1, <2>1
  <2>6. \A t \in T, u \in T : t.copy = u.copy => t = u
    BY <1>3, <2>1
  <2>7. Cardinality(T) + Cardinality({}) + lost'[e.order] + copies[e.order]
            = 1 + lost[e.order] + copies'[e.order]
    BY <1>1, <2>3, <2>4
  <2> HIDE DEF T
  <2> QED
    BY <1>1, <1>2, <2>2, <2>3, <2>4, <2>5, <2>6, <2>7, EventTaken
<1>5. CASE ~(e.to < Tasks)
  <2> DEFINE N == {OutputReport(e.order, e.copy, Tasks)}
  <2>1. AppendedMids(e) = Tasks
    BY <1>1, <1>5, Numbers DEF AppendedMids
  <2>2. channels' = (channels \ {e}) \cup rest /\ posted' = posted \cup N
    BY <1>5, <2>1 DEF Send
  <2>3. IsFiniteSet(N) /\ Cardinality(N) = 1
    BY FS_Singleton
  <2>4. \A t \in rest : /\ t.copy = e.copy \/ t.copy > copies[e.order]
                        /\ t.copy = e.copy => N = {}
    BY <1>3
  <2>5. Cardinality(rest) + Cardinality(N) + lost'[e.order] + copies[e.order]
            = 1 + lost[e.order] + copies'[e.order]
    BY <1>1, <2>3
  <2>6. N \subseteq {OutputReport(e.order, e.copy, Tasks)}
    OBVIOUS
  <2> HIDE DEF N
  <2> QED
    BY <1>1, <1>2, <2>2, <2>3, <2>4, <2>5, <2>6, EventTaken
<1> QED
  BY <1>4, <1>5

LEMMA ForwardWorkflow == ASSUME WorkflowInv, NEW e \in channels, Forward(e) PROVE WorkflowInv'
<1>1. Send(e, {}) /\ placed' = placed /\ copies' = copies /\ lost' = lost
  BY DEF Forward
<1>2. IsFiniteSet({}) /\ Cardinality({}) = 0
  BY FS_EmptySet
<1>3. copies' \in [Order -> 0 .. MaxCopies] /\ copies[e.order] \in Nat
  BY <1>1, Numbers DEF WorkflowInv, Event
<1> QED
  BY <1>1, <1>2, <1>3, SendWorkflow

LEMMA ForwardUnansweredWorkflow ==
    ASSUME WorkflowInv, NEW e \in channels, ForwardUnanswered(e)
    PROVE  WorkflowInv'
<1> DEFINE again == [e EXCEPT !.copy = copies'[e.order]]
<1>1. /\ e.order \in Fragile /\ copies[e.order] < MaxCopies
      /\ copies' = [copies EXCEPT ![e.order] = @ + 1]
      /\ Send(e, {again}) /\ placed' = placed /\ lost' = lost
  BY DEF ForwardUnanswered
<1>2. /\ e \in Event /\ e.order \in Order /\ e.mids = e.to - 1
      /\ copies \in [Order -> 0 .. MaxCopies] /\ copies[e.order] \in 0 .. MaxCopies
  BY DEF WorkflowInv, EventsAreNumbered, Event
<1>3. /\ copies'[e.order] = copies[e.order] + 1
      /\ copies'[e.order] \in 0 .. MaxCopies
      /\ copies' \in [Order -> 0 .. MaxCopies]
      /\ \A o \in Order \ {e.order} : copies'[o] = copies[o]
  BY <1>1, <1>2, Numbers
<1>4. /\ again \in Event /\ again.order = e.order /\ again.mids = again.to - 1
      /\ again.copy = copies'[e.order]
  BY <1>2, <1>3 DEF Event
<1>5. IsFiniteSet({again}) /\ Cardinality({again}) = 1
  BY FS_Singleton
<1>6. again.copy <= copies'[e.order] /\ again.copy > copies[e.order]
  BY <1>2, <1>3, <1>4
<1> HIDE DEF again
<1> QED
  BY <1>1, <1>3, <1>4, <1>5, <1>6, SendWorkflow

LEMMA LoseSendWorkflow == ASSUME WorkflowInv, NEW e \in channels, LoseSend(e) PROVE WorkflowInv'
<1>1. /\ e.order \in Fragile /\ channels' = (channels \ {e}) \cup {}
      /\ lost' = [lost EXCEPT ![e.order] = @ + 1]
      /\ posted' = posted \cup {} /\ placed' = placed /\ copies' = copies
  BY DEF LoseSend
<1>2. /\ e.order \in Order /\ copies \in [Order -> 0 .. MaxCopies] /\ lost \in [Order -> Nat]
      /\ copies[e.order] \in Nat
  BY Numbers DEF WorkflowInv, Event
<1>3. /\ lost'[e.order] = lost[e.order] + 1 /\ lost' \in [Order -> Nat]
      /\ \A o \in Order \ {e.order} : lost'[o] = lost[o]
  BY <1>1, <1>2
<1>4. IsFiniteSet({}) /\ Cardinality({}) = 0
  BY FS_EmptySet
<1>5. Cardinality({}) + Cardinality({}) + lost'[e.order] + copies[e.order]
          = 1 + lost[e.order] + copies'[e.order]
  BY <1>1, <1>2, <1>3, <1>4
<1> QED
  BY <1>1, <1>2, <1>3, <1>4, <1>5, EventTaken

--------------------------------------------------------------------------------
(* The observer.                                                           *)

\* What the client and the functions do is nothing to the reports the observer has.
LEMMA WorkflowStep ==
    ASSUME PipelineInv, WorkflowInv', UNCHANGED vars, UNCHANGED overlapped,
           posted \subseteq posted'
    PROVE  ObserverInv'
<1> USE DEF PipelineInv, ObserverInv
<1>1. TypeInv' /\ Accounts'
  BY NextTypes, NextAccounts
<1>2. UNCHANGED <<deliveries, pc, msg, old, pendingOrders, counted, latencyTracking, arrived>>
  BY DEF vars
<1>3. \A o : Busy(o)' = Busy(o) /\ At({"delete"}, o)' = At({"delete"}, o)
                /\ At({"store"}, o)' = At({"store"}, o)
  BY <1>2 DEF Busy, At
<1>4. \A r \in posted' : r \in posted \/ deliveries[r] # 1
  BY PostedAreReports DEF PostedReports, ReportsAreTakenOnce
<1>5. \A o : Taken(o)' = Taken(o)
  BY <1>2, <1>4 DEF Taken, Reports
<1>6. ReportsAreTakenOnce'
  BY <1>2, <1>5 DEF ReportsAreTakenOnce
<1>7. TurnsAreKept'
  BY <1>2, <1>3 DEF TurnsAreKept, InTurn
<1>8. InputsStay'
  BY <1>2, <1>3 DEF InputsStay, InputStays
<1> QED
  BY <1>1, <1>6, <1>7, <1>8

\* One handler moves, and the others stay where they are.
OnlyMoves(h) == \A g \in Handler \ {h} : pc'[g] = pc[g] /\ msg'[g] = msg[g]

LEMMA AtAfter ==
    ASSUME NEW steps, NEW o, NEW h \in Handler, OnlyMoves(h)
    PROVE  At(steps, o)' =
               (At(steps, o) \ {h}) \cup (IF pc'[h] \in steps /\ msg'[h].order = o THEN {h} ELSE {})
BY DEF At, OnlyMoves

\* The orders that the handler does not work on.
LEMMA OtherTurns ==
    ASSUME NEW h \in Handler, OnlyMoves(h), NEW o \in Order,
           pc[h] = "idle" \/ msg[h].order # o,
           pc'[h] = "idle" \/ msg'[h].order # o,
           counted'[o] = counted[o], latencyTracking'[o] = latencyTracking[o],
           pendingOrders'[o] = pendingOrders[o]
    PROVE  /\ InTurn(o) => InTurn(o)'
           /\ InputStays(o) => InputStays(o)'
<1>1. /\ Busy(o)' = Busy(o) /\ At({"delete"}, o)' = At({"delete"}, o)
      /\ At({"store"}, o)' = At({"store"}, o) /\ h \notin Busy(o)
  BY DEF At, OnlyMoves, Busy
<1>2. \A g \in Busy(o) : pc'[g] = pc[g]
  BY <1>1 DEF Busy, At, OnlyMoves
<1>3. InTurn(o) => InTurn(o)'
  BY <1>1, <1>2 DEF InTurn
<1>4. InputStays(o) => InputStays(o)'
  BY <1>1 DEF InputStays
<1> QED
  BY <1>3, <1>4

\* What the accounts say of one order: a measurement, or the decision to make one, is paid
\* for by an input, and the only input cannot be still to be stored when there is one.
LEMMA PaidFor ==
    ASSUME TypeInv, Accounts, NEW o \in Order
    PROVE  /\ counted[o] = 0 => latencyTracking[o] = <<>> /\ At({"record"}, o) = {}
           /\ counted[o] = 1 /\ At({"store"}, o) # {} => latencyTracking[o] = <<>>
<1>1. /\ Paid(o) /\ counted[o] \in Nat
      /\ latencyTracking[o] \in Seq(Nat) /\ Len(latencyTracking[o]) \in Nat
      /\ Recording(o) \in Nat /\ Matched(o) \in Nat /\ Storing(o) \in Nat
      /\ Matched(o) <= Handlers /\ Handlers \in Nat
  BY AccountsByOrder, CountsAreNat DEF TypeInv, TypeOK
<1>2. Chances(o) \in Nat /\ Owed(Storing(o)) \in Nat /\ Owed(counted[o]) \in Nat
  BY <1>1, OwedSteps DEF Chances
<1>3. CASE counted[o] = 0
  <2>1. Owed(counted[o]) = 0
    BY <1>3, OwedSteps
  <2>2. Len(latencyTracking[o]) = 0 /\ Recording(o) = 0
    BY <1>1, <1>2, <2>1 DEF Paid
  <2>3. IsFiniteSet(At({"record"}, o))
    BY AtFinite
  <2> QED
    BY <1>1, <1>3, <2>2, <2>3, FS_EmptySet DEF Recording
<1>4. ASSUME counted[o] = 1, At({"store"}, o) # {} PROVE latencyTracking[o] = <<>>
  <2>1. Owed(counted[o]) = Handlers
    <3>1. Owed(0 + 1) = Owed(0) + Handlers /\ Owed(0) = 0
      BY OwedSteps
    <3> QED
      BY <1>1, <1>4, <3>1
  <2>2. Storing(o) > 0
    BY <1>1, <1>4, AtFinite, FS_EmptySet DEF Storing
  <2>3. Owed(Storing(o)) >= Handlers
    <3>1. Storing(o) - 1 \in Nat
      BY <1>1, <2>2
    <3>2. Owed(Storing(o) - 1) = Owed(Storing(o)) - Handlers /\ Owed(Storing(o) - 1) \in Nat
      BY <1>1, <2>2, <3>1, OwedSteps
    <3> QED
      BY <1>1, <1>2, <3>2
  <2>4. Len(latencyTracking[o]) = 0
    BY <1>1, <1>2, <2>1, <2>3 DEF Paid
  <2> QED
    BY <1>1, <2>4
<1> QED
  BY <1>1, <1>3, <1>4

\* A report and the partner it finds are two, and one of them is no input.
LEMMA MidsCover == PipelineInv => MidsCoverTasks
<1> SUFFICES ASSUME PipelineInv, NEW h \in Handler, pc[h] = "load",
                    pendingOrders[msg[h].order] # NoReport
             PROVE  Readable(msg[h], pendingOrders[msg[h].order])
  BY DEF MidsCoverTasks
<1> DEFINE partner == pendingOrders[msg[h].order]
<1> USE DEF PipelineInv, ObserverInv
<1>1. msg[h] \in Report /\ msg[h].order \in Order
  BY ReportFields DEF TypeInv, HoldsReports
<1>2. msg[h] \in posted /\ partner # msg[h]
  BY <1>1 DEF ReportsAreTakenOnce
<1>3. partner \in posted /\ partner.order = msg[h].order
  BY <1>1, ReportFields DEF ReportsAreTakenOnce, TypeInv, TypeOK
<1>4. /\ msg[h] = InputReport(msg[h].order) \/ msg[h].mids = Tasks
      /\ partner = InputReport(msg[h].order) \/ partner.mids = Tasks
  BY <1>2, <1>3, PostedForm
<1>5. msg[h].mids # 0 => msg[h].mids = Tasks
  BY <1>1, <1>4, InputForm
<1>6. msg[h].mids = 0 => partner.mids = Tasks
  BY <1>1, <1>2, <1>4, Numbers
<1> QED
  BY <1>5, <1>6, Numbers DEF Readable, MidCount

\* So that the observer does not panic.
LEMMA NoPanic == ASSUME PipelineInv, NEW h \in Handler, LoadPanic(h) PROVE FALSE
BY MidsCover DEF LoadPanic, MidsCoverTasks

\* What an action of handler h finds.
LEMMA AtWork ==
    ASSUME PipelineInv, NEW h \in Handler, pc[h] # "idle"
    PROVE  /\ msg[h] \in Report /\ msg[h].order \in Order
           /\ h \in Busy(msg[h].order)
           /\ \A g \in Handler \ {h} : pc[g] # "idle" => msg[g] # msg[h]
           /\ msg[h].order \notin overlapped =>
                  InTurn(msg[h].order) /\ Busy(msg[h].order) = {h}
<1>1. msg[h] \in Report /\ msg[h].order \in Order
  BY ReportFields DEF PipelineInv, ObserverInv, TypeInv, HoldsReports
<1>2. h \in Busy(msg[h].order)
  BY DEF PipelineInv, ObserverInv, TypeInv, TypeOK, Control, Busy, At
<1>3. msg[h].order \notin overlapped => InTurn(msg[h].order) /\ Busy(msg[h].order) = {h}
  BY <1>1, <1>2 DEF PipelineInv, ObserverInv, TurnsAreKept, InTurn
<1>4. \A g \in Handler \ {h} : pc[g] # "idle" => msg[g] # msg[h]
  BY DEF PipelineInv, ObserverInv, ReportsAreTakenOnce
<1> QED
  BY <1>1, <1>2, <1>3, <1>4

LEMMA SameTaken ==
    ASSUME deliveries' = deliveries, posted' = posted
    PROVE  \A o : Taken(o)' = Taken(o)
BY DEF Taken, Reports

\* The turns and the inputs of every order are kept when they are of the handler's order.
LEMMA OneOrderStays ==
    ASSUME PipelineInv, NEW h \in Handler, NEW mine \in Order, mine = msg[h].order,
           pc[h] # "idle", OnlyMoves(h),
           pc'[h] = "idle" \/ msg'[h] = msg[h], overlapped' = overlapped,
           \A o \in Order \ {mine} :
               /\ counted'[o] = counted[o] /\ latencyTracking'[o] = latencyTracking[o]
               /\ pendingOrders'[o] = pendingOrders[o],
           mine \notin overlapped => InTurn(mine)',
           InputStays(mine)'
    PROVE  TurnsAreKept' /\ InputsStay'
<1>1. ASSUME NEW o \in Order, o # mine
      PROVE  (InTurn(o) => InTurn(o)') /\ (InputStays(o) => InputStays(o)')
  BY <1>1, OtherTurns
<1>2. \A o \in Order \ overlapped : InTurn(o)'
  BY <1>1 DEF PipelineInv, ObserverInv, TurnsAreKept
<1>3. \A o \in Order : InputStays(o)'
  BY <1>1 DEF PipelineInv, ObserverInv, InputsStay
<1> QED
  BY <1>2, <1>3 DEF PipelineInv, ObserverInv, TurnsAreKept, InputsStay

LEMMA LoadMissKeeps ==
    ASSUME PipelineInv, NEW h \in Handler, LoadMiss(h), UNCHANGED workflow
    PROVE  ReportsAreTakenOnce' /\ TurnsAreKept' /\ InputsStay'
<1>0. PICK o \in Order : o = msg[h].order
  BY AtWork DEF LoadMiss
<1>1. /\ pc[h] = "load" /\ pendingOrders[o] = NoReport /\ pc' = [pc EXCEPT ![h] = "count"]
      /\ UNCHANGED <<deliveries, msg, old, pendingOrders, counted, latencyTracking, arrived>>
      /\ posted' = posted /\ overlapped' = overlapped
  BY <1>0 DEF LoadMiss, Goto, channel, memory, workflow, events
<1>2. pc'[h] = "count" /\ \A g \in Handler \ {h} : pc'[g] = pc[g]
  BY <1>0, <1>1 DEF PipelineInv, ObserverInv, TypeInv, TypeOK
<1>3. OnlyMoves(h)
  BY <1>0, <1>1, <1>2 DEF OnlyMoves
<1>4. ReportsAreTakenOnce'
  BY <1>0, <1>1, <1>2, SameTaken DEF PipelineInv, ObserverInv, ReportsAreTakenOnce
<1>5. Busy(o)' = Busy(o) /\ At({"delete"}, o)' = At({"delete"}, o)
      /\ At({"store"}, o)' = At({"store"}, o)
  BY <1>0, <1>1, <1>2 DEF Busy, At
<1>6. InputStays(o)'
  BY <1>0, <1>1, <1>5, AtWork DEF PipelineInv, ObserverInv, InputsStay, InputStays
<1>7. ASSUME o \notin overlapped PROVE InTurn(o)'
  <2>1. InTurn(o) /\ Busy(o) = {h}
    BY <1>0, <1>1, <1>7, AtWork
  <2>2. counted[o] = Len(latencyTracking[o])
    BY <1>0, <1>1, <1>2, <1>5, <2>1 DEF InTurn
  <2>3. Busy(o)' = {h} /\ pc'[h] = "count" /\ pendingOrders'[o] = NoReport
        /\ counted'[o] = Len(latencyTracking'[o])
    BY <1>0, <1>1, <1>2, <1>5, <2>1, <2>2
  <2> QED
    BY <2>3 DEF InTurn
<1> QED
  BY <1>0, <1>1, <1>2, <1>3, <1>4, <1>6, <1>7, OneOrderStays

LEMMA LoadHitKeeps ==
    ASSUME PipelineInv, NEW h \in Handler, LoadHit(h), UNCHANGED workflow
    PROVE  ReportsAreTakenOnce' /\ TurnsAreKept' /\ InputsStay'
<1>0. PICK o \in Order : o = msg[h].order
  BY AtWork DEF LoadHit
<1>1. /\ pc[h] = "load" /\ pendingOrders[o] # NoReport /\ pc' = [pc EXCEPT ![h] = "record"]
      /\ old' = [old EXCEPT ![h] = pendingOrders[o]]
      /\ UNCHANGED <<deliveries, msg, pendingOrders, counted, latencyTracking, arrived>>
      /\ posted' = posted /\ overlapped' = overlapped
  BY <1>0 DEF LoadHit, Goto, channel, memory, workflow, events
<1>2. /\ pc'[h] = "record" /\ \A g \in Handler \ {h} : pc'[g] = pc[g] /\ old'[g] = old[g]
      /\ old'[h] = pendingOrders[o]
  BY <1>0, <1>1 DEF PipelineInv, ObserverInv, TypeInv, TypeOK
<1>3. OnlyMoves(h)
  BY <1>0, <1>1, <1>2 DEF OnlyMoves
<1>4. ReportsAreTakenOnce'
  <2>1. /\ deliveries[pendingOrders[o]] = 1 /\ pendingOrders[o].order = o
        /\ pendingOrders[o] # msg[h]
    BY <1>0, <1>1, AtWork DEF PipelineInv, ObserverInv, ReportsAreTakenOnce
  <2> QED
    BY <1>0, <1>1, <1>2, <2>1, SameTaken DEF PipelineInv, ObserverInv, ReportsAreTakenOnce
<1>5. Busy(o)' = Busy(o) /\ At({"delete"}, o)' = At({"delete"}, o)
      /\ At({"store"}, o)' = At({"store"}, o)
  BY <1>0, <1>1, <1>2 DEF Busy, At
<1>6. InputStays(o)'
  BY <1>0, <1>1, <1>5, AtWork DEF PipelineInv, ObserverInv, InputsStay, InputStays
<1>7. ASSUME o \notin overlapped PROVE InTurn(o)'
  <2>1. InTurn(o) /\ Busy(o) = {h}
    BY <1>0, <1>1, <1>7, AtWork
  <2>2. counted[o] = Len(latencyTracking[o]) + 1
    BY <1>0, <1>1, <1>2, <1>5, <2>1 DEF InTurn
  <2>3. Busy(o)' = {h} /\ pc'[h] = "record" /\ pendingOrders'[o] # NoReport
        /\ counted'[o] = Len(latencyTracking'[o]) + 1
    BY <1>0, <1>1, <1>2, <1>5, <2>1, <2>2
  <2> QED
    BY <2>3 DEF InTurn
<1> QED
  BY <1>0, <1>1, <1>2, <1>3, <1>4, <1>6, <1>7, OneOrderStays

LEMMA CountKeeps ==
    ASSUME PipelineInv, NEW h \in Handler, Count(h), UNCHANGED workflow
    PROVE  ReportsAreTakenOnce' /\ TurnsAreKept' /\ InputsStay'
<1>0. PICK o \in Order : o = msg[h].order
  BY AtWork DEF Count
<1>1. /\ pc[h] = "count" /\ pc' = [pc EXCEPT ![h] = "store"]
      /\ counted' = [counted EXCEPT ![o] = @ + 1]
      /\ UNCHANGED <<deliveries, msg, old, pendingOrders, latencyTracking, arrived>>
      /\ posted' = posted /\ overlapped' = overlapped
  BY <1>0 DEF Count, Goto, channel, workflow, events
<1>2. /\ pc'[h] = "store" /\ \A g \in Handler \ {h} : pc'[g] = pc[g]
      /\ o \in Order /\ counted[o] \in Nat /\ counted'[o] = counted[o] + 1
      /\ \A p \in Order \ {o} : counted'[p] = counted[p]
  BY <1>0, <1>1, AtWork DEF PipelineInv, ObserverInv, TypeInv, TypeOK
<1>3. OnlyMoves(h)
  BY <1>0, <1>1, <1>2 DEF OnlyMoves
<1>4. ReportsAreTakenOnce'
  BY <1>0, <1>1, <1>2, SameTaken DEF PipelineInv, ObserverInv, ReportsAreTakenOnce
<1>5. Busy(o)' = Busy(o) /\ At({"delete"}, o)' = At({"delete"}, o) /\ h \in At({"store"}, o)'
  BY <1>0, <1>1, <1>2 DEF Busy, At
<1>6. InputStays(o)'
  <2>1. counted'[o] = 1 => latencyTracking[o] = <<>>
    BY <1>0, <1>2, PaidFor DEF PipelineInv, ObserverInv
  <2> QED
    BY <1>0, <1>1, <1>2, <1>5, <2>1 DEF PipelineInv, ObserverInv, InputsStay, InputStays
<1>7. ASSUME o \notin overlapped PROVE InTurn(o)'
  <2>1. InTurn(o) /\ Busy(o) = {h}
    BY <1>0, <1>1, <1>7, AtWork
  <2>2. pendingOrders[o] = NoReport /\ counted[o] = Len(latencyTracking[o])
    BY <1>0, <1>1, <1>2, <1>5, <2>1 DEF InTurn
  <2>3. Busy(o)' = {h} /\ pc'[h] = "store" /\ pendingOrders'[o] = NoReport
        /\ counted'[o] = Len(latencyTracking'[o]) + 1
    BY <1>0, <1>1, <1>2, <1>5, <2>1, <2>2
  <2> QED
    BY <2>3 DEF InTurn
<1> QED
  BY <1>0, <1>1, <1>2, <1>3, <1>4, <1>6, <1>7, OneOrderStays

LEMMA StoreKeeps ==
    ASSUME PipelineInv, NEW h \in Handler, Store(h), UNCHANGED workflow
    PROVE  ReportsAreTakenOnce' /\ TurnsAreKept' /\ InputsStay'
<1>0. PICK o \in Order : o = msg[h].order
  BY AtWork DEF Store
<1>1. /\ pc[h] = "store" /\ pc' = [pc EXCEPT ![h] = "idle"]
      /\ msg' = [msg EXCEPT ![h] = NoReport] /\ old' = [old EXCEPT ![h] = NoReport]
      /\ pendingOrders' = [pendingOrders EXCEPT ![o] = msg[h]]
      /\ UNCHANGED <<deliveries, counted, latencyTracking, arrived>>
      /\ posted' = posted /\ overlapped' = overlapped
  BY <1>0 DEF Store, Stored, Return, Goto, channel, workflow, events
<1>2. /\ pc'[h] = "idle"
      /\ \A g \in Handler \ {h} : pc'[g] = pc[g] /\ msg'[g] = msg[g] /\ old'[g] = old[g]
      /\ msg[h] \in Report /\ msg[h] # NoReport /\ o \in Order /\ pendingOrders'[o] = msg[h]
      /\ \A p \in Order \ {o} : pendingOrders'[p] = pendingOrders[p]
  BY <1>0, <1>1, AtWork, ReportFields DEF PipelineInv, ObserverInv, TypeInv, TypeOK
<1>3. OnlyMoves(h)
  BY <1>0, <1>1, <1>2 DEF OnlyMoves
<1>4. ReportsAreTakenOnce'
  <2>1. \A g \in Handler : pc'[g] # "idle" =>
            g # h /\ pc[g] # "idle" /\ msg[g] \in Report /\ msg[g].order \in Order
    BY <1>0, <1>2, AtWork
  <2>2. \A g \in Handler \ {h} : pc[g] # "idle" => msg[g] # msg[h]
    BY <1>0, <1>1, AtWork
  <2>3. deliveries[msg[h]] = 1
    BY <1>0, <1>1 DEF PipelineInv, ObserverInv, ReportsAreTakenOnce
  <2>4. ASSUME NEW g \in Handler, pc'[g] # "idle"
        PROVE  /\ deliveries[msg'[g]] = 1
               /\ pendingOrders'[msg'[g].order] # msg'[g]
               /\ \A k \in Handler : k # g /\ pc'[k] # "idle" => msg'[k] # msg'[g]
    BY <1>0, <1>2, <2>1, <2>2, <2>4 DEF PipelineInv, ObserverInv, ReportsAreTakenOnce
  <2>5. \A p \in Order : pendingOrders'[p] # NoReport =>
            deliveries[pendingOrders'[p]] = 1 /\ pendingOrders'[p].order = p
    BY <1>0, <1>2, <2>3 DEF PipelineInv, ObserverInv, ReportsAreTakenOnce
  <2>6. \A g \in Handler : pc'[g] = "record" =>
            deliveries[old'[g]] = 1 /\ old'[g].order = msg'[g].order /\ old'[g] # msg'[g]
    BY <1>0, <1>2 DEF PipelineInv, ObserverInv, ReportsAreTakenOnce
  <2> QED
    BY <1>0, <1>1, <2>4, <2>5, <2>6, SameTaken DEF PipelineInv, ObserverInv, ReportsAreTakenOnce
<1>5. /\ Busy(o)' = Busy(o) \ {h} /\ At({"delete"}, o)' = At({"delete"}, o)
      /\ h \in At({"store"}, o)
  BY <1>0, <1>1, <1>2 DEF Busy, At
<1>6. InputStays(o)'
  <2>1. counted[o] = 1 => latencyTracking[o] = <<>>
    BY <1>0, <1>2, <1>5, PaidFor DEF PipelineInv, ObserverInv
  <2> QED
    BY <1>0, <1>1, <1>2, <1>5, <2>1 DEF PipelineInv, ObserverInv, InputsStay, InputStays
<1>7. ASSUME o \notin overlapped PROVE InTurn(o)'
  <2>1. InTurn(o) /\ Busy(o) = {h}
    BY <1>0, <1>1, <1>7, AtWork
  <2>2. counted[o] = Len(latencyTracking[o]) + 1
    BY <1>0, <1>1, <1>2, <1>5, <2>1 DEF InTurn
  <2>3. Busy(o)' = {} /\ pendingOrders'[o] # NoReport
        /\ counted'[o] = Len(latencyTracking'[o]) + 1
    BY <1>0, <1>1, <1>2, <1>5, <2>1, <2>2
  <2> QED
    BY <2>3 DEF InTurn
<1> QED
  BY <1>0, <1>1, <1>2, <1>3, <1>4, <1>6, <1>7, OneOrderStays

LEMMA RecordKeeps ==
    ASSUME PipelineInv, NEW h \in Handler, Record(h), UNCHANGED workflow
    PROVE  ReportsAreTakenOnce' /\ TurnsAreKept' /\ InputsStay'
<1>0. PICK o \in Order : o = msg[h].order
  BY AtWork DEF Record
<1> DEFINE latency == Latency(msg[h], old[h])
<1>1. /\ pc[h] = "record" /\ pc' = [pc EXCEPT ![h] = "delete"]
      /\ latencyTracking' = [latencyTracking EXCEPT ![o] = Append(@, latency)]
      /\ UNCHANGED <<deliveries, msg, old, pendingOrders, counted, arrived>>
      /\ posted' = posted /\ overlapped' = overlapped
  BY <1>0 DEF Record, Goto, channel, workflow, events
<1>2. latency \in Nat
  BY <1>0, <1>1, LatencyIsNat DEF PipelineInv, ObserverInv, TypeInv, HoldsReports
<1> HIDE DEF latency
<1>3. /\ pc'[h] = "delete" /\ \A g \in Handler \ {h} : pc'[g] = pc[g]
      /\ o \in Order /\ latencyTracking[o] \in Seq(Nat)
      /\ latencyTracking'[o] = Append(latencyTracking[o], latency)
      /\ \A p \in Order \ {o} : latencyTracking'[p] = latencyTracking[p]
  BY <1>0, <1>1, AtWork DEF PipelineInv, ObserverInv, TypeInv, TypeOK
<1>4. /\ Len(latencyTracking'[o]) = Len(latencyTracking[o]) + 1 /\ latencyTracking'[o] # <<>>
      /\ Len(latencyTracking[o]) \in Nat
  BY <1>0, <1>2, <1>3
<1>5. OnlyMoves(h)
  BY <1>0, <1>1, <1>3 DEF OnlyMoves
<1>6. ReportsAreTakenOnce'
  BY <1>0, <1>1, <1>3, SameTaken DEF PipelineInv, ObserverInv, ReportsAreTakenOnce
<1>7. Busy(o)' = Busy(o) /\ h \in At({"delete"}, o)'
  BY <1>0, <1>1, <1>3 DEF Busy, At
<1>8. InputStays(o)'
  BY <1>0, <1>4, <1>7 DEF InputStays
<1>9. ASSUME o \notin overlapped PROVE InTurn(o)'
  <2>1. InTurn(o) /\ Busy(o) = {h}
    BY <1>0, <1>1, <1>9, AtWork
  <2>2. pendingOrders[o] # NoReport /\ counted[o] = Len(latencyTracking[o]) + 1
    BY <1>0, <1>1, <1>3, <1>4, <1>7, <2>1 DEF InTurn
  <2>3. Busy(o)' = {h} /\ pc'[h] = "delete" /\ pendingOrders'[o] # NoReport
        /\ counted'[o] = Len(latencyTracking'[o])
    BY <1>0, <1>1, <1>3, <1>4, <1>7, <2>1, <2>2
  <2> QED
    BY <2>3 DEF InTurn
<1> QED
  BY <1>0, <1>1, <1>3, <1>5, <1>6, <1>8, <1>9, OneOrderStays

LEMMA DeleteKeeps ==
    ASSUME PipelineInv, NEW h \in Handler, Delete(h), UNCHANGED workflow
    PROVE  ReportsAreTakenOnce' /\ TurnsAreKept' /\ InputsStay'
<1>0. PICK o \in Order : o = msg[h].order
  BY AtWork DEF Delete
<1>1. /\ pc[h] = "delete" /\ pc' = [pc EXCEPT ![h] = "idle"]
      /\ msg' = [msg EXCEPT ![h] = NoReport] /\ old' = [old EXCEPT ![h] = NoReport]
      /\ pendingOrders' = [pendingOrders EXCEPT ![o] = NoReport]
      /\ UNCHANGED <<deliveries, counted, latencyTracking, arrived>>
      /\ posted' = posted /\ overlapped' = overlapped
  BY <1>0 DEF Delete, Deleted, Return, Goto, channel, workflow, events
<1>2. /\ pc'[h] = "idle"
      /\ \A g \in Handler \ {h} : pc'[g] = pc[g] /\ msg'[g] = msg[g] /\ old'[g] = old[g]
      /\ o \in Order /\ pendingOrders'[o] = NoReport
      /\ \A p \in Order \ {o} : pendingOrders'[p] = pendingOrders[p]
  BY <1>0, <1>1, AtWork DEF PipelineInv, ObserverInv, TypeInv, TypeOK
<1>3. OnlyMoves(h)
  BY <1>0, <1>1, <1>2 DEF OnlyMoves
<1>4. ReportsAreTakenOnce'
  <2>1. \A g \in Handler : pc'[g] # "idle" =>
            g # h /\ pc[g] # "idle" /\ msg[g] \in Report /\ msg[g].order \in Order
    BY <1>0, <1>2, AtWork
  <2>2. ASSUME NEW g \in Handler, pc'[g] # "idle"
        PROVE  /\ deliveries[msg'[g]] = 1
               /\ pendingOrders'[msg'[g].order] # msg'[g]
               /\ \A k \in Handler : k # g /\ pc'[k] # "idle" => msg'[k] # msg'[g]
    BY <1>0, <1>2, <2>1, <2>2, ReportFields DEF PipelineInv, ObserverInv, ReportsAreTakenOnce
  <2>3. \A p \in Order : pendingOrders'[p] # NoReport =>
            deliveries[pendingOrders'[p]] = 1 /\ pendingOrders'[p].order = p
    BY <1>0, <1>2 DEF PipelineInv, ObserverInv, ReportsAreTakenOnce
  <2>4. \A g \in Handler : pc'[g] = "record" =>
            deliveries[old'[g]] = 1 /\ old'[g].order = msg'[g].order /\ old'[g] # msg'[g]
    BY <1>0, <1>2 DEF PipelineInv, ObserverInv, ReportsAreTakenOnce
  <2> QED
    BY <1>0, <1>1, <2>2, <2>3, <2>4, SameTaken DEF PipelineInv, ObserverInv, ReportsAreTakenOnce
<1>5. /\ Busy(o)' = Busy(o) \ {h} /\ h \in At({"delete"}, o)
      /\ At({"store"}, o)' = At({"store"}, o)
  BY <1>0, <1>1, <1>2 DEF Busy, At
<1>6. InputStays(o)'
  BY <1>0, <1>1, <1>2, <1>5 DEF PipelineInv, ObserverInv, InputsStay, InputStays
<1>7. ASSUME o \notin overlapped PROVE InTurn(o)'
  <2>1. InTurn(o) /\ Busy(o) = {h}
    BY <1>0, <1>1, <1>7, AtWork
  <2>2. counted[o] = Len(latencyTracking[o])
    BY <1>0, <1>1, <1>2, <1>5, <2>1 DEF InTurn
  <2>3. Busy(o)' = {} /\ pendingOrders'[o] = NoReport
        /\ counted'[o] = Len(latencyTracking'[o])
    BY <1>0, <1>1, <1>2, <1>5, <2>1, <2>2
  <2> QED
    BY <2>3 DEF InTurn
<1> QED
  BY <1>0, <1>1, <1>2, <1>3, <1>4, <1>6, <1>7, OneOrderStays

LEMMA TakeReportKeeps ==
    ASSUME PipelineInv, NEW h \in Handler, NEW r \in posted, TakeReport(h, r)
    PROVE  ReportsAreTakenOnce' /\ TurnsAreKept' /\ InputsStay'
<1> DEFINE o == r.order
<1>1. /\ pc[h] = "idle" /\ deliveries[r] = 0
      /\ deliveries' = [deliveries EXCEPT ![r] = @ + 1]
      /\ pc' = [pc EXCEPT ![h] = "load"] /\ msg' = [msg EXCEPT ![h] = r]
      /\ arrived' = [arrived EXCEPT ![o] = @ + 1]
      /\ UNCHANGED <<old, pendingOrders, counted, latencyTracking>>
      /\ posted' = posted
      /\ overlapped' = IF \E g \in Handler : pc[g] # "idle" /\ msg[g].order = o
                       THEN overlapped \cup {o} ELSE overlapped
  BY DEF TakeReport, Receive, Deliver, Goto, memory, events
<1>2. /\ r \in Report /\ o \in Order /\ r # NoReport /\ deliveries[r] = 0 /\ deliveries'[r] = 1
      /\ \A q \in Report \ {r} : deliveries'[q] = deliveries[q]
      /\ pc'[h] = "load" /\ msg'[h] = r
      /\ \A g \in Handler \ {h} : pc'[g] = pc[g] /\ msg'[g] = msg[g]
      /\ arrived[o] \in Nat /\ arrived'[o] = arrived[o] + 1
      /\ \A p \in Order \ {o} : arrived'[p] = arrived[p]
  BY <1>1, PostedForm, ReportFields, Numbers
     DEF PipelineInv, ObserverInv, TypeInv, TypeOK
<1>3. OnlyMoves(h)
  BY <1>2 DEF OnlyMoves
<1>4. \A p \in Order : pendingOrders[p] # NoReport => pendingOrders[p] \in Report \ {r}
  BY <1>2 DEF PipelineInv, ObserverInv, TypeInv, TypeOK, ReportsAreTakenOnce
<1>5. \A g \in Handler : pc[g] # "idle" =>
          g # h /\ msg[g] \in Report \ {r} /\ msg[g].order \in Order
  BY <1>1, <1>2, AtWork DEF PipelineInv, ObserverInv, ReportsAreTakenOnce
<1>6. ReportsAreTakenOnce'
  <2>1. \A q \in Report : deliveries'[q] # 0 => q \in posted
    BY <1>2 DEF PipelineInv, ObserverInv, ReportsAreTakenOnce
  <2>2. ASSUME NEW g \in Handler, pc'[g] # "idle"
        PROVE  /\ deliveries'[msg'[g]] = 1
               /\ pendingOrders[msg'[g].order] # msg'[g]
               /\ \A k \in Handler : k # g /\ pc'[k] # "idle" => msg'[k] # msg'[g]
    <3>1. CASE g = h
      BY <1>2, <1>4, <1>5, <3>1
    <3>2. CASE g # h
      BY <1>2, <1>5, <2>2, <3>2 DEF PipelineInv, ObserverInv, ReportsAreTakenOnce
    <3> QED
      BY <3>1, <3>2
  <2>3. \A p \in Order : pendingOrders[p] # NoReport =>
            deliveries'[pendingOrders[p]] = 1 /\ pendingOrders[p].order = p
    BY <1>2, <1>4 DEF PipelineInv, ObserverInv, ReportsAreTakenOnce
  <2>4. \A g \in Handler : pc'[g] = "record" =>
            deliveries'[old[g]] = 1 /\ old[g].order = msg'[g].order /\ old[g] # msg'[g]
    <3> SUFFICES ASSUME NEW g \in Handler, pc'[g] = "record"
                 PROVE  deliveries'[old[g]] = 1 /\ old[g].order = msg'[g].order
                        /\ old[g] # msg'[g]
      OBVIOUS
    <3>1. g # h /\ pc[g] = "record" /\ msg'[g] = msg[g]
      BY <1>2
    <3>2. /\ deliveries[old[g]] = 1 /\ old[g].order = msg[g].order /\ old[g] # msg[g]
          /\ old[g] \in Report
      BY <3>1 DEF PipelineInv, ObserverInv, ReportsAreTakenOnce, TypeInv, HoldsReports
    <3> QED
      BY <1>2, <3>1, <3>2
  <2>5. ASSUME NEW p \in Order PROVE arrived'[p] = Cardinality(Taken(p)')
    <3>1. \A q \in Reports(p) : q \in Report
      BY PostedForm DEF PipelineInv, Reports
    <3>2. arrived[p] = Cardinality(Taken(p)) /\ IsFiniteSet(Taken(p))
      <4>1. IsFiniteSet(Reports(p)) /\ Taken(p) \subseteq Reports(p)
        BY DEF PipelineInv, WorkflowInv, CopiesAreAccounted, Taken
      <4> QED
        BY <4>1, FS_Subset DEF PipelineInv, ObserverInv, ReportsAreTakenOnce
    <3>3. CASE p = o
      <4>1. Taken(p)' = Taken(p) \cup {r} /\ r \notin Taken(p)
        BY <1>1, <1>2, <3>1, <3>3 DEF Taken, Reports
      <4>2. Cardinality(Taken(p) \cup {r}) = Cardinality(Taken(p)) + 1
        BY <3>2, <4>1, FS_AddElement
      <4>3. arrived'[p] = arrived[p] + 1
        BY <1>2, <3>3
      <4> QED
        BY <3>2, <4>1, <4>2, <4>3
    <3>4. CASE p # o
      <4>1. Taken(p)' = Taken(p)
        BY <1>1, <1>2, <3>1, <3>4 DEF Taken, Reports
      <4> QED
        BY <1>2, <3>2, <3>4, <4>1
    <3> QED
      BY <3>3, <3>4
  <2> QED
    BY <1>1, <2>1, <2>2, <2>3, <2>4, <2>5 DEF ReportsAreTakenOnce
<1>7. ASSUME NEW p \in Order
      PROVE  /\ p \notin overlapped' /\ p # o => InTurn(p)'
             /\ p # o => InputStays(p)'
  <2>1. p # o => (InTurn(p) => InTurn(p)') /\ (InputStays(p) => InputStays(p)')
    BY <1>1, <1>2, <1>3, OtherTurns
  <2>2. p \notin overlapped' => p \notin overlapped
    BY <1>1
  <2> QED
    BY <2>1, <2>2 DEF PipelineInv, ObserverInv, TurnsAreKept, InputsStay
<1>8. PICK mine \in Order : mine = o
  BY <1>2
<1>9. InputStays(mine)'
  <2>1. /\ At({"delete"}, mine)' = At({"delete"}, mine)
        /\ At({"store"}, mine)' = At({"store"}, mine)
    BY <1>1, <1>2 DEF At
  <2> QED
    BY <1>1, <2>1 DEF PipelineInv, ObserverInv, InputsStay, InputStays
<1>10. ASSUME mine \notin overlapped' PROVE InTurn(mine)'
  <2>1. /\ mine \notin overlapped
        /\ \A g \in Handler : ~(pc[g] # "idle" /\ msg[g].order = mine)
    BY <1>1, <1>8, <1>10
  <2>2. Busy(mine) = {} /\ InTurn(mine)
    BY <2>1 DEF Busy, At, PipelineInv, ObserverInv, TurnsAreKept
  <2>3. Busy(mine)' = {h}
    BY <1>2, <1>8, <2>1 DEF Busy, At
  <2>4. counted[mine] = Len(latencyTracking[mine])
                            + (IF pendingOrders[mine] # NoReport THEN 1 ELSE 0)
    BY <2>2 DEF InTurn
  <2> QED
    BY <1>1, <1>2, <2>3, <2>4 DEF InTurn
<1>11. overlapped' \subseteq Order /\ (overlapped' # {} => Cardinality(Handler) > 1)
  <2>1. CASE overlapped' = overlapped
    BY <2>1 DEF PipelineInv, ObserverInv, TurnsAreKept
  <2>2. ASSUME NEW g \in Handler, pc[g] # "idle", overlapped' = overlapped \cup {o}
        PROVE  overlapped' \subseteq Order /\ Cardinality(Handler) > 1
    <3>1. g # h /\ {g, h} \subseteq Handler
      BY <1>1, <2>2
    <3>2. Cardinality({g, h}) = 2
      <4>1. IsFiniteSet({g}) /\ Cardinality({g}) = 1 /\ h \notin {g}
        BY <3>1, FS_Singleton
      <4>2. Cardinality({g} \cup {h}) = 2
        <5> DEFINE S == {g}
        <5>1. IsFiniteSet(S) /\ Cardinality(S) = 1 /\ h \notin S
          BY <4>1
        <5> HIDE DEF S
        <5>2. Cardinality(S \cup {h}) = Cardinality(S) + 1
          BY <5>1, FS_AddElement
        <5> QED
          BY <5>1, <5>2 DEF S
      <4>3. {g} \cup {h} = {g, h}
        OBVIOUS
      <4> QED
        BY <4>2, <4>3
    <3>3. Cardinality({g, h}) <= Cardinality(Handler) /\ Cardinality(Handler) \in Nat
      BY <3>1, HandlerAssumption, FS_Subset, FS_CardinalityType
    <3> QED
      BY <1>2, <2>2, <3>2, <3>3 DEF PipelineInv, ObserverInv, TurnsAreKept
  <2> QED
    BY <1>1, <2>1, <2>2
<1>12. TurnsAreKept'
  BY <1>7, <1>8, <1>10, <1>11 DEF TurnsAreKept
<1>13. InputsStay'
  BY <1>7, <1>8, <1>9 DEF InputsStay
<1> QED
  BY <1>6, <1>12, <1>13

--------------------------------------------------------------------------------
(* The invariant.                                                          *)

\* Every step is a step of the observer, or leaves it alone.
LEMMA ObserverStep == WorkflowInv /\ [PipelineNext]_pipelineVars => [Next]_vars
<1> SUFFICES ASSUME WorkflowInv, [PipelineNext]_pipelineVars PROVE [Next]_vars
  OBVIOUS
<1>1. ASSUME NEW o \in Order, Place(o) \/ Function(o) PROVE UNCHANGED vars
  BY <1>1 DEF Place, Function, Forward, ForwardUnanswered, LoseSend
<1>2. ASSUME NEW h \in Handler, NEW r \in posted, TakeReport(h, r) PROVE Next
  BY <1>2, PostedForm DEF TakeReport, Next
<1>3. ASSUME NEW h \in Handler, Step(h) PROVE Next
  BY <1>3 DEF Next
<1>4. CASE UNCHANGED pipelineVars
  BY <1>4 DEF pipelineVars
<1> QED
  BY <1>1, <1>2, <1>3, <1>4 DEF PipelineNext

LEMMA InitPipeline == PipelineInit => PipelineInv
<1> SUFFICES ASSUME PipelineInit PROVE PipelineInv
  OBVIOUS
<1>1. Init /\ placed = {} /\ posted = {} /\ overlapped = {}
  BY DEF PipelineInit
<1>2. TypeInv /\ Accounts /\ WorkflowInv
  BY <1>1, InitTypes, InitAccounts, InitWorkflow
<1>3. /\ \A h \in Handler : pc[h] = "idle"
      /\ \A o \in Order : /\ pendingOrders[o] = NoReport /\ counted[o] = 0 /\ arrived[o] = 0
                          /\ latencyTracking[o] = <<>> /\ Len(latencyTracking[o]) = 0
      /\ \A r \in Report : deliveries[r] = 0
  BY <1>1 DEF Init, Idle, Nothing, Zero, Unmeasured
<1>4. \A o : Taken(o) = {} /\ Busy(o) = {} /\ At({"delete"}, o) = {}
  BY <1>1, <1>3 DEF Taken, Reports, Busy, At
<1>5. ReportsAreTakenOnce
  BY <1>3, <1>4, FS_EmptySet DEF ReportsAreTakenOnce
<1>6. TurnsAreKept
  <2>1. ASSUME NEW o \in Order PROVE InTurn(o)
    <3>1. /\ Busy(o) = {} /\ pendingOrders[o] = NoReport
          /\ counted[o] = 0 /\ Len(latencyTracking[o]) = 0
      BY <1>3, <1>4
    <3>2. counted[o] = Len(latencyTracking[o]) + (IF pendingOrders[o] # NoReport THEN 1 ELSE 0)
      BY <3>1
    <3> QED
      BY <3>1, <3>2 DEF InTurn
  <2> QED
    BY <1>1, <2>1 DEF TurnsAreKept
<1>7. InputsStay
  BY <1>3, <1>4 DEF InputsStay, InputStays
<1> QED
  BY <1>2, <1>5, <1>6, <1>7 DEF PipelineInv, ObserverInv

LEMMA NextPipeline == PipelineInv /\ [PipelineNext]_pipelineVars => PipelineInv'
<1> SUFFICES ASSUME PipelineInv, [PipelineNext]_pipelineVars PROVE PipelineInv'
  OBVIOUS
<1>1. TypeInv' /\ Accounts'
  BY ObserverStep, NextTypes, NextAccounts DEF PipelineInv, ObserverInv
<1>2. ASSUME NEW o \in Order, Place(o) PROVE PipelineInv'
  <2>1. WorkflowInv' /\ UNCHANGED vars /\ UNCHANGED overlapped /\ posted \subseteq posted'
    BY <1>2, PlaceWorkflow DEF PipelineInv, Place
  <2> QED
    BY <2>1, WorkflowStep DEF PipelineInv
<1>3. ASSUME NEW e \in channels, Forward(e) \/ ForwardUnanswered(e) \/ LoseSend(e)
      PROVE  PipelineInv'
  <2>1. WorkflowInv'
    BY <1>3, ForwardWorkflow, ForwardUnansweredWorkflow, LoseSendWorkflow DEF PipelineInv
  <2>2. UNCHANGED vars /\ UNCHANGED overlapped /\ posted \subseteq posted'
    BY <1>3 DEF Forward, ForwardUnanswered, LoseSend, Send
  <2> QED
    BY <2>1, <2>2, WorkflowStep DEF PipelineInv
<1>4. ASSUME UNCHANGED events PROVE WorkflowInv'
  BY <1>4 DEF events, PipelineInv, WorkflowInv, EventsAreNumbered, ReportsAreOfCopies,
              CopiesAreAccounted, Reports, Copies
<1>5. ASSUME NEW h \in Handler, NEW r \in posted, TakeReport(h, r) PROVE PipelineInv'
  BY <1>1, <1>4, <1>5, TakeReportKeeps DEF TakeReport, PipelineInv, ObserverInv
<1>6. ASSUME NEW h \in Handler, Step(h), UNCHANGED workflow PROVE PipelineInv'
  <2>1. ReportsAreTakenOnce' /\ TurnsAreKept' /\ InputsStay'
    BY <1>6, LoadMissKeeps, LoadHitKeeps, CountKeeps, StoreKeeps, RecordKeeps, DeleteKeeps,
       NoPanic DEF Step
  <2> QED
    BY <1>1, <1>4, <1>6, <2>1 DEF workflow, PipelineInv, ObserverInv
<1>7. CASE UNCHANGED pipelineVars
  <2>1. UNCHANGED vars /\ UNCHANGED overlapped /\ posted' = posted /\ UNCHANGED events
    BY <1>7 DEF pipelineVars, workflow, events
  <2> QED
    BY <1>4, <2>1, WorkflowStep DEF PipelineInv
<1> QED
  BY <1>2, <1>3, <1>5, <1>6, <1>7 DEF PipelineNext, Function

LEMMA SpecPipeline == PipelineSpec => []PipelineInv
BY InitPipeline, NextPipeline, PTL DEF PipelineSpec

--------------------------------------------------------------------------------
(* The theorems.                                                           *)

\* The observer's loop over the tasks never reads past the mid timestamps of a pair
\* (observer.go 69-74), whatever the functions lose, copy and reorder and however the handlers
\* interleave, as long as each report is delivered once.
THEOREM MidTimestampsSuffice == PipelineSpec => []MidsCoverTasks
BY SpecPipeline, MidsCover, PTL

LEMMA Halves ==
    \A k \in Nat : /\ (k + k) \div 2 = k /\ (k + k) % 2 = 0
                   /\ (k + k + 1) \div 2 = k /\ (k + k + 1) % 2 = 1
OBVIOUS

\* When nothing of an order is on its way its reports are those of its copies, all counted
\* or measured.
LEMMA QuietAccounts ==
    ASSUME PipelineInv, NEW o \in Order, Quiet(o)
    PROVE  /\ Busy(o) = {}
           /\ Cardinality(Reports(o)) = 2 + copies[o] - lost[o]
           /\ Cardinality(Reports(o)) = counted[o] + Len(latencyTracking[o])
           /\ counted[o] \in Nat /\ Len(latencyTracking[o]) \in Nat
           /\ latencyTracking[o] = <<>> <=> Len(latencyTracking[o]) = 0
<1> USE DEF PipelineInv, ObserverInv
<1>1. Busy(o) = {}
  BY DEF Quiet, Busy
<1>2. Cardinality(Reports(o)) = 2 + copies[o] - lost[o]
  <2>1. /\ IsFiniteSet(Reports(o)) /\ Copies(o) = {}
        /\ Cardinality(Reports(o)) + Cardinality(Copies(o)) + lost[o] = 2 + copies[o]
    BY DEF Quiet, WorkflowInv, CopiesAreAccounted
  <2>2. Cardinality(Reports(o)) \in Nat /\ Cardinality(Copies(o)) = 0
    BY <2>1, FS_CardinalityType, FS_EmptySet
  <2>3. copies[o] \in Nat /\ lost[o] \in Nat
    BY Numbers DEF WorkflowInv
  <2> QED
    BY <2>1, <2>2, <2>3
<1>3. arrived[o] = Cardinality(Reports(o))
  <2>1. Taken(o) = Reports(o)
    BY DEF Quiet, Taken
  <2> QED
    BY <2>1 DEF ReportsAreTakenOnce
<1>4. arrived[o] = counted[o] + Len(latencyTracking[o]) + Undec(o)
  BY AccountsByOrder DEF Balanced
<1>5. Undec(o) = 0
  <2>1. At({"load", "count", "record"}, o) = {}
    BY <1>1 DEF Busy, At
  <2> QED
    BY <2>1, FS_EmptySet DEF Undec
<1>6. /\ counted[o] \in Nat /\ latencyTracking[o] \in Seq(Nat)
      /\ Len(latencyTracking[o]) \in Nat
  BY DEF TypeInv, TypeOK
<1> QED
  BY <1>1, <1>2, <1>3, <1>4, <1>5, <1>6

\* Whatever functions fail and handlers interleave, an order comes to rest with one report of
\* the first channel and one of each copy that was not lost, in pairs of an input counted and
\* a latency measured; if two of its reports met in the handlers (observer.go 58-82) and there
\* were only these, it was measured or stranded.
THEOREM OrdersComeToRest == PipelineSpec => []SettledOutcome
<1>1. ASSUME PipelineInv, NEW o \in Order, Quiet(o)
      PROVE  /\ Cardinality(Reports(o)) = 2 + copies[o] - lost[o]
             /\ o \notin overlapped => Paired(o)
             /\ o \in overlapped /\ Cardinality(Reports(o)) = 2 => Measured(o) \/ Stranded(o)
  <2> DEFINE n == Cardinality(Reports(o))
             len == Len(latencyTracking[o])
  <2>1. /\ Busy(o) = {} /\ n = 2 + copies[o] - lost[o] /\ n = counted[o] + len
        /\ counted[o] \in Nat /\ len \in Nat
        /\ latencyTracking[o] = <<>> <=> len = 0
    BY <1>1, QuietAccounts
  <2>2. ASSUME o \notin overlapped PROVE Paired(o)
    <3>1. counted[o] = len + (IF pendingOrders[o] # NoReport THEN 1 ELSE 0)
      BY <1>1, <2>1, <2>2 DEF PipelineInv, ObserverInv, TurnsAreKept, InTurn
    <3>2. CASE pendingOrders[o] # NoReport
      <4> HIDE DEF n, len
      <4>1. n = len + len + 1
        BY <2>1, <3>1, <3>2
      <4>2. n \div 2 = len /\ n % 2 = 1 /\ counted[o] = n - len
        BY <2>1, <3>1, <3>2, <4>1, Halves
      <4> QED
        BY <3>2, <4>2 DEF Paired, n, len
    <3>3. CASE pendingOrders[o] = NoReport
      <4> HIDE DEF n, len
      <4>1. n = len + len
        BY <2>1, <3>1, <3>3
      <4>2. n \div 2 = len /\ n % 2 = 0 /\ counted[o] = n - len
        BY <2>1, <3>1, <3>3, <4>1, Halves
      <4> QED
        BY <3>3, <4>2 DEF Paired, n, len
    <3> QED
      BY <3>2, <3>3
  <2>3. ASSUME n = 2 PROVE Measured(o) \/ Stranded(o)
    <3>1. At({"store"}, o) = {} /\ At({"delete"}, o) = {}
      BY <2>1 DEF Busy, At
    <3>2. counted[o] # 0
      BY <1>1, <2>1, <2>3, PaidFor DEF PipelineInv, ObserverInv
    <3>3. CASE counted[o] = 1
      <4>1. len = 1 /\ latencyTracking[o] # <<>>
        <5> HIDE DEF n, len
        <5> QED
          BY <2>1, <2>3, <3>3
      <4> QED
        BY <1>1, <3>1, <3>3, <4>1
           DEF Measured, PipelineInv, ObserverInv, InputsStay, InputStays
    <3>4. CASE counted[o] = 2
      <4>1. latencyTracking[o] = <<>>
        BY <2>1, <2>3, <3>4
      <4> QED
        BY <1>1, <3>1, <3>4, <4>1
           DEF Stranded, PipelineInv, ObserverInv, InputsStay, InputStays
    <3> QED
      BY <2>1, <2>3, <3>2, <3>3, <3>4
  <2> QED
    BY <2>1, <2>2, <2>3
<1>2. PipelineInv => SettledOutcome
  BY <1>1 DEF SettledOutcome
<1> QED
  BY <1>2, SpecPipeline, PTL

--------------------------------------------------------------------------------
(* The ledger.  An order whose functions do not fail has two reports: of   *)
(* the two decisions that its handlers make the first counts it, and the   *)
(* second measures or strands it.                                          *)

LEMMA SturdyOrder == \A o \in Sturdy : o \in Order /\ o \notin Fragile
BY DEF Sturdy

LEMMA TwoReports ==
    ASSUME PipelineInv, NEW o \in Sturdy
    PROVE  arrived[o] <= 2
<1> DEFINE both == {InputReport(o)} \cup {OutputReport(o, 0, Tasks)}
<1>1. Taken(o) \subseteq both
  BY PostedForm, SturdyOrder DEF Taken, Reports, PipelineInv
<1>2. IsFiniteSet(both) /\ Cardinality(both) = 2
  <2>1. IsFiniteSet({InputReport(o)}) /\ Cardinality({InputReport(o)}) = 1
    BY FS_Singleton
  <2>2. OutputReport(o, 0, Tasks) \notin {InputReport(o)}
    BY SturdyOrder, OutputForm
  <2> DEFINE one == {InputReport(o)}
  <2> HIDE DEF one
  <2>3. IsFiniteSet(one \cup {OutputReport(o, 0, Tasks)})
        /\ Cardinality(one \cup {OutputReport(o, 0, Tasks)}) = Cardinality(one) + 1
    BY <2>1, <2>2, FS_AddElement DEF one
  <2> QED
    BY <2>1, <2>3 DEF one
<1> HIDE DEF both
<1>3. Cardinality(Taken(o)) <= 2
  BY <1>1, <1>2, FS_Subset
<1> QED
  BY <1>3, SturdyOrder DEF PipelineInv, ObserverInv, ReportsAreTakenOnce

\* A decision under way is the first or the second.
LEMMA Deciding ==
    ASSUME PipelineInv, NEW h \in Handler, NEW o \in Sturdy, msg[h].order = o,
           pc[h] \in {"count", "record"}
    PROVE  /\ counted[o] \in Nat /\ latencyTracking[o] \in Seq(Nat)
           /\ counted[o] <= 1
           /\ latencyTracking[o] = <<>>
           /\ pc[h] = "record" => counted[o] = 1
<1> USE DEF PipelineInv, ObserverInv
<1>0. o \in Order
  BY SturdyOrder
<1>1. /\ counted[o] \in Nat /\ latencyTracking[o] \in Seq(Nat)
      /\ Len(latencyTracking[o]) \in Nat
  BY <1>0 DEF TypeInv, TypeOK
<1>2. Undec(o) \in Nat /\ Undec(o) # 0
  <2>1. h \in At({"load", "count", "record"}, o)
    BY DEF At
  <2> QED
    BY <2>1, AtFinite, FS_EmptySet DEF Undec
<1>3. counted[o] + Len(latencyTracking[o]) <= 1
  <2>1. arrived[o] = counted[o] + Len(latencyTracking[o]) + Undec(o)
    BY <1>0, AccountsByOrder DEF Balanced
  <2> DEFINE len == Len(latencyTracking[o])
  <2> HIDE DEF len
  <2>2. counted[o] + len <= 1
    BY <1>1, <1>2, <2>1, TwoReports DEF len
  <2> QED
    BY <2>2 DEF len
<1>4. counted[o] = 0 => latencyTracking[o] = <<>> /\ pc[h] # "record"
  <2>1. pc[h] = "record" => h \in At({"record"}, o)
    BY DEF At
  <2> QED
    BY <1>0, <2>1, PaidFor
<1>5. counted[o] <= 1 /\ (counted[o] = 1 => latencyTracking[o] = <<>>)
  <2> DEFINE len == Len(latencyTracking[o])
  <2>1. len = 0 => latencyTracking[o] = <<>>
    BY <1>1
  <2>2. counted[o] + len <= 1 /\ len \in Nat
    BY <1>1, <1>3
  <2> HIDE DEF len
  <2> QED
    BY <1>1, <2>1, <2>2
<1> QED
  BY <1>1, <1>4, <1>5

\* The two reports that a handler matches are the order's input and its output.
LEMMA EndToEndLatency ==
    ASSUME PipelineInv, NEW h \in Handler, NEW o \in Sturdy, msg[h].order = o,
           pc[h] = "record"
    PROVE  Latency(msg[h], old[h]) = EndToEnd[o]
<1> USE DEF PipelineInv, ObserverInv
<1>1. /\ msg[h] \in posted /\ old[h] \in posted /\ old[h].order = o /\ old[h] # msg[h]
  BY DEF ReportsAreTakenOnce, TypeInv, HoldsReports
<1>2. /\ msg[h] \in {InputReport(o), OutputReport(o, 0, Tasks)}
      /\ old[h] \in {InputReport(o), OutputReport(o, 0, Tasks)}
  BY <1>1, PostedForm, SturdyOrder
<1>3. /\ InputReport(o).stamp = PlacedAt[o]
      /\ OutputReport(o, 0, Tasks).stamp = PlacedAt[o] + Duration[o] + 0
      /\ PlacedAt[o] \in Nat /\ Duration[o] \in Nat /\ EndToEnd[o] = Duration[o]
  BY SturdyOrder, InputForm, OutputForm, Numbers DEF EndToEnd
<1> QED
  BY <1>1, <1>2, <1>3 DEF Latency

LEMMA InitIsLedger == PipelineInit => Ledger!Init
BY SturdyOrder DEF PipelineInit, Init, Zero, Unmeasured, OfSturdy, Ledger!Init

LEMMA CountIsLedger ==
    ASSUME PipelineInv, NEW h \in Handler, Count(h)
    PROVE  [Ledger!Next]_<<OfSturdy(counted), OfSturdy(latencyTracking)>>
<1>0. PICK o \in Order : o = msg[h].order
  BY AtWork DEF Count
<1>1. /\ pc[h] = "count" /\ counted' = [counted EXCEPT ![o] = @ + 1]
      /\ latencyTracking' = latencyTracking
  BY <1>0 DEF Count
<1>2. counted \in [Order -> Nat]
  BY DEF PipelineInv, ObserverInv, TypeInv, TypeOK
<1>3. OfSturdy(latencyTracking)' = OfSturdy(latencyTracking)
  BY <1>1 DEF OfSturdy
<1>4. CASE o \notin Sturdy
  <2>1. OfSturdy(counted)' = OfSturdy(counted)
    BY <1>1, <1>2, <1>4, SturdyOrder DEF OfSturdy
  <2> QED
    BY <1>3, <2>1
<1>5. CASE o \in Sturdy
  <2>1. counted[o] \in {0, 1} /\ latencyTracking[o] = <<>>
    BY <1>0, <1>1, <1>5, Deciding
  <2>2. OfSturdy(counted)[o] = counted[o] /\ OfSturdy(latencyTracking)[o] = <<>>
    BY <1>5, <2>1 DEF OfSturdy
  <2>3. OfSturdy(counted)' = [OfSturdy(counted) EXCEPT ![o] = counted[o] + 1]
    BY <1>1, <1>2, <1>5, SturdyOrder DEF OfSturdy
  <2>4. CASE counted[o] = 0
    <3>1. OfSturdy(counted)' = [OfSturdy(counted) EXCEPT ![o] = 1]
      BY <2>3, <2>4
    <3> QED
      BY <1>3, <1>5, <2>2, <2>4, <3>1 DEF Ledger!Next, Ledger!Open
  <2>5. CASE counted[o] = 1
    <3>1. Len(latencyTracking[o]) = 0
      BY <2>1
    <3>2. o \in overlapped
      <4>1. o \notin overlapped => InTurn(o) /\ h \in Busy(o)
        BY <1>0, <1>1, AtWork
      <4>2. o \notin overlapped => counted[o] = Len(latencyTracking[o])
        BY <1>1, <4>1 DEF InTurn
      <4> QED
        BY <2>5, <3>1, <4>2
    <3>3. Cardinality(Handler) > 1
      BY <3>2 DEF PipelineInv, ObserverInv, TurnsAreKept
    <3>4. OfSturdy(counted)' = [OfSturdy(counted) EXCEPT ![o] = 2]
      BY <2>3, <2>5
    <3> QED
      BY <1>3, <1>5, <2>2, <2>5, <3>3, <3>4 DEF Ledger!Next, Ledger!Strand
  <2> QED
    BY <2>1, <2>4, <2>5
<1> QED
  BY <1>4, <1>5

LEMMA RecordIsLedger ==
    ASSUME PipelineInv, NEW h \in Handler, Record(h)
    PROVE  [Ledger!Next]_<<OfSturdy(counted), OfSturdy(latencyTracking)>>
<1>0. PICK o \in Order : o = msg[h].order
  BY AtWork DEF Record
<1>1. /\ pc[h] = "record" /\ counted' = counted
      /\ latencyTracking' =
             [latencyTracking EXCEPT ![o] = Append(@, Latency(msg[h], old[h]))]
  BY <1>0 DEF Record
<1>2. latencyTracking \in [Order -> Seq(Nat)]
  BY DEF PipelineInv, ObserverInv, TypeInv, TypeOK
<1>3. OfSturdy(counted)' = OfSturdy(counted)
  BY <1>1 DEF OfSturdy
<1>4. CASE o \notin Sturdy
  <2>1. OfSturdy(latencyTracking)' = OfSturdy(latencyTracking)
    BY <1>1, <1>2, <1>4, SturdyOrder DEF OfSturdy
  <2> QED
    BY <1>3, <2>1
<1>5. CASE o \in Sturdy
  <2>1. counted[o] = 1 /\ latencyTracking[o] = <<>>
    BY <1>0, <1>1, <1>5, Deciding
  <2>2. OfSturdy(counted)[o] = 1 /\ OfSturdy(latencyTracking)[o] = <<>>
    BY <1>5, <2>1 DEF OfSturdy
  <2>3. latencyTracking' = [latencyTracking EXCEPT ![o] = <<EndToEnd[o]>>]
    <3>1. Latency(msg[h], old[h]) = EndToEnd[o]
      BY <1>0, <1>1, <1>5, EndToEndLatency
    <3>2. Append(<<>>, EndToEnd[o]) = <<EndToEnd[o]>>
      OBVIOUS
    <3> QED
      BY <1>1, <2>1, <3>1, <3>2
  <2>4. OfSturdy(latencyTracking)' = [OfSturdy(latencyTracking) EXCEPT ![o] = <<EndToEnd[o]>>]
    BY <1>2, <1>5, <2>3, SturdyOrder DEF OfSturdy
  <2> QED
    BY <1>3, <1>5, <2>2, <2>4 DEF Ledger!Next, Ledger!Measure
<1> QED
  BY <1>4, <1>5

LEMMA NextIsLedger ==
    PipelineInv /\ [PipelineNext]_pipelineVars
        => [Ledger!Next]_<<OfSturdy(counted), OfSturdy(latencyTracking)>>
<1> SUFFICES ASSUME PipelineInv, [PipelineNext]_pipelineVars
             PROVE  [Ledger!Next]_<<OfSturdy(counted), OfSturdy(latencyTracking)>>
  OBVIOUS
<1>1. ASSUME UNCHANGED <<counted, latencyTracking>>
      PROVE  UNCHANGED <<OfSturdy(counted), OfSturdy(latencyTracking)>>
  BY <1>1 DEF OfSturdy
<1>2. ASSUME NEW o \in Order, Place(o) \/ Function(o)
      PROVE  UNCHANGED <<counted, latencyTracking>>
  BY <1>2 DEF Place, Function, Forward, ForwardUnanswered, LoseSend, vars
<1>3. ASSUME NEW h \in Handler, NEW r \in posted, TakeReport(h, r)
      PROVE  UNCHANGED <<counted, latencyTracking>>
  BY <1>3 DEF TakeReport, Receive, memory
<1>4. ASSUME NEW h \in Handler, LoadMiss(h) \/ LoadHit(h) \/ Store(h) \/ Delete(h)
      PROVE  UNCHANGED <<counted, latencyTracking>>
  BY <1>4 DEF LoadMiss, LoadHit, Store, Delete, memory
<1>5. CASE UNCHANGED pipelineVars
  BY <1>1, <1>5 DEF pipelineVars, vars
<1> QED
  BY <1>1, <1>2, <1>3, <1>4, <1>5, CountIsLedger, RecordIsLedger, NoPanic
     DEF PipelineNext, Step

\* The workflow keeps what OrderLedger promises for every order whose functions do not fail:
\* it is counted, then measured once, with its end-to-end latency, or stranded when there are
\* handlers enough to take its two reports at once.
THEOREM PipelineKeepsLedger == PipelineSpec => ImplementsLedger
<1>1. PipelineInit => Ledger!Init
  BY InitIsLedger
<1>2. PipelineInv /\ [PipelineNext]_pipelineVars
          => [Ledger!Next]_<<OfSturdy(counted), OfSturdy(latencyTracking)>>
  BY NextIsLedger
<1> QED
  BY <1>1, <1>2, SpecPipeline, PTL
     DEF PipelineSpec, ImplementsLedger, Ledger!Spec, Ledger!ledger
================================================================================
