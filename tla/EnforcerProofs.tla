----------------------------- MODULE EnforcerProofs ----------------------------
(***************************************************************************)
(* The enforcer and the API server, for any workflow, services, rates and  *)
(* annotations, and any number of deployments, deletions and kills.  The   *)
(* invariant says that the copy the enforcer holds is an older one of the  *)
(* service, without the reservation, or the service itself; the API        *)
(* server's check of the version then makes every update one that is due.  *)
(***************************************************************************)
EXTENDS Enforcer, TLAPS

\* Reconcile is at a task of the workflow.
AtATask == pc \in {"get", "update"} => task \in DOMAIN Tasks

\* The copy that was got is of a service without the reservation; it has the version of the
\* API server's service only if it is that service.
CopyIsOlder ==
    pc = "update" =>
        LET current == services[Tasks[task]]
        IN  /\ ~Reserved(service)
            /\ service.version <= current.version
            /\ service.version = current.version => service = current

\* Each deployment is answered by one update, after which the service has its reservation.
UpdatesAreAnswers ==
    \A s \in Service :
        updates[s] <= deploys[s] + (IF Reserved(services[s]) THEN 1 ELSE 0)

Inv == TypeOK /\ AtATask /\ CopyIsOlder /\ UpdatesAreAnswers

--------------------------------------------------------------------------------
(* The operators of the model keep their types.                            *)

LEMMA TaskIsService == \A k \in DOMAIN Tasks : Tasks[k] \in Service
BY TasksAssumption

LEMMA DeployedType ==
    ASSUME NEW m \in MinScales \cup {1}, NEW b \in Bare, NEW v \in Nat
    PROVE  Deployed(m, b, v) \in Template /\ Deployed(m, b, v).version = v
<1>1. b \in BOOLEAN
  BY BareAssumption
<1> QED
  BY <1>1 DEF Deployed, Template

LEMMA NoServiceType == NoService \in Template
BY DeployedType, BareAssumption DEF NoService

LEMMA UpgradedType ==
    ASSUME NEW s \in Template
    PROVE  /\ Upgraded(s) \in Template
           /\ Upgraded(s).version = s.version + 1
           /\ Reserved(Upgraded(s))
<1> DEFINE scaled == [s EXCEPT !.minScale = 1]
           sized == [scaled EXCEPT !.upgraded = TRUE]
<1>1. scaled \in Template
  BY DEF Template
<1>2. sized \in Template
  BY <1>1 DEF Template
<1>3. Upgraded(s) = [[[s EXCEPT !.minScale = 1] EXCEPT !.upgraded = TRUE] EXCEPT !.version = @ + 1]
  BY DEF Upgraded
<1>4. Upgraded(s) \in Template
  <2>1. ASSUME NEW t \in Template PROVE [t EXCEPT !.version = @ + 1] \in Template
    BY DEF Template
  <2> HIDE DEF sized
  <2>2. [sized EXCEPT !.version = @ + 1] \in Template
    BY <1>2, <2>1
  <2> QED
    BY <1>3, <2>2 DEF sized
<1>5. Upgraded(s).minScale = 1 /\ Upgraded(s).version = s.version + 1
  BY DEF Template, Upgraded
<1> QED
  BY <1>4, <1>5 DEF Reserved, Reservation, Missing, Invalid

\* The loop over the tasks stays in the workflow.
LEMMA NextTaskType ==
    ASSUME TypeOK, NextTask
    PROVE  /\ service' \in Template /\ task' \in DOMAIN Tasks \cup {1}
           /\ pc' \in {"get", "idle"}
           /\ pc' = "get" => task' \in DOMAIN Tasks
<1>1. DOMAIN Tasks = 1..Len(Tasks) /\ Len(Tasks) \in Nat
  BY TasksAssumption
<1> QED
  BY <1>1, NoServiceType DEF TypeOK, NextTask

--------------------------------------------------------------------------------
(* The invariant.                                                          *)

LEMMA InitInv == Init => Inv
<1> SUFFICES ASSUME Init PROVE Inv
  OBVIOUS
<1>1. services \in [Service -> Template]
  <2>1. 0 \in Nat
    OBVIOUS
  <2>2. {Deployed(m, b, 0) : m \in MinScales, b \in Bare} \subseteq Template
    BY <2>1, DeployedType
  <2>3. services \in [Service -> {Deployed(m, b, 0) : m \in MinScales, b \in Bare}]
    BY DEF Init
  <2> QED
    BY <2>2, <2>3
<1>2. TypeOK
  <2>1. deletes \in 0..MaxDeletes /\ kills \in 0..MaxKills
        /\ deploys \in [Service -> 0..MaxDeploys] /\ updates \in [Service -> Nat]
    <3>1. 0 \in 0..MaxDeletes /\ 0 \in 0..MaxKills /\ 0 \in 0..MaxDeploys
      BY BoundAssumption
    <3> QED
      BY <3>1 DEF Init
  <2>2. task \in DOMAIN Tasks \cup {1} /\ pc \in {"idle", "get", "update", "down"}
        /\ service \in Template
    BY NoServiceType DEF Init
  <2>3. sloDesc \in SLOValues /\ cache \in SLOValues /\ event \in BOOLEAN /\ queued \in BOOLEAN
    BY DEF Init, SLOValues
  <2> QED
    BY <1>1, <2>1, <2>2, <2>3 DEF TypeOK
<1>3. AtATask /\ CopyIsOlder
  BY DEF Init, AtATask, CopyIsOlder
<1>4. UpdatesAreAnswers
  <2> SUFFICES ASSUME NEW s \in Service
               PROVE  updates[s] <= deploys[s] + (IF Reserved(services[s]) THEN 1 ELSE 0)
    BY DEF UpdatesAreAnswers
  <2>1. updates[s] = 0 /\ deploys[s] = 0
    BY DEF Init
  <2> QED
    BY <2>1
<1> QED
  BY <1>2, <1>3, <1>4 DEF Inv

\* What the reports, the informer and the work queue do leaves the services alone.
LEMMA OutsideInv ==
    ASSUME Inv, UNCHANGED <<loop, cluster, kills, updates>>,
           sloDesc' \in SLOValues, cache' \in SLOValues, deletes' \in 0..MaxDeletes,
           event' \in BOOLEAN, queued' \in BOOLEAN
    PROVE  Inv'
BY DEF Inv, TypeOK, AtATask, CopyIsOlder, UpdatesAreAnswers, loop, cluster

\* Going to the next task gives up the copy.
LEMMA NextTaskInv ==
    ASSUME Inv, NextTask, UNCHANGED <<watch, queue, cluster, kills, updates>>
    PROVE  Inv'
<1> USE DEF Inv, watch, queue, cluster
<1>1. TypeOK'
  BY NextTaskType DEF TypeOK
<1>2. AtATask' /\ CopyIsOlder'
  BY NextTaskType DEF AtATask, CopyIsOlder
<1>3. UpdatesAreAnswers'
  BY DEF UpdatesAreAnswers
<1> QED
  BY <1>1, <1>2, <1>3

\* The copy has no reservation and is the service itself, for its version is.
LEMMA GetUnreservedInv == ASSUME Inv, GetUnreserved PROVE Inv'
<1> USE DEF Inv, GetUnreserved, watch, queue, cluster
<1>1. Tasks[task] \in Service /\ services[Tasks[task]] \in Template
  BY TaskIsService DEF TypeOK, AtATask
<1>2. TypeOK' /\ AtATask' /\ UpdatesAreAnswers'
  BY <1>1 DEF TypeOK, AtATask, UpdatesAreAnswers
<1>3. CopyIsOlder'
  BY <1>1 DEF CopyIsOlder, Template
<1> QED
  BY <1>2, <1>3

\* An update that the API server accepts is of the service as it is: it has no reservation
\* yet, so that this update is the answer to a deployment.
LEMMA UpdateIsDue ==
    ASSUME Inv, Update
    PROVE  LET s == Tasks[task]
           IN  /\ s \in Service /\ services[s] = service /\ ~Reserved(services[s])
               /\ updates[s] <= deploys[s]
<1>1. Tasks[task] \in Service
  BY TaskIsService DEF Inv, AtATask, Update
<1>2. services[Tasks[task]] = service /\ ~Reserved(service)
  BY DEF Inv, CopyIsOlder, Update, Unchanged
<1>3. updates[Tasks[task]] <= deploys[Tasks[task]] + 0
  BY <1>1, <1>2 DEF Inv, UpdatesAreAnswers
<1> QED
  BY <1>1, <1>2, <1>3 DEF Inv, TypeOK

LEMMA UpdateInv == ASSUME Inv, Update PROVE Inv'
<1> DEFINE s == Tasks[task]
<1>1. /\ services' = [services EXCEPT ![s] = Upgraded(service)]
      /\ updates' = [updates EXCEPT ![s] = @ + 1]
      /\ NextTask
      /\ UNCHANGED <<watch, queue, deploys, kills>>
  BY DEF Update
<1>2. s \in Service /\ ~Reserved(services[s]) /\ updates[s] <= deploys[s]
  BY UpdateIsDue
<1>3. Upgraded(service) \in Template /\ Reserved(Upgraded(service))
  BY UpgradedType DEF Inv, TypeOK
<1> HIDE DEF s
<1>4. TypeOK'
  BY <1>1, <1>2, <1>3, NextTaskType DEF Inv, TypeOK, watch, queue
<1>5. AtATask' /\ CopyIsOlder'
  BY <1>1, NextTaskType DEF Inv, AtATask, CopyIsOlder
<1>6. UpdatesAreAnswers'
  <2> SUFFICES ASSUME NEW t \in Service
               PROVE  updates'[t] <= deploys'[t] + (IF Reserved(services'[t]) THEN 1 ELSE 0)
    BY DEF UpdatesAreAnswers, Reserved, Reservation
  <2>1. CASE t = s
    <3>1. updates'[s] = updates[s] + 1 /\ Reserved(services'[s]) /\ deploys' = deploys
      BY <1>1, <1>2, <1>3 DEF Inv, TypeOK
    <3> QED
      BY <2>1, <3>1, <1>2 DEF Inv, TypeOK
  <2>2. CASE t # s
    BY <2>2, <1>1 DEF Inv, TypeOK, UpdatesAreAnswers
  <2> QED
    BY <2>1, <2>2
<1> QED
  BY <1>4, <1>5, <1>6 DEF Inv

\* A service that is deployed again has a later version than any copy of it.
LEMMA DeployInv ==
    ASSUME Inv, NEW s \in Service, NEW m \in MinScales, NEW b \in Bare, Deploy(s, m, b)
    PROVE  Inv'
<1> DEFINE new == Deployed(m, b, services[s].version + 1)
<1>1. /\ services' = [services EXCEPT ![s] = new]
      /\ deploys' = [deploys EXCEPT ![s] = @ + 1] /\ deploys[s] < MaxDeploys
      /\ UNCHANGED <<watch, queue, loop, kills, updates>>
  BY DEF Deploy
<1>2. new \in Template /\ new.version = services[s].version + 1
  <2>1. services[s].version + 1 \in Nat
    BY DEF Inv, TypeOK, Template
  <2> QED
    BY <2>1, DeployedType
<1> HIDE DEF new
<1>3. TypeOK'
  BY <1>1, <1>2, BoundAssumption DEF Inv, TypeOK, watch, queue, loop
<1>4. AtATask'
  BY <1>1 DEF Inv, AtATask, loop
<1>5. CopyIsOlder'
  <2> SUFFICES ASSUME pc = "update"
               PROVE  LET current == services'[Tasks[task]]
                      IN  /\ ~Reserved(service)
                          /\ service.version <= current.version
                          /\ service.version = current.version => service = current
    BY <1>1 DEF CopyIsOlder, loop, Reserved, Reservation
  <2>1. service.version \in Nat /\ services[s].version \in Nat
    BY DEF Inv, TypeOK, Template
  <2>2. CASE Tasks[task] = s
    <3>1. services'[Tasks[task]].version = services[s].version + 1
      BY <1>1, <1>2, <2>2 DEF Inv, TypeOK
    <3> QED
      BY <2>1, <2>2, <3>1 DEF Inv, CopyIsOlder
  <2>3. CASE Tasks[task] # s
    BY <2>3, <1>1 DEF Inv, TypeOK, CopyIsOlder
  <2> QED
    BY <2>2, <2>3
<1>6. UpdatesAreAnswers'
  <2> SUFFICES ASSUME NEW t \in Service
               PROVE  updates'[t] <= deploys'[t] + (IF Reserved(services'[t]) THEN 1 ELSE 0)
    BY DEF UpdatesAreAnswers, Reserved, Reservation
  <2>1. updates[t] \in Nat /\ deploys[t] \in Nat /\ updates' = updates
    BY <1>1 DEF Inv, TypeOK
  <2>2. updates[t] <= deploys[t] + (IF Reserved(services[t]) THEN 1 ELSE 0)
    BY DEF Inv, UpdatesAreAnswers
  <2>3. CASE t = s
    <3>1. deploys'[t] = deploys[t] + 1
      BY <1>1, <2>3 DEF Inv, TypeOK
    <3> QED
      BY <2>1, <2>2, <3>1
  <2>4. CASE t # s
    BY <2>1, <2>2, <2>4, <1>1 DEF Inv, TypeOK
  <2> QED
    BY <2>3, <2>4
<1> QED
  BY <1>3, <1>4, <1>5, <1>6 DEF Inv

LEMMA NextInv == Inv /\ [Next]_vars => Inv'
<1> SUFFICES ASSUME Inv, [Next]_vars PROVE Inv'
  OBVIOUS
<1>1. ASSUME NEW r \in Rates, Report(r) PROVE Inv'
  BY <1>1, OutsideInv DEF Report, queue, Inv, TypeOK, SLOValues
<1>2. CASE DeleteSLODesc
  BY <1>2, OutsideInv, BoundAssumption DEF DeleteSLODesc, queue, Inv, TypeOK, SLOValues
<1>3. CASE CreateSLODesc
  BY <1>3, OutsideInv DEF CreateSLODesc, queue, Inv, TypeOK, SLOValues
<1>4. CASE Observe
  BY <1>4, OutsideInv DEF Observe, Inv, TypeOK
<1>5. CASE ReconcileMissing \/ UNCHANGED vars
  BY <1>5, OutsideInv DEF ReconcileMissing, vars, loop, cluster, Inv, TypeOK
<1>6. CASE ReconcileNothing
  BY <1>6, OutsideInv DEF ReconcileNothing, watch, Inv, TypeOK
<1>7. CASE ReconcileEnforce
  <2>1. 1 \in DOMAIN Tasks
    BY <1>7, TasksAssumption DEF ReconcileEnforce
  <2> QED
    BY <1>7, <2>1 DEF ReconcileEnforce, watch, cluster, Inv, TypeOK, AtATask, CopyIsOlder,
                      UpdatesAreAnswers
<1>8. CASE GetReserved \/ GetFails \/ UpdateFails
  BY <1>8, NextTaskInv DEF GetReserved, GetFails, UpdateFails
<1>9. CASE GetUnreserved
  BY <1>9, GetUnreservedInv
<1>10. CASE GetPanics
  BY <1>10 DEF GetPanics, watch, queue, cluster, Inv, TypeOK, AtATask, CopyIsOlder,
               UpdatesAreAnswers
<1>11. CASE Update
  BY <1>11, UpdateInv
<1>12. ASSUME NEW s \in Service, NEW m \in MinScales, NEW b \in Bare, Deploy(s, m, b)
       PROVE  Inv'
  BY <1>12, DeployInv
<1>13. CASE Kill
  BY <1>13, NoServiceType, BoundAssumption
     DEF Kill, watch, queue, cluster, Inv, TypeOK, AtATask, CopyIsOlder, UpdatesAreAnswers
<1>14. CASE Restart
  BY <1>14 DEF Restart, cluster, Inv, TypeOK, AtATask, CopyIsOlder, UpdatesAreAnswers
<1> QED
  BY <1>1, <1>2, <1>3, <1>4, <1>5, <1>6, <1>7, <1>8, <1>9, <1>10, <1>11, <1>12, <1>13, <1>14
     DEF Next, Reconcile

LEMMA SpecInv == Spec => []Inv
<1>1. Init => Inv
  BY InitInv
<1>2. Inv /\ [Next]_vars => Inv'
  BY NextInv
<1> QED
  BY <1>1, <1>2, PTL DEF Spec

--------------------------------------------------------------------------------
(* The theorems.                                                           *)

\* The enforcer's loop, its copies and the cluster's services keep their types, whatever
\* panics, kills and restarts interrupt a reconciliation.
THEOREM EnforcerTypeCorrect == Spec => []TypeOK
<1>1. Inv => TypeOK
  BY DEF Inv
<1> QED
  BY <1>1, SpecInv, PTL

\* Reconcile's updates are due: at most one for each time a service is deployed, and the
\* first, for any number of kills, failed calls and repeated events.
THEOREM EnforcerUpdatesAreDue == Spec => []UpdatesAreDue
<1>1. Inv => UpdatesAreDue
  <2> SUFFICES ASSUME Inv, NEW s \in Service PROVE updates[s] <= deploys[s] + 1
    BY DEF UpdatesAreDue
  <2>1. updates[s] \in Nat /\ deploys[s] \in Nat
    BY DEF Inv, TypeOK
  <2>2. updates[s] <= deploys[s] + (IF Reserved(services[s]) THEN 1 ELSE 0)
    BY DEF Inv, UpdatesAreAnswers
  <2> QED
    BY <2>1, <2>2
<1> QED
  BY <1>1, SpecInv, PTL

\* Reconcile never writes a service that has its reservation, not even from a copy it got
\* before the service had it.
THEOREM EnforcerLeavesReservedAlone == Spec => ReservedIsLeftAlone
<1>1. ASSUME Inv, Inv', [Next]_vars, deploys' = deploys,
             NEW s \in Service, Reserved(services[s])
      PROVE  services'[s] = services[s]
  <2>1. CASE Update
    <3>1. s # Tasks[task] /\ services' = [services EXCEPT ![Tasks[task]] = Upgraded(service)]
      BY <1>1, <2>1, UpdateIsDue DEF Update
    <3> QED
      BY <3>1, <1>1 DEF Inv, TypeOK
  <2>2. ASSUME NEW t \in Service, NEW m \in MinScales, NEW b \in Bare, Deploy(t, m, b)
        PROVE  FALSE
    BY <1>1, <2>2 DEF Deploy, Inv, TypeOK
  <2>3. CASE ~Update /\ ~\E t \in Service, m \in MinScales, b \in Bare : Deploy(t, m, b)
    BY <1>1, <2>3
       DEF Next, Reconcile, Report, DeleteSLODesc, CreateSLODesc, Observe, ReconcileMissing,
           ReconcileNothing, ReconcileEnforce, GetReserved, GetUnreserved, GetPanics,
           GetFails, UpdateFails, Kill, Restart, cluster, vars
  <2> QED
    BY <2>1, <2>2, <2>3
<1>2. Inv /\ Inv' /\ [Next]_vars =>
        [deploys' = deploys =>
            \A s \in Service : Reserved(services[s]) => services'[s] = services[s]]_vars
  BY <1>1
<1> QED
  BY <1>2, SpecInv, PTL DEF Spec, ReservedIsLeftAlone
================================================================================
