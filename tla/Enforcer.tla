------------------------------- MODULE Enforcer --------------------------------
(***************************************************************************)
(* The SLO enforcer: Reconcile of faasslo/controllers/slodesc_controller,  *)
(* run by controller-runtime for the one SLODesc, and the Knative services *)
(* of its workflow.  When the latest metric's input rate is below the      *)
(* rate limit, each service of the workflow that has no reservation of one *)
(* pod gets one, and more resources.                                       *)
(*                                                                         *)
(* The manager's client reads a cache, which an informer brings up to date *)
(* later; events for the one key are merged in a work queue and reconciled *)
(* one at a time.  The Knative client reads and writes the API server,     *)
(* which refuses an update of a service that has changed since.            *)
(***************************************************************************)
EXTENDS Integers, Sequences

CONSTANTS
    Service,      \* the Knative services
    Tasks,        \* Spec.Workflow.Tasks: a sequence of services
    RateLimit,    \* Spec.RateLimit
    Rates,        \* the input rates the observer may report
    MinScales,    \* the minScale annotations a service may be deployed with
    Bare,         \* whether a template may lack annotations or requests: a set of BOOLEANs
    MaxDeploys,   \* bound: how often each service is deployed again
    MaxDeletes,   \* bound: how often the SLODesc is deleted
    MaxKills      \* bound: how often the enforcer is killed

\* Values of the minScale annotation that are not a number of pods.
Missing == -1
Invalid == -2

\* Values of the latest input rate that are not a rate.
NoMetrics == -1
Deleted == -2

ASSUME TasksAssumption == Tasks \in Seq(Service)
ASSUME RatesAssumption == RateLimit \in Nat /\ Rates \subseteq Nat
ASSUME ScalesAssumption == MinScales \subseteq Nat \cup {Missing, Invalid}
ASSUME BareAssumption == Bare \subseteq BOOLEAN /\ FALSE \in Bare
ASSUME BoundAssumption == MaxDeploys \in Nat /\ MaxDeletes \in Nat /\ MaxKills \in Nat

VARIABLES
    sloDesc,   \* the SLODesc in the API server: its latest input rate
    cache,     \* the enforcer's copy of it
    deletes,   \* how often it was deleted
    event,     \* whether the watch has an event not yet delivered
    queued,    \* whether the key is in the work queue
    pc,        \* what Reconcile does next
    task,      \* the task it is at: an index of Tasks
    service,   \* the service it got
    services,  \* the services in the API server
    deploys,   \* how often each service was deployed again
    kills,     \* how often the enforcer was killed
    updates    \* history: how often the enforcer updated each service

watch == <<sloDesc, deletes, event>>
queue == <<cache, queued>>
loop == <<pc, task, service>>
cluster == <<services, deploys>>
vars == <<sloDesc, deletes, cache, event, queued, pc, task, service, services, deploys,
          kills, updates>>

Template == [minScale : MinScales \cup {1}, bare : BOOLEAN, upgraded : BOOLEAN, version : Nat]

\* A service as it is deployed with a minScale annotation, or without annotations.
Deployed(m, b, v) == [minScale |-> m, bare |-> b, upgraded |-> FALSE, version |-> v]

NoService == Deployed(1, FALSE, 0)
SLOValues == Rates \cup {NoMetrics, Deleted}

TypeOK ==
    /\ sloDesc \in SLOValues /\ cache \in SLOValues
    /\ deletes \in 0..MaxDeletes
    /\ event \in BOOLEAN /\ queued \in BOOLEAN
    /\ pc \in {"idle", "get", "update", "down"}
    /\ task \in DOMAIN Tasks \cup {1}
    /\ service \in Template
    /\ services \in [Service -> Template]
    /\ deploys \in [Service -> 0..MaxDeploys]
    /\ kills \in 0..MaxKills
    /\ updates \in [Service -> Nat]

Init ==
    /\ sloDesc = NoMetrics /\ deletes = 0 /\ cache = Deleted
    /\ event = TRUE /\ queued = FALSE
    /\ pc = "idle" /\ task = 1 /\ service = NoService
    /\ services \in [Service -> {Deployed(m, b, 0) : m \in MinScales, b \in Bare}]
    /\ deploys = [s \in Service |-> 0]
    /\ kills = 0
    /\ updates = [s \in Service |-> 0]

--------------------------------------------------------------------------------
(* The SLODesc, its cache and the work queue.                              *)

\* The observer publishes a metric: of a new rate, or of the same one.
Report(r) ==
    /\ sloDesc # Deleted
    /\ sloDesc' = r
    /\ event' = TRUE
    /\ UNCHANGED <<deletes, queue, loop, cluster, kills, updates>>

DeleteSLODesc ==
    /\ sloDesc # Deleted
    /\ deletes < MaxDeletes
    /\ deletes' = deletes + 1
    /\ sloDesc' = Deleted
    /\ event' = TRUE
    /\ UNCHANGED <<queue, loop, cluster, kills, updates>>

CreateSLODesc ==
    /\ sloDesc = Deleted
    /\ sloDesc' = NoMetrics
    /\ event' = TRUE
    /\ UNCHANGED <<deletes, queue, loop, cluster, kills, updates>>

\* The informer catches up and the event handler adds the key.
Observe ==
    /\ pc # "down"
    /\ event
    /\ cache' = sloDesc
    /\ event' = FALSE
    /\ queued' = TRUE
    /\ UNCHANGED <<sloDesc, deletes, loop, cluster, kills, updates>>

--------------------------------------------------------------------------------
(* Reconcile.                                                              *)

\* if inputrate < expectedInputrate, once there is a metric
Enforced(r) == r # NoMetrics /\ r < RateLimit

\* The SLODesc is not found: the error is returned, and controller-runtime adds the key again.
ReconcileMissing ==
    /\ pc = "idle" /\ queued
    /\ cache = Deleted
    /\ UNCHANGED vars

\* There is no metric, the rate is not below the limit, or there are no tasks: nothing to do.
ReconcileNothing ==
    /\ pc = "idle" /\ queued
    /\ cache # Deleted
    /\ ~Enforced(cache) \/ Tasks = <<>>
    /\ queued' = FALSE
    /\ UNCHANGED <<watch, cache, loop, cluster, kills, updates>>

\* for _, serviceName := range slo.Spec.Workflow.Tasks
OneTaskTooMany ==
    /\ service' = NoService
    /\ task' = IF task <= Len(Tasks) THEN task + 1 ELSE 1
    /\ pc' = IF task <= Len(Tasks) THEN "get" ELSE "idle"

FirstTaskOnly ==
    /\ service' = NoService
    /\ task' = 1
    /\ pc' = "idle"

NextTask ==
    /\ service' = NoService
    /\ task' = IF task < Len(Tasks) THEN task + 1 ELSE 1
    /\ pc' = IF task < Len(Tasks) THEN "get" ELSE "idle"

ReconcileEnforce ==
    /\ pc = "idle" /\ queued
    /\ cache # Deleted
    /\ Enforced(cache)
    /\ Tasks # <<>>
    /\ queued' = FALSE
    /\ pc' = "get"
    /\ task' = 1
    /\ UNCHANGED <<watch, cache, service, cluster, kills, updates>>

\* The reserved pods: an annotation that is missing, or no number, reserves none.
Reservation(s) == IF s.minScale \in {Missing, Invalid} THEN 0 ELSE s.minScale

Reserved(s) == Reservation(s) = 1

\* The service has its reservation: the next one.
GetReserved ==
    /\ pc = "get"
    /\ Reserved(services[Tasks[task]])
    /\ NextTask
    /\ UNCHANGED <<watch, queue, cluster, kills, updates>>

GetAny ==
    /\ pc = "get"
    /\ ~services[Tasks[task]].bare
    /\ service' = services[Tasks[task]]
    /\ pc' = "update"
    /\ UNCHANGED <<watch, queue, task, cluster, kills, updates>>

\* The service will be given one, on the copy that was got.
GetUnreserved ==
    /\ pc = "get"
    /\ ~Reserved(services[Tasks[task]])
    /\ ~services[Tasks[task]].bare
    /\ service' = services[Tasks[task]]
    /\ pc' = "update"
    /\ UNCHANGED <<watch, queue, task, cluster, kills, updates>>

\* The template has no annotations, or its container no requests or limits: the
\* assignment to a nil map panics, and the enforcer ends.
GetPanics ==
    /\ pc = "get"
    /\ ~Reserved(services[Tasks[task]])
    /\ services[Tasks[task]].bare
    /\ pc' = "down"
    /\ task' = 1
    /\ UNCHANGED <<watch, queue, service, cluster, kills, updates>>

\* There is no such service, or the API server cannot be reached: logged, the next one.
GetFails ==
    /\ pc = "get"
    /\ NextTask
    /\ UNCHANGED <<watch, queue, cluster, kills, updates>>

Unchanged(s) == service.version = services[s].version

UpgradedOnly(s) == [s EXCEPT !.upgraded = TRUE, !.version = @ + 1]
\* minScale, target, and the cpu and memory of the first container.
Upgraded(s) == [s EXCEPT !.minScale = 1, !.upgraded = TRUE, !.version = @ + 1]

Update ==
    LET s == Tasks[task]
    IN  /\ pc = "update"
        /\ Unchanged(s)
        /\ services' = [services EXCEPT ![s] = Upgraded(service)]
        /\ updates' = [updates EXCEPT ![s] = @ + 1]
        /\ NextTask
        /\ UNCHANGED <<watch, queue, deploys, kills>>

\* The update is refused, or fails: logged, and nothing is queued to try it again.
UpdateFails ==
    /\ pc = "update"
    /\ NextTask
    /\ UNCHANGED <<watch, queue, cluster, kills, updates>>

--------------------------------------------------------------------------------
(* Others.                                                                 *)

\* kubectl apply of a service: its own annotations and resources are back.
Deploy(s, m, b) ==
    /\ deploys[s] < MaxDeploys
    /\ services' = [services EXCEPT ![s] = Deployed(m, b, @.version + 1)]
    /\ deploys' = [deploys EXCEPT ![s] = @ + 1]
    /\ UNCHANGED <<watch, queue, loop, kills, updates>>

Kill ==
    /\ pc # "down"
    /\ kills < MaxKills
    /\ kills' = kills + 1
    /\ pc' = "down"
    /\ task' = 1
    /\ service' = NoService
    /\ UNCHANGED <<watch, queue, cluster, updates>>

\* The enforcer is started again: its cache and its queue are filled from the API server.
Restart ==
    /\ pc = "down"
    /\ pc' = "idle"
    /\ cache' = sloDesc
    /\ event' = FALSE
    /\ queued' = (sloDesc # Deleted)
    /\ UNCHANGED <<sloDesc, deletes, task, service, cluster, kills, updates>>

Reconcile ==
    \/ ReconcileMissing \/ ReconcileNothing \/ ReconcileEnforce
    \/ GetReserved \/ GetUnreserved \/ GetPanics \/ GetFails
    \/ Update \/ UpdateFails

Next ==
    \/ \E r \in Rates : Report(r)
    \/ DeleteSLODesc \/ CreateSLODesc
    \/ Observe
    \/ Reconcile
    \/ \E s \in Service, m \in MinScales, b \in Bare : Deploy(s, m, b)
    \/ Kill \/ Restart

Spec == Init /\ [][Next]_vars

\* The observer's periodic job keeps reporting, controller-runtime delivers events and runs
\* its worker, and no call of the API server for a service fails every time.  Nothing makes
\* anybody create the SLODesc or start the enforcer again.
Fairness ==
    /\ WF_vars(\E r \in Rates : Report(r))
    /\ WF_vars(Observe)
    /\ WF_vars(Reconcile)
    /\ \A k \in 1..Len(Tasks) :
        /\ SF_vars(task = k /\ (GetUnreserved \/ GetReserved \/ GetPanics))
        /\ SF_vars(task = k /\ Update)

FairSpec == Spec /\ Fairness

--------------------------------------------------------------------------------
(* Properties.                                                             *)

\* The enforcer updates a service once for each time it is deployed without the
\* reservation: it never fights itself, its stale copies, or its earlier runs.
UpdatesAreDue == \A s \in Service : updates[s] <= deploys[s] + 1

\* A service that has its reservation is left as it is until it is deployed again: no
\* update made from an older copy of it is accepted.
ReservedIsLeftAlone ==
    [][deploys' = deploys =>
         \A s \in Service : Reserved(services[s]) => services'[s] = services[s]]_vars

TaskSet == {Tasks[k] : k \in 1..Len(Tasks)}

\* Once every rate reported is below the limit, and the enforcer stays up, every service of
\* the workflow gets its reservation and keeps it, whatever calls fail and whatever was
\* deployed, deleted or killed before: although nothing is retried, the next report does.
StaysLow == sloDesc \in Rates /\ sloDesc < RateLimit /\ pc # "down"
EveryTaskIsReserved == <>[]StaysLow => \A s \in TaskSet : <>[]Reserved(services[s])

\* slodesc_types.go calls the limit the maximum supported input rate: at that rate, still
\* supported, the services of the workflow get their reservation.
LimitIsSupported == \A s \in TaskSet : <>Reserved(services[s])
================================================================================
