------------------------------ MODULE PodInformer ------------------------------
(***************************************************************************)
(* How the observer follows the pods of the monitored tasks: main and      *)
(* updateScaling of src/sloobserver/observer.go.  An informer keeps a      *)
(* cache of the ReplicaSets: it lists them, watches their events, lists    *)
(* again when the watch breaks, and each second hands all of them to the   *)
(* event handlers once more.  The handlers run one after the other.  Each  *)
(* writes a line to the log and stores the pods of every task whose name   *)
(* the set's name contains, ready and desired ones in two maps.            *)
(*                                                                         *)
(* The informer is client-go's, which the source uses and does not define. *)
(* When it finds a set gone that it never saw deleted it hands over a      *)
(* tombstone in its place, which the handler's type assertion does not     *)
(* expect: the process panics, and its container is started again.         *)
(***************************************************************************)
EXTENDS Integers, Sequences, FiniteSets, SequencesExt

CONSTANTS
    Task,            \* the tasks of the SLODesc
    ReplicaSet,      \* the names of ReplicaSets
    TasksIn,        \* the tasks whose name each of them contains, in their order
    Absent,          \* there is no such set
    MaxPods,         \* bound: the pods of a set
    ResyncPeriod,    \* ticks between two resyncs: one second in the code
    End              \* the tick at which the log is copied

ASSUME TaskAssumption == TasksIn \in [ReplicaSet -> Seq(Task)]
ASSUME ResyncAssumption == ResyncPeriod \in Nat \ {0} /\ End \in Nat
ASSUME PodAssumption == MaxPods \in Nat

VARIABLES
    cluster,        \* the sets: the pods they should have and the ready ones
    changes,        \* bound: how often sets may still change
    breaks,         \* bound: how often the watch may still break
    watching,       \* whether the watch is established
    events,         \* the notifications the handlers have not run yet
    cache,          \* the sets the informer knows
    hpc,            \* what the handler does next
    handled,        \* the set it runs for
    todo,           \* the tasks it has not stored yet
    runningPods,    \* the ready pods of each task, -1 for none stored
    desiredPods,    \* the desired ones
    log,            \* the lines of scaling in the log until it is copied
    clock           \* the time, in ticks

outside == <<cluster, changes>>
informer == <<breaks, watching, events, cache>>
handler == <<hpc, handled, todo>>
counts == <<runningPods, desiredPods>>
time == <<log, clock>>
observerVars == <<outside, informer, handler, counts, time>>

Pods == [desired : 0 .. MaxPods, ready : 0 .. MaxPods]
NoSet == [set |-> Absent, pods |-> [desired |-> 0, ready |-> 0]]
Unset == [t \in Task |-> -1]

ObserverInit ==
    /\ watching = FALSE
    /\ events = <<>> /\ cache = [r \in ReplicaSet |-> Absent]
    /\ hpc = "waiting" /\ handled = NoSet /\ todo = <<>>
    /\ runningPods = Unset /\ desiredPods = Unset
    /\ log = <<>> /\ clock = 0

--------------------------------------------------------------------------------
(* The cluster and the informer.                                           *)

Event(kind, r, pods, gone) == [kind |-> kind, set |-> r, pods |-> pods, gone |-> gone]
Existing(sets) == SetToSeq({r \in ReplicaSet : sets[r] # Absent})

\* What may become of a set: it is created without a ready pod, scaled or deleted, or its
\* ready pods come and go.
Becomes(set, pods) ==
    \/ set = Absent /\ pods \in Pods /\ pods.ready = 0
    \/ set # Absent /\ pods = Absent
    \/ /\ set # Absent /\ pods # Absent /\ pods # set
       /\ pods.desired = set.desired \/ pods.ready = set.ready

\* While the watch is established, a change is an event, which for a deleted set carries
\* its last state.
Change(r, pods) ==
    /\ changes > 0
    /\ Becomes(cluster[r], pods)
    /\ changes' = changes - 1
    /\ cluster' = [cluster EXCEPT ![r] = pods]
    /\ events' = IF ~watching THEN events
                 ELSE Append(events, IF pods = Absent THEN Event("set", r, cluster[r], TRUE)
                                                      ELSE Event("set", r, pods, FALSE))
    /\ UNCHANGED <<breaks, watching, cache, handler, counts, time>>

\* The connection is lost, and with it the events on their way.
Break ==
    /\ watching
    /\ breaks > 0
    /\ breaks' = breaks - 1
    /\ watching' = FALSE
    /\ events' = <<>>
    /\ UNCHANGED <<outside, cache, handler, counts, time>>

\* The sets are listed and watched from there on: each is handed over, and a tombstone for
\* each the cache holds and the list does not.
Listed == [k \in DOMAIN Existing(cluster) |->
             Event("set", Existing(cluster)[k], cluster[Existing(cluster)[k]], FALSE)]
Tombstones ==
    LET lost == SetToSeq({r \in ReplicaSet : cache[r] # Absent /\ cluster[r] = Absent})
    IN  [k \in DOMAIN lost |-> Event("tombstone", lost[k], cache[lost[k]], TRUE)]

List ==
    /\ hpc # "waiting"
    /\ ~watching
    /\ watching' = TRUE
    /\ events' = Listed \o Tombstones
    /\ UNCHANGED <<outside, breaks, cache, handler, counts, time>>

\* Each second: the sets in the cache that have no event waiting.
Resynced ==
    LET still == SetToSeq({r \in ReplicaSet :
                             cache[r] # Absent /\ \A e \in Range(events) : e.set # r})
    IN  [k \in DOMAIN still |-> Event("set", still[k], cache[still[k]], FALSE)]

Tick ==
    /\ clock + ResyncPeriod <= End
    /\ clock' = clock + ResyncPeriod
    /\ events' = events \o Resynced
    /\ UNCHANGED <<outside, breaks, watching, cache, handler, counts, log>>

\* The same after the log was copied.
Resync ==
    /\ clock + ResyncPeriod > End
    /\ hpc = "idle" /\ events = <<>>
    /\ events' = Resynced
    /\ UNCHANGED <<outside, breaks, watching, cache, handler, counts, time>>

--------------------------------------------------------------------------------
(* The observer.                                                           *)

\* The tasks are read from the SLODesc, which main waits for, and the informer is started.
Start ==
    /\ hpc = "waiting"
    /\ hpc' = "idle"
    /\ UNCHANGED <<outside, informer, handled, todo, counts, time>>

\* The informer notes the event and runs AddFunc, UpdateFunc or DeleteFunc.
Handle ==
    LET e == Head(events)
    IN  /\ hpc = "idle" /\ events # <<>>
        /\ e.kind = "set"
        /\ events' = Tail(events)
        /\ cache' = [cache EXCEPT ![e.set] = IF e.gone THEN Absent ELSE e.pods]
        /\ handled' = [set |-> e.set, pods |-> e.pods]
        /\ todo' = TasksIn[e.set]
        /\ hpc' = IF todo' = <<>> THEN "idle" ELSE "task"
        /\ UNCHANGED <<outside, breaks, watching, counts, time>>

\* DeleteFunc: obj.(*appsv1.ReplicaSet) of a cache.DeletedFinalStateUnknown panics.  The new
\* container has an empty memory and an empty log.
Tombstone ==
    /\ hpc = "idle" /\ events # <<>>
    /\ Head(events).kind = "tombstone"
    /\ hpc' = "waiting" /\ handled' = NoSet /\ todo' = <<>>
    /\ watching' = FALSE /\ events' = <<>> /\ cache' = [r \in ReplicaSet |-> Absent]
    /\ runningPods' = Unset /\ desiredPods' = Unset
    /\ log' = <<>>
    /\ UNCHANGED <<outside, breaks, clock>>

\* updateScaling, for the next task whose name the set's contains: the line, and runningPods.
\* plot_live_metrics.py takes the line for the first service in the set's name.
Line == [service |-> TasksIn[handled.set][1], time |-> clock, pods |-> handled.pods.ready]
StoreRunning ==
    /\ hpc = "task"
    /\ log' = IF clock < End THEN Append(log, Line) ELSE log
    /\ runningPods' = [runningPods EXCEPT ![Head(todo)] = handled.pods.ready]
    /\ hpc' = "desired"
    /\ UNCHANGED <<outside, informer, handled, todo, desiredPods, clock>>

ReadyOf(pods) == pods.ready
DesiredOf(pods) == pods.desired

\* desiredPods, and the next task.
StoreDesired ==
    /\ hpc = "desired"
    /\ desiredPods' = [desiredPods EXCEPT ![Head(todo)] = DesiredOf(handled.pods)]
    /\ todo' = Tail(todo)
    /\ hpc' = IF todo' = <<>> THEN "idle" ELSE "task"
    /\ UNCHANGED <<outside, informer, handled, runningPods, time>>

Handler == Start \/ Handle \/ Tombstone \/ StoreRunning \/ StoreDesired

Cluster ==
    \/ \E r \in ReplicaSet, pods \in Pods \cup {Absent} : Change(r, pods)
    \/ Break

Observes == Handler \/ List \/ Tick \/ Resync \/ Cluster

\* The goroutine of the handlers is scheduled, the API server answers in the end, and the
\* timer ticks.  Nothing makes the cluster change, or stop changing.
ObserverFairness ==
    /\ WF_observerVars(Handler)
    /\ WF_observerVars(List)
    /\ WF_observerVars(Tick)
    /\ WF_observerVars(Resync)

--------------------------------------------------------------------------------
(* Properties.                                                             *)

SetsOf(t) == {r \in ReplicaSet : t \in Range(TasksIn[r]) /\ cluster[r] # Absent}

\* Once the cluster is quiet the pods of a task that has one set are that set's, ready and
\* desired: whatever was missed while the watch was broken, whatever a deleted set of the
\* same task left in the maps, and although a tombstone ends the process.
PodsConverge ==
    \A t \in Task : <>[](\A r \in ReplicaSet : SetsOf(t) = {r} =>
        cluster[r] = [desired |-> desiredPods[t], ready |-> runningPods[t]])
================================================================================
