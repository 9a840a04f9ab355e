------------------------------ MODULE Monitoring -------------------------------
(***************************************************************************)
(* An experiment as burst.sh runs it: the observer follows the pods of the *)
(* services and logs them (PodInformer) while orders are logged; then its  *)
(* log is copied and plot_live_metrics.py draws it (LiveMetrics).  The     *)
(* observer goes on meanwhile.  Which orders were logged is an input.      *)
(***************************************************************************)
EXTENDS PodInformer, LiveMetrics

CONSTANT Experiments   \* of each: the orders, the client's totals, the sets, the bounds

\* The stamps of a line are in no order: the observer pairs any two reports of an order, and
\* the clocks are those of the client and of the services.
ASSUME ExperimentsAssumption ==
    \A e \in Experiments :
        /\ e.orders \in Seq([placed : Nat \ {0}, ends : [Service -> Nat]])
        /\ e.client \in Seq(Nat)
        /\ e.cluster \in [ReplicaSet -> Pods \cup {Absent}]
        /\ {e.changes, e.breaks} \subseteq Nat

allVars == <<observerVars, vars>>

Init ==
    /\ ObserverInit
    /\ InitScript
    /\ \E e \in Experiments :
        /\ orderLog = e.orders /\ cliLog = e.client
        /\ cluster = e.cluster
        /\ changes = e.changes /\ breaks = e.breaks

\* The experiment is over.
CollectLogs == clock + ResyncPeriod > End /\ Collect(log)

Next ==
    \/ Observes /\ UNCHANGED vars
    \/ (CollectLogs \/ Script) /\ UNCHANGED observerVars

Spec == Init /\ [][Next]_allVars
FairSpec == Spec /\ ObserverFairness
================================================================================
