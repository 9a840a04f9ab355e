----------------------------- MODULE OrderMatcher -----------------------------
(***************************************************************************)
(* reportOrders of src/sloobserver/observer.go: how the observer pairs the *)
(* two reports of an order, the one of the `orders` channel (the input)    *)
(* and the one of the last forward function (the output), to measure the   *)
(* order's end-to-end latency.  How many goroutines run the handler is the *)
(* CloudEvents client's business, and a constant here; the handler is made *)
(* for several: pendingOrders is a sync.Map, so that each of Load, Store   *)
(* and Delete is atomic, and what happens between them is not.  Each       *)
(* access to shared state is an action.                                    *)
(*                                                                         *)
(* inputTracking and latencyTracking, one counter and one slice in the     *)
(* code, are kept apart by order: counted[o] is the share of o in          *)
(* inputTracking, latencyTracking[o] the latencies appended for o.  What   *)
(* the cron job does with them is the module LatencyWindow's.              *)
(***************************************************************************)
EXTENDS Integers, Sequences, FiniteSets

CONSTANTS
    Order,          \* order ids
    Report,         \* the reports that reach the observer
    Handler,        \* the goroutines that run reportOrders
    NoReport,       \* stands for an absent entry of pendingOrders
    Tasks,          \* len(monitorReplicaSets)
    MaxDeliveries,  \* bound: how often the channel delivers one report
    MayRestart      \* TRUE when the pod may be killed

\* A report: its order, its timestamp, how many mid timestamps it carries and
\* what it is: an order, an event to skip, or one whose data does not parse.
ReportType == {"Order", "other", "unparsable"}

ASSUME ReportAssumption ==
    /\ Report \subseteq [order : Order, stamp : Nat, mids : Nat, type : ReportType]
    /\ NoReport \notin Report
ASSUME HandlerAssumption == IsFiniteSet(Handler)
ASSUME BoundAssumption == Tasks \in Nat /\ MaxDeliveries \in Nat \ {0}
ASSUME RestartAssumption == MayRestart \in BOOLEAN

VARIABLES
    deliveries,       \* how often the channel has delivered each report
    pc,               \* what each handler does next
    msg,              \* the report each handler works on
    old,              \* the partner it loaded from pendingOrders
    pendingOrders,    \* the report waiting for its partner, by order
    counted,          \* inputTracking, by order
    latencyTracking,  \* the appended latencies, by order
    arrived           \* history: the reports of each order received by this process

channel == deliveries
handlers == <<pc, msg, old>>
memory == <<pendingOrders, counted, latencyTracking>>
vars == <<deliveries, pc, msg, old, pendingOrders, counted, latencyTracking, arrived>>

Control == {"idle", "load", "count", "store", "record", "delete"}

TypeOK ==
    /\ deliveries \in [Report -> 0..MaxDeliveries]
    /\ pc \in [Handler -> Control]
    /\ msg \in [Handler -> Report \cup {NoReport}]
    /\ old \in [Handler -> Report \cup {NoReport}]
    /\ pendingOrders \in [Order -> Report \cup {NoReport}]
    /\ counted \in [Order -> Nat]
    /\ latencyTracking \in [Order -> Seq(Nat)]
    /\ arrived \in [Order -> Nat]

--------------------------------------------------------------------------------
(* The process starts, and restarts, with empty memory: nothing is kept on *)
(* disk.                                                                    *)

Idle == [h \in Handler |-> "idle"]
Nobody == [h \in Handler |-> NoReport]
Nothing == [o \in Order |-> NoReport]
Zero == [o \in Order |-> 0]
Unmeasured == [o \in Order |-> <<>>]

Init ==
    /\ deliveries = [r \in Report |-> 0]
    /\ pc = Idle
    /\ msg = Nobody
    /\ old = Nobody
    /\ pendingOrders = Nothing
    /\ counted = Zero
    /\ latencyTracking = Unmeasured
    /\ arrived = Zero

\* A panic in a handler, or a kill, ends the process; the Deployment starts it again.
Restart ==
    /\ pc' = Idle
    /\ msg' = Nobody
    /\ old' = Nobody
    /\ pendingOrders' = Nothing
    /\ counted' = Zero
    /\ latencyTracking' = Unmeasured
    /\ arrived' = Zero

--------------------------------------------------------------------------------
(* The parts of the handler.                                               *)

SignedLatency(new, partner) == new.stamp - partner.stamp

\* The latency of a pair: the difference of its timestamps, in whichever order they came.
Latency(new, partner) ==
    IF new.stamp >= partner.stamp THEN new.stamp - partner.stamp
                                  ELSE partner.stamp - new.stamp

\* The mid timestamps logged with a pair: the new report's, or its partner's if it has none.
MidCount(new, partner) == IF new.mids = 0 THEN partner.mids ELSE new.mids

\* mids[i] is read for each monitored task; a shorter slice panics.
Readable(new, partner) == MidCount(new, partner) >= Tasks

Kept(o) == pendingOrders

\* Delete and Store of the map.
Deleted(o) == [pendingOrders EXCEPT ![o] = NoReport]
Stored(o, r) == [pendingOrders EXCEPT ![o] = r]

Goto(h, step) == pc' = [pc EXCEPT ![h] = step]

\* The handler answers 200 and its goroutine waits for the next event.
Return(h) ==
    /\ Goto(h, "idle")
    /\ msg' = [msg EXCEPT ![h] = NoReport]
    /\ old' = [old EXCEPT ![h] = NoReport]

\* The channel hands r to the idle handler h: for the first time, or again.
Deliver(h, r) ==
    /\ pc[h] = "idle"
    /\ deliveries[r] < MaxDeliveries
    /\ deliveries' = [deliveries EXCEPT ![r] = @ + 1]

--------------------------------------------------------------------------------
(* The handler.                                                            *)

\* An event of another type, or an order of another type: acknowledged and skipped.
Skip(h, r) ==
    /\ r.type = "other"
    /\ Deliver(h, r)
    /\ UNCHANGED <<handlers, memory, arrived>>

\* parseOrder's named result err is shadowed: it returns a nil order and a nil error,
\* and the handler dereferences the order.
Poison(h, r) ==
    /\ r.type = "unparsable"
    /\ Deliver(h, r)
    /\ Restart

Receive(h, r) ==
    /\ r.type = "Order"
    /\ Deliver(h, r)
    /\ Goto(h, "load")
    /\ msg' = [msg EXCEPT ![h] = r]
    /\ arrived' = [arrived EXCEPT ![r.order] = @ + 1]
    /\ UNCHANGED <<old, memory>>

UncountedMiss(h) ==
    /\ pc[h] = "load"
    /\ pendingOrders[msg[h].order] = NoReport
    /\ Goto(h, "store")
    /\ UNCHANGED <<channel, msg, old, memory, arrived>>

\* pendingOrders.Load finds no partner.
LoadMiss(h) ==
    /\ pc[h] = "load"
    /\ pendingOrders[msg[h].order] = NoReport
    /\ Goto(h, "count")
    /\ UNCHANGED <<channel, msg, old, memory, arrived>>

\* pendingOrders.Load finds a partner whose mid timestamps, or its own, cover the tasks.
LoadHit(h) ==
    LET partner == pendingOrders[msg[h].order]
    IN  /\ pc[h] = "load"
        /\ partner # NoReport
        /\ Readable(msg[h], partner)
        /\ Goto(h, "record")
        /\ old' = [old EXCEPT ![h] = partner]
        /\ UNCHANGED <<channel, msg, memory, arrived>>

\* The partner is found, and mids[i] is out of range: two inputs met.
LoadPanic(h) ==
    LET partner == pendingOrders[msg[h].order]
    IN  /\ pc[h] = "load"
        /\ partner # NoReport
        /\ ~Readable(msg[h], partner)
        /\ Restart
        /\ UNCHANGED channel

\* atomic.AddInt64(&inputTracking, 1)
Count(h) ==
    /\ pc[h] = "count"
    /\ counted' = [counted EXCEPT ![msg[h].order] = @ + 1]
    /\ Goto(h, "store")
    /\ UNCHANGED <<channel, msg, old, pendingOrders, latencyTracking, arrived>>

\* pendingOrders.Store(id, order)
Store(h) ==
    /\ pc[h] = "store"
    /\ pendingOrders' = Stored(msg[h].order, msg[h])
    /\ Return(h)
    /\ UNCHANGED <<channel, counted, latencyTracking, arrived>>

\* The latency is appended under latencyTrackingLock.
Record(h) ==
    /\ pc[h] = "record"
    /\ latencyTracking' =
           [latencyTracking EXCEPT ![msg[h].order] = Append(@, Latency(msg[h], old[h]))]
    /\ Goto(h, "delete")
    /\ UNCHANGED <<channel, msg, old, pendingOrders, counted, arrived>>

\* pendingOrders.Delete(id): whatever the entry holds by now.
Delete(h) ==
    /\ pc[h] = "delete"
    /\ pendingOrders' = Deleted(msg[h].order)
    /\ Return(h)
    /\ UNCHANGED <<channel, counted, latencyTracking, arrived>>

\* The pod is killed or evicted.
Kill ==
    /\ MayRestart
    /\ Restart
    /\ UNCHANGED channel

Step(h) ==
    \/ LoadMiss(h) \/ LoadHit(h) \/ LoadPanic(h)
    \/ Count(h) \/ Store(h) \/ Record(h) \/ Delete(h)

Next ==
    \/ \E h \in Handler, r \in Report : Skip(h, r) \/ Poison(h, r) \/ Receive(h, r)
    \/ \E h \in Handler : Step(h)
    \/ Kill

Spec == Init /\ [][Next]_vars

--------------------------------------------------------------------------------
(* Properties.                                                             *)

\* The handlers that hold a report of o and whose next step is one of steps.
At(steps, o) == {h \in Handler : pc[h] \in steps /\ msg[h].order = o}

\* The handlers that hold a report of o and have neither counted nor measured it.
Undecided(o) == At({"load", "count", "record"}, o)

\* Every report the process received is counted as one input, or measured once, or still
\* in a handler that has done neither: no interleaving of the handlers loses one on the
\* way or accounts for it twice (the branches at observer.go 58-83).
Conservation ==
    \A o \in Order :
        arrived[o] = counted[o] + Len(latencyTracking[o]) + Cardinality(Undecided(o))

\* A pending report is not deleted until its measurement is recorded, so that a report
\* is matched at most once by each handler: however often the channel repeats itself, an
\* order is never measured more often than |Handler| times for each input counted.
MeasuredPerInput ==
    \A o \in Order : Len(latencyTracking[o]) <= Cardinality(Handler) * counted[o]
================================================================================
