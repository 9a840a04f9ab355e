-------------------------------- MODULE Pipeline -------------------------------
(***************************************************************************)
(* The workflow of an order, from the client to the observer's handlers:   *)
(* the channels and subscriptions of yaml/, the forward functions          *)
(* (src/forwardsc/forwardsc.go), which add a mid timestamp and send the    *)
(* order on, and the observer's reportOrders (OrderMatcher), which gets    *)
(* the order from the first channel and from the last.  A channel holds an *)
(* event until its function has answered, and delivers it again when the   *)
(* function's pod ends, or its answer is lost.  A function sends before it *)
(* answers: what it was given again after that, it sends on as a second    *)
(* copy.  A failed Send is ignored and answered with 200: the order is     *)
(* lost.  Each report reaches the observer once.                           *)
(***************************************************************************)
EXTENDS OrderMatcher

CONSTANTS
    PlacedAt,     \* the client's stamp of each order
    Duration,     \* how long its first copy takes to the last function's stamp
    Fragile,      \* the orders whose functions may fail
    MaxCopies     \* bound: the copies of an order beside the first

ASSUME StampAssumption == PlacedAt \in [Order -> Nat] /\ Duration \in [Order -> Nat]
ASSUME FragileAssumption == Fragile \subseteq Order /\ MaxCopies \in Nat

VARIABLES
    placed,       \* the orders the client has posted
    channels,     \* the events whose function has not answered yet
    posted,       \* the reports in the channels of the observer
    copies,       \* the copies made of each order
    lost,         \* history: the copies whose Send failed, by order
    overlapped    \* history: the orders two reports of which were in handlers at once

events == <<placed, channels, posted, copies, lost>>
workflow == <<events, overlapped>>
pipelineVars == <<vars, workflow>>

\* An event on its way to the function of task `to`.
Event == [order : Order, to : 1 .. Tasks, copy : 0 .. MaxCopies, mids : Nat]

\* What the observer gets from the first channel and from the last: later copies have later
\* stamps.
InputReport(o) == [order |-> o, stamp |-> PlacedAt[o], mids |-> 0, type |-> "Order"]
OutputReport(o, copy, mids) ==
    [order |-> o, stamp |-> PlacedAt[o] + Duration[o] + copy, mids |-> mids, type |-> "Order"]

\* There is a first function, and the reports of the workflow are what the observer may get.
ASSUME WorkflowAssumption ==
    /\ Tasks > 0
    /\ \A o \in Order : InputReport(o) \in Report
    /\ \A o \in Order, copy \in 0 .. MaxCopies :
           copy = 0 \/ o \in Fragile => OutputReport(o, copy, Tasks) \in Report

PipelineInit ==
    /\ Init
    /\ placed = {} /\ channels = {} /\ posted = {}
    /\ copies = Zero /\ lost = Zero
    /\ overlapped = {}

--------------------------------------------------------------------------------
(* The client and the functions.                                           *)

\* The client posts an order to the channel `orders`, which has two subscribers: the
\* observer and the first function.
Place(o) ==
    /\ o \notin placed
    /\ placed' = placed \cup {o}
    /\ channels' = channels \cup {[order |-> o, to |-> 1, copy |-> 0, mids |-> 0]}
    /\ posted' = posted \cup {InputReport(o)}
    /\ UNCHANGED <<copies, lost, overlapped, vars>>

SameMids(e) == e.mids
\* order.Payload.MidTimestamp = append(...)
AppendedMids(e) == e.mids + 1

\* c.Send, to the next function's channel or to the last one, the observer's.  The channel
\* of the function then holds `rest` of the event.
Send(e, rest) ==
    IF e.to < Tasks
    THEN /\ channels' = (channels \ {e}) \cup rest
                        \cup {[e EXCEPT !.to = @ + 1, !.mids = AppendedMids(e)]}
         /\ UNCHANGED posted
    ELSE /\ channels' = (channels \ {e}) \cup rest
         /\ posted' = posted \cup {OutputReport(e.order, e.copy, AppendedMids(e))}

\* receive: the order is sent on and the event answered.  When the pod ends before the Send
\* the channel still holds the event as it was.
Forward(e) ==
    /\ Send(e, {})
    /\ UNCHANGED <<placed, copies, lost, overlapped, vars>>

\* The order is sent on, and the pod ends or the answer is lost: a new copy waits.
ForwardUnanswered(e) ==
    /\ e.order \in Fragile
    /\ copies[e.order] < MaxCopies
    /\ copies' = [copies EXCEPT ![e.order] = @ + 1]
    /\ Send(e, {[e EXCEPT !.copy = copies'[e.order]]})
    /\ UNCHANGED <<placed, lost, overlapped, vars>>

\* c.Send fails, and nobody looks at its result.
LoseSend(e) ==
    /\ e.order \in Fragile
    /\ channels' = channels \ {e}
    /\ lost' = [lost EXCEPT ![e.order] = @ + 1]
    /\ UNCHANGED <<placed, posted, copies, overlapped, vars>>

Function(o) ==
    \E e \in channels :
        e.order = o /\ (Forward(e) \/ ForwardUnanswered(e) \/ LoseSend(e))

--------------------------------------------------------------------------------
(* The observer.                                                           *)

\* A handler takes a report from the observer's channels, once.
TakeReport(h, r) ==
    /\ r \in posted /\ deliveries[r] = 0
    /\ Receive(h, r)
    /\ overlapped' = IF \E g \in Handler : pc[g] # "idle" /\ msg[g].order = r.order
                     THEN overlapped \cup {r.order} ELSE overlapped
    /\ UNCHANGED events

PipelineNext ==
    \/ \E o \in Order : Place(o) \/ Function(o)
    \/ \E h \in Handler, r \in posted : TakeReport(h, r)
    \/ \E h \in Handler : Step(h) /\ UNCHANGED workflow

PipelineSpec == PipelineInit /\ [][PipelineNext]_pipelineVars

\* The channels deliver what they hold until it is answered, and every goroutine is
\* scheduled.  Nobody has to place an order.
PipelineFairness ==
    /\ \A o \in Order :
        /\ WF_pipelineVars(Function(o))
        /\ WF_pipelineVars(\E h \in Handler, r \in posted : r.order = o /\ TakeReport(h, r))
    /\ \A h \in Handler : WF_pipelineVars(Step(h) /\ UNCHANGED workflow)

FairPipelineSpec == PipelineSpec /\ PipelineFairness

--------------------------------------------------------------------------------
(* Properties.                                                             *)

\* Whenever a report finds its partner one of the two has been through all functions: the
\* observer's loop over the tasks never reads past the mid timestamps.
MidsCoverTasks ==
    \A h \in Handler :
        LET partner == pendingOrders[msg[h].order]
        IN  pc[h] = "load" /\ partner # NoReport => Readable(msg[h], partner)

Reports(o) == {r \in posted : r.order = o}
Copies(o) == {e \in channels : e.order = o}

\* Nothing of the order is on its way.
Quiet(o) ==
    /\ o \in placed
    /\ Copies(o) = {}
    /\ \A r \in Reports(o) : deliveries[r] = 1
    /\ At({"load", "count", "store", "record", "delete"}, o) = {}

Measured(o) ==
    /\ counted[o] = 1
    /\ Len(latencyTracking[o]) = 1
    /\ pendingOrders[o] = NoReport

Stranded(o) ==
    /\ counted[o] = 2
    /\ latencyTracking[o] = <<>>
    /\ pendingOrders[o] # NoReport

\* Its reports have been taken as one input and its output in turn.
Paired(o) ==
    LET n == Cardinality(Reports(o))
    IN  /\ Len(latencyTracking[o]) = n \div 2
        /\ counted[o] = n - n \div 2
        /\ (pendingOrders[o] # NoReport) <=> (n % 2 = 1)

\* An order of which nothing is on its way any more has reached the observer once from the
\* first channel, and from the last once for every copy, but for those a failed Send lost.
\* These reports are paired, so that without a copy or a loss the order is measured, once,
\* and a lost one stays pending; unless handlers had two of them at once, when the unlocked
\* Load ... Store (observer.go 58-82) may strand the order instead.
SettledOutcome ==
    \A o \in Order : Quiet(o) =>
        /\ Cardinality(Reports(o)) = 2 + copies[o] - lost[o]
        /\ o \notin overlapped => Paired(o)
        /\ o \in overlapped /\ Cardinality(Reports(o)) = 2 => Measured(o) \/ Stranded(o)

\* Every order the client places comes to rest in the end, whatever functions fail: the
\* observer has done with all its reports, and paired them unless it had two at once.
EveryOrderSettles ==
    \A o \in Order : <>[](o \in placed => Quiet(o) /\ (o \in overlapped \/ Paired(o)))

Sturdy == Order \ Fragile
OfSturdy(f) == [o \in Sturdy |-> f[o]]
EndToEnd == [o \in Sturdy |-> Duration[o]]

\* For the orders whose functions do not fail the workflow keeps what OrderLedger promises:
\* the input first, then the one latency of the order from the client's stamp to the last
\* function's, whichever of the two reports comes first.
Ledger == INSTANCE OrderLedger WITH
    Order <- Sturdy, MayStrand <- Cardinality(Handler) > 1,
    counted <- OfSturdy(counted), latencyTracking <- OfSturdy(latencyTracking)
ImplementsLedger == Ledger!Spec
================================================================================
