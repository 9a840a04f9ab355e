------------------------------- MODULE SLOStatus -------------------------------
(***************************************************************************)
(* updateSLOEnforcement of src/sloobserver/observer.go and the SLODesc it  *)
(* keeps: every five seconds gocron starts a goroutine that gets the       *)
(* SLODesc, reads inputTracking and then zeroes it, appends a metric to    *)
(* status.metrics, of which the last trackingLength are kept, and puts the *)
(* status back.  The API server refuses a status whose resourceVersion is  *)
(* no longer the object's.  No error is retried: the window is lost.       *)
(*                                                                         *)
(* An arrival is an order counted by reportOrders; inputTracking, a number *)
(* in the code, is the set of the arrivals it counts.  The latencies of    *)
(* the window are the module LatencyWindow's.                              *)
(***************************************************************************)
EXTENDS Integers, Sequences, FiniteSets

CONSTANTS
    Job,             \* the runs of the cron job that may overlap
    TrackingLength,  \* trackingLength
    Period,          \* supportingPeriod, in seconds
    Load,            \* arrivals between two ticks of the cron job, at most
    MaxTicks,        \* bound: the ticks
    MaxWrites        \* bound: the writes of others to the SLODesc

ASSUME JobAssumption == IsFiniteSet(Job)
ASSUME LengthAssumption == TrackingLength \in Nat \ {0}
ASSUME PeriodAssumption == Period \in Nat \ {0}
ASSUME BoundAssumption == Load \in Nat /\ MaxTicks \in Nat /\ MaxWrites \in Nat

VARIABLES
    inputTracking,  \* the arrivals counted and not yet zeroed
    arrivals,       \* how many arrivals there were: their names are 1..arrivals
    sinceTick,      \* the arrivals since the last tick
    ticks,          \* how often the cron job was started
    pc,             \* what each run does next
    slo,            \* the SLODesc each run got
    window,         \* the arrivals each run read
    sloDesc,        \* the object in the API server: [version, metrics]
    writes,         \* the writes of others
    published,      \* history: the windows of every metric ever written
    created,        \* history: how many of them the object's previous lives hold
    missed          \* history: the runs that gave up since inputTracking was zeroed

counter == <<inputTracking, arrivals, sinceTick>>
runs == <<pc, slo, window>>
server == <<sloDesc, writes, published, created>>
vars == <<inputTracking, arrivals, sinceTick, ticks, pc, slo, window,
          sloDesc, writes, published, created, missed>>

Absent == [version |-> 0, metrics |-> <<>>]
Metric == [rate : Nat, window : SUBSET Nat]
Object == [version : Nat, metrics : Seq(Metric)]
JobSteps == {"idle", "get", "read", "zero", "publish"}

TypeOK ==
    /\ inputTracking \subseteq 1..arrivals
    /\ arrivals \in Nat /\ sinceTick \in 0..Load /\ ticks \in 0..MaxTicks
    /\ pc \in [Job -> JobSteps]
    /\ slo \in [Job -> Object]
    /\ window \in [Job -> SUBSET (1..arrivals)]
    /\ sloDesc \in Object
    /\ writes \in 0..MaxWrites
    /\ published \in Seq(SUBSET (1..arrivals))
    /\ created \in 0..Len(published)
    /\ missed \in Nat

Init ==
    /\ inputTracking = {} /\ arrivals = 0 /\ sinceTick = 0 /\ ticks = 0
    /\ pc = [j \in Job |-> "idle"]
    /\ slo = [j \in Job |-> Absent]
    /\ window = [j \in Job |-> {}]
    /\ sloDesc = [version |-> 1, metrics |-> <<>>]
    /\ writes = 0
    /\ published = <<>> /\ created = 0
    /\ missed = 0

--------------------------------------------------------------------------------
(* reportOrders and the scheduler.                                         *)

\* atomic.AddInt64(&inputTracking, 1)
Arrive ==
    /\ sinceTick < Load
    /\ inputTracking' = inputTracking \cup {arrivals + 1}
    /\ arrivals' = arrivals + 1
    /\ sinceTick' = sinceTick + 1
    /\ UNCHANGED <<ticks, runs, server, missed>>

\* Five seconds are over: gocron starts a run, in a goroutine of its own, whatever the
\* earlier ones are doing.
Tick(j) ==
    /\ pc[j] = "idle"
    /\ ticks < MaxTicks
    /\ ticks' = ticks + 1
    /\ sinceTick' = 0
    /\ pc' = [pc EXCEPT ![j] = "get"]
    /\ UNCHANGED <<inputTracking, arrivals, slo, window, server, missed>>

--------------------------------------------------------------------------------
(* A run.                                                                  *)

Goto(j, step) == pc' = [pc EXCEPT ![j] = step]

Return(j) ==
    /\ Goto(j, "idle")
    /\ slo' = [slo EXCEPT ![j] = Absent]
    /\ window' = [window EXCEPT ![j] = {}]

Get(j) ==
    /\ pc[j] = "get"
    /\ slo' = [slo EXCEPT ![j] = sloDesc]
    /\ Goto(j, "read")
    /\ UNCHANGED <<counter, ticks, window, server, missed>>

\* The object is not there, or the API server cannot be reached: the run ends and the
\* counter is left as it is.
GetFails(j) ==
    /\ pc[j] = "get"
    /\ Return(j)
    /\ missed' = missed + 1
    /\ UNCHANGED <<counter, ticks, server>>

\* inputrate := float64(inputTracking) / float64(supportingPeriod)
Read(j) ==
    /\ pc[j] = "read"
    /\ window' = [window EXCEPT ![j] = inputTracking]
    /\ Goto(j, "zero")
    /\ UNCHANGED <<counter, ticks, slo, server, missed>>

NotZeroed == inputTracking
Zeroed == {}

\* atomic.StoreInt64(&inputTracking, 0): what was counted since the read is dropped.
Zero(j) ==
    /\ pc[j] = "zero"
    /\ inputTracking' = Zeroed
    /\ missed' = 0
    /\ Goto(j, "publish")
    /\ UNCHANGED <<arrivals, sinceTick, ticks, slo, window, server>>

RateOrUnknown(w) == IF w = {} THEN -1 ELSE Cardinality(w) \div Period
\* int64(inputrate)
Rate(w) == Cardinality(w) \div Period

NeverDropped(metrics, m) == Append(metrics, m)

\* status.metrics with one more metric, the oldest dropped when there are enough.
Appended(metrics, m) ==
    IF Len(metrics) < TrackingLength
    THEN Append(metrics, m)
    ELSE Append(SubSeq(metrics, 2, Len(metrics)), m)

Unchecked(j) == slo[j].version <= sloDesc.version
Current(j) == slo[j].version = sloDesc.version

\* UpdateStatus is applied: the object is still the one the run got.
Publish(j) ==
    /\ pc[j] = "publish"
    /\ Current(j)
    /\ sloDesc' = [version |-> sloDesc.version + 1,
                   metrics |-> Appended(slo[j].metrics,
                                        [rate |-> Rate(window[j]), window |-> window[j]])]
    /\ published' = Append(published, window[j])
    /\ Return(j)
    /\ UNCHANGED <<counter, ticks, writes, created, missed>>

\* UpdateStatus is refused, or fails: the error is logged.
PublishFails(j) ==
    /\ pc[j] = "publish"
    /\ Return(j)
    /\ UNCHANGED <<counter, ticks, server, missed>>

--------------------------------------------------------------------------------
(* Others.                                                                 *)

\* kubectl apply: the spec, or a label; the status is a subresource and stays.
Apply ==
    /\ writes < MaxWrites
    /\ sloDesc' = [sloDesc EXCEPT !.version = @ + 1]
    /\ writes' = writes + 1
    /\ UNCHANGED <<counter, ticks, runs, published, created, missed>>

\* The SLODesc is deleted and created anew; its versions go on from the server's.
Recreate ==
    /\ writes < MaxWrites
    /\ sloDesc' = [version |-> sloDesc.version + 1, metrics |-> <<>>]
    /\ created' = Len(published)
    /\ writes' = writes + 1
    /\ UNCHANGED <<counter, ticks, runs, published, missed>>

\* The observer's pod is killed: its memory is gone, the object is not.
Restart ==
    /\ writes < MaxWrites
    /\ inputTracking' = {}
    /\ pc' = [j \in Job |-> "idle"]
    /\ slo' = [j \in Job |-> Absent]
    /\ window' = [j \in Job |-> {}]
    /\ missed' = 0
    /\ writes' = writes + 1
    /\ UNCHANGED <<arrivals, sinceTick, ticks, sloDesc, published, created>>

Step(j) == Get(j) \/ GetFails(j) \/ Read(j) \/ Zero(j) \/ Publish(j) \/ PublishFails(j)

Next ==
    \/ Arrive
    \/ \E j \in Job : Tick(j) \/ Step(j)
    \/ Apply \/ Recreate \/ Restart

Spec == Init /\ [][Next]_vars

--------------------------------------------------------------------------------
(* Properties.                                                             *)

\* No arrival is in two of the metrics ever published, however the runs overlap and
\* whichever of them fail: a run that read the counter before another zeroed it also got
\* the object before the other wrote it, so that its status is refused.
CountedOnce ==
    \A k, l \in DOMAIN published : k # l => published[k] \cap published[l] = {}

\* status.metrics holds the last trackingLength metrics published since the object was
\* created, in order: no run overwrites what another published, and none is left out.
StatusIsRecentHistory ==
    LET n == Len(published)
        older == IF n - TrackingLength > created THEN n - TrackingLength ELSE created
    IN  /\ Len(sloDesc.metrics) = n - older
        /\ \A k \in 1..Len(sloDesc.metrics) : sloDesc.metrics[k].window = published[older + k]

\* The runs that will still zero the counter, or give up.
Unzeroed == {j \in Job : pc[j] \in {"get", "read", "zero"}}

\* The counter holds more than the load of one period when runs gave up, or are late: one
\* more period for each of these.  The rate a run reads, which is divided by one period
\* all the same, is overstated by as much and no more.
RateIsBounded ==
    Cardinality(inputTracking) <= Load * (missed + Cardinality(Unzeroed)) + sinceTick

\* The metrics come in the order of their windows: an arrival in a later metric came later.
WindowsAreOrdered ==
    \A k, l \in DOMAIN published :
        k < l => \A a \in published[k], b \in published[l] : a < b
================================================================================
