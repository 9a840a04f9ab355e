----------------------------- MODULE LoadGenerator -----------------------------
(***************************************************************************)
(* The generators src/cli/genorders.py and genburst.py: the threads of     *)
(* Tracking, the sender following its plan.  genorders sends at one rate   *)
(* for a while.  genburst climbs from srate to erate, stays, falls back,   *)
(* stays, and all this `period` times.  A rate is sent for some seconds as *)
(* int(rate * seconds) requests.  Rates are floats: each sum and product   *)
(* is rounded, so that a climb may take a step more than its arguments     *)
(* say, and a fall pass the rate the climb began with.                     *)
(***************************************************************************)
EXTENDS Tracking, Floats, FiniteSetsExt

CONSTANTS
    Args,       \* the programs that may be started and their arguments
    Unit,       \* one request per second, as a number of the smallest fractions
    StepSize    \* how long each rate of the climb stays: 1 in genburst.py

\* float() and int() of what the user types.  genorders.py has one period.
ASSUME ArgsAssumption ==
    /\ Args \subseteq [program : {"orders", "burst"}, srate : Floats, erate : Floats, acc : Floats,
                       hduration : Nat, lduration : Nat, period : Nat]
    /\ \A a \in Args : a.program = "orders" => a.period = 1
ASSUME UnitAssumption == Unit \in Nat \ {0}
ASSUME StepAssumption == StepSize \in Nat

VARIABLES
    args,      \* the arguments
    phase,     \* where the sender is in its plan
    rate,      \* its rate
    period,    \* the bursts left
    first      \* history: the requests of the first burst

plan == <<args, phase, rate, period, first>>
vars == <<plan, threads>>

TypeOK ==
    /\ args \in Args
    /\ phase \in {"steady", "rise", "high", "fall", "low"}
    /\ rate \in Floats /\ period \in Nat /\ first \in Nat
    /\ ThreadsTypeOK

\* python genorders.py [parallelism] [rate] [duration] [distribution]
OrdersMain ==
    /\ args.program = "orders"
    /\ phase = "steady"

\* python genburst.py [parallelism] [srate] [erate] [acceleration] ... [repeat] [distribution]
BurstMain ==
    /\ args.program = "burst"
    /\ phase = "rise"

Init ==
    /\ args \in Args
    /\ OrdersMain \/ BurstMain
    /\ rate = args.srate /\ period = args.period /\ first = 0
    /\ ThreadsInit

--------------------------------------------------------------------------------
(* The plans.                                                              *)

\* n = int(rate * seconds): range(n) is empty when n is negative.
SignedOrders(r, seconds) == Round(r * seconds) \div Unit
Orders(r, seconds) ==
    LET product == Round(r * seconds)
    IN  IF product < 0 THEN 0 ELSE product \div Unit

NextRate == spc = "loop" /\ left = 0 /\ period > 0

\* genorders: the whole duration at the one rate
Steady ==
    /\ NextRate /\ phase = "steady"
    /\ left' = Orders(rate, args.hduration)
    /\ period' = 0
    /\ UNCHANGED <<phase, rate, first>>

\* while rate < erate: a second at this rate, then the next.
Rise ==
    /\ NextRate /\ phase = "rise" /\ rate < args.erate
    /\ left' = Orders(rate, StepSize)
    /\ rate' = Round(rate + args.acc)
    /\ UNCHANGED <<phase, period, first>>

High ==
    /\ NextRate /\ phase = "rise" /\ rate >= args.erate
    /\ left' = Orders(rate, args.hduration)
    /\ phase' = "high"
    /\ UNCHANGED <<rate, period, first>>

FallToStop ==
    /\ NextRate /\ phase \in {"high", "fall"} /\ rate > 0
    /\ left' = Orders(rate, StepSize)
    /\ rate' = Round(rate - args.acc)
    /\ phase' = "fall"
    /\ UNCHANGED <<period, first>>

\* while rate > srate
Fall ==
    /\ NextRate /\ phase \in {"high", "fall"} /\ rate > args.srate
    /\ left' = Orders(rate, StepSize)
    /\ rate' = Round(rate - args.acc)
    /\ phase' = "fall"
    /\ UNCHANGED <<period, first>>

\* At the low rate; with none, the thread sleeps instead.
Low ==
    /\ NextRate /\ phase \in {"high", "fall"} /\ rate <= args.srate
    /\ left' = Orders(rate, args.lduration)
    /\ phase' = "low"
    /\ UNCHANGED <<rate, period, first>>

NextPeriodAtLowRate ==
    /\ NextRate /\ phase = "low"
    /\ period' = period - 1
    /\ phase' = "rise"
    /\ first' = IF period = args.period THEN sent ELSE first
    /\ UNCHANGED <<rate, left>>

\* period -= 1, and rate = srate.
NextPeriod ==
    /\ NextRate /\ phase = "low"
    /\ period' = period - 1
    /\ phase' = "rise"
    /\ rate' = args.srate
    /\ first' = IF period = args.period THEN sent ELSE first
    /\ UNCHANGED left

Plan ==
    /\ Steady \/ Rise \/ High \/ Fall \/ Low \/ NextPeriod
    /\ UNCHANGED <<args, spc, results, pendingRequests, running, sent, tracker, user>>

\* generate_requests
Sender ==
    \/ Plan
    \/ Request /\ UNCHANGED plan
    \/ period = 0 /\ EndSender /\ UNCHANGED plan

\* tracking
Tracks == Tracker /\ UNCHANGED plan

Next == Sender \/ Tracks \/ (Others /\ UNCHANGED plan)

Spec == Init /\ [][Next]_vars

\* Both threads are scheduled; a request may never be answered.
FairSpec == Spec /\ WF_vars(Sender) /\ WF_vars(Tracks)

--------------------------------------------------------------------------------
(* Properties.                                                             *)

\* A burst climbs past its high rate, and falls past the rate it began with, by a step at
\* most, however the sums of its rates are rounded.
RateStaysNear ==
    args.acc >= 0 =>
        /\ rate <= Max({args.srate, Round(args.erate + args.acc)})
        /\ rate >= Round(args.srate - args.acc)

\* When the sender ends it has made and counted what it was asked for: genorders its rate
\* for its duration, and genburst as many requests in each burst as in the first, although
\* the rate a burst falls to is not the one it began with.
BurstsAreAlike ==
    spc = "done" =>
        /\ Len(results) = sent
        /\ sent = IF args.program = "orders" THEN Orders(args.srate, args.hduration)
                  ELSE args.period * first

\* The generator ends, also when requests are never answered: the sender ends, and then
\* the tracker, with the unanswered ones still on its queue.
GeneratorEnds == <>(spc = "done" /\ tpc = "done")

\* "press [Ctrl + C] to stop" (genburst.py 246, genorders.py 214): once it was pressed no
\* more requests are made than the one the sender was about to make.
StopIsHeeded == late <= 1
================================================================================
