------------------------------ MODULE OrderLedger ------------------------------
(***************************************************************************)
(* What the observer promises about every order, whatever its goroutines   *)
(* do: the order is opened by the first of its two reports, and closed by  *)
(* the second, which records the end-to-end latency, once.  When two       *)
(* goroutines handle the two reports at the same time the order may end up *)
(* stranded instead: counted as two inputs and never measured.             *)
(***************************************************************************)
EXTENDS Integers, Sequences

CONSTANTS
    Order,       \* the order ids
    EndToEnd,    \* EndToEnd[o]: the true latency of o, from input to last task
    MayStrand    \* TRUE when the two reports of an order may overlap

VARIABLES
    counted,          \* counted[o]: how often o was counted as a new input
    latencyTracking   \* latencyTracking[o]: the latencies recorded for o

ledger == <<counted, latencyTracking>>

Init ==
    /\ counted = [o \in Order |-> 0]
    /\ latencyTracking = [o \in Order |-> <<>>]

\* The first report of o: a new input.
Open(o) ==
    /\ counted[o] = 0
    /\ counted' = [counted EXCEPT ![o] = 1]
    /\ UNCHANGED latencyTracking

\* The second report of o, seen together with the first: its latency.
Measure(o) ==
    /\ counted[o] = 1
    /\ latencyTracking[o] = <<>>
    /\ latencyTracking' = [latencyTracking EXCEPT ![o] = <<EndToEnd[o]>>]
    /\ UNCHANGED counted

\* The second report of o, handled as if it were the first.
Strand(o) ==
    /\ MayStrand
    /\ counted[o] = 1
    /\ latencyTracking[o] = <<>>
    /\ counted' = [counted EXCEPT ![o] = 2]
    /\ UNCHANGED latencyTracking

Next == \E o \in Order : Open(o) \/ Measure(o) \/ Strand(o)

Spec == Init /\ [][Next]_ledger
================================================================================
