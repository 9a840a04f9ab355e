----------------------------- MODULE AtomicCounter -----------------------------
(***************************************************************************)
(* What the load generators expect of their Counter: inc() adds one and    *)
(* value() returns how many there were, each at one instant between its    *)
(* call and its return.                                                    *)
(***************************************************************************)
EXTENDS Integers

CONSTANT Reader   \* the threads that call value()

VARIABLES
    count,   \* how often inc() was called
    result   \* result[r]: what value() returned to r last

Init ==
    /\ count = 0
    /\ result = [r \in Reader |-> 0]

Inc ==
    /\ count' = count + 1
    /\ UNCHANGED result

Value(r) ==
    /\ result' = [result EXCEPT ![r] = count]
    /\ UNCHANGED count

Next == Inc \/ \E r \in Reader : Value(r)

Spec == Init /\ [][Next]_<<count, result>>
================================================================================
