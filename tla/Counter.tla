-------------------------------- MODULE Counter --------------------------------
(***************************************************************************)
(* class Counter of the load generators (src/cli/genburst.py, and the same *)
(* in genorders.py and genconcurrency.py).  itertools.count() only goes up *)
(* and has no way to be read: value() advances it too, and takes off how   *)
(* often it has done so.  inc() takes no lock, and next() of the counter   *)
(* is one step of the interpreter; the rest of value() is not, and a lock  *)
(* keeps its callers apart.                                                *)
(***************************************************************************)
EXTENDS Integers

CONSTANTS
    Reader,    \* the threads that call value()
    Nobody,    \* no thread: the lock is free
    MaxNext    \* bound: how often the counter is advanced

ASSUME ReaderAssumption == Nobody \notin Reader
ASSUME BoundAssumption == MaxNext \in Nat

VARIABLES
    counter,       \* what next(self.counter) gives
    numberOfRead,  \* self.number_of_read
    lock,          \* who holds self.lock
    pc,            \* what each reader does next
    value          \* the local variable value of each reader

vars == <<counter, numberOfRead, lock, pc, value>>

TypeOK ==
    /\ counter \in Nat
    /\ numberOfRead \in Nat
    /\ lock \in Reader \cup {Nobody}
    /\ pc \in [Reader -> {"out", "next", "subtract", "bump", "release"}]
    /\ value \in [Reader -> Nat]

Init ==
    /\ counter = 0
    /\ numberOfRead = 0
    /\ lock = Nobody
    /\ pc = [r \in Reader |-> "out"]
    /\ value = [r \in Reader |-> 0]

Goto(r, step) == pc' = [pc EXCEPT ![r] = step]

\* inc(): next(self.counter)
Inc ==
    /\ counter < MaxNext
    /\ counter' = counter + 1
    /\ UNCHANGED <<numberOfRead, lock, pc, value>>

NoLock == TRUE
Free == lock = Nobody

\* with self.lock
Acquire(r) ==
    /\ pc[r] = "out"
    /\ Free
    /\ lock' = r
    /\ Goto(r, "next")
    /\ UNCHANGED <<counter, numberOfRead, value>>

\* next(self.counter), once more
Advance(r) ==
    /\ pc[r] = "next"
    /\ counter < MaxNext
    /\ value' = [value EXCEPT ![r] = counter]
    /\ counter' = counter + 1
    /\ Goto(r, "subtract")
    /\ UNCHANGED <<numberOfRead, lock>>

ReadsWithThis == numberOfRead + 1
ReadsBefore == numberOfRead

\* ... - self.number_of_read
Subtract(r) ==
    /\ pc[r] = "subtract"
    /\ value' = [value EXCEPT ![r] = @ - ReadsBefore]
    /\ Goto(r, "bump")
    /\ UNCHANGED <<counter, numberOfRead, lock>>

\* self.number_of_read += 1
Bump(r) ==
    /\ pc[r] = "bump"
    /\ numberOfRead' = numberOfRead + 1
    /\ Goto(r, "release")
    /\ UNCHANGED <<counter, lock, value>>

\* The lock is released, and value returned.
Release(r) ==
    /\ pc[r] = "release"
    /\ lock' = Nobody
    /\ Goto(r, "out")
    /\ UNCHANGED <<counter, numberOfRead, value>>

Step(r) == Acquire(r) \/ Advance(r) \/ Subtract(r) \/ Bump(r) \/ Release(r)

Next == Inc \/ \E r \in Reader : Step(r)

Spec == Init /\ [][Next]_vars

--------------------------------------------------------------------------------
(* Properties.                                                             *)

\* A reader that has advanced the counter and not yet said so.
Ahead == {r \in Reader : pc[r] \in {"subtract", "bump"}}

\* How often inc() was called, and what each reader read, as the state shows it.
Count == counter - numberOfRead - (IF Ahead = {} THEN 0 ELSE 1)
Result == [r \in Reader |-> IF pc[r] = "subtract" THEN value[r] - numberOfRead ELSE value[r]]

\* inc() and value() take effect at one instant each, whatever the threads' interleaving:
\* advancing the counter in order to read it is never seen, although inc() takes no lock.
Atomic == INSTANCE AtomicCounter WITH count <- Count, result <- Result
ImplementsAtomicCounter == Atomic!Spec
================================================================================
