-------------------------- MODULE MCConcurrencyRounds --------------------------
(***************************************************************************)
(* Instances of ConcurrencyRounds for TLC: two rounds, of one to three     *)
(* requests each, rounds of none, no round at all, rounds that go down     *)
(* beyond zero, and no step, with one or two processes.                    *)
(***************************************************************************)
EXTENDS ConcurrencyRounds

Rounds(p, s, e, d) == [parallelism |-> p, srate |-> s, erate |-> e, step |-> d]

SmallArgs == {
    Rounds(1, 1, 3, 1),
    Rounds(2, 1, 3, 1),
    Rounds(2, 1, 4, 2),
    Rounds(2, 2, 4, 1),
    Rounds(1, 0, 3, 2),
    Rounds(1, 1, 1, 1),
    Rounds(2, 2, -2, -2),
    Rounds(2, 1, -2, -2),
    Rounds(1, 1, 2, 0)}
================================================================================
