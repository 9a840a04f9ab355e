---------------------------- MODULE MCLoadGenerator ----------------------------
(***************************************************************************)
(* Instances of LoadGenerator for TLC: a constant rate, and small bursts,  *)
(* of up to three requests in all.  The floats have mantissas of three bits *)
(* and the smallest unit is an eighth, so that sums of rates are rounded   *)
(* within a burst, as those of Python's floats are within 10 11 0.1.       *)
(***************************************************************************)
EXTENDS LoadGenerator

ThreeBits == {m * u : m \in -7 .. 7, u \in {1, 2, 4, 8}}

BurstArgs(s, e, a, h, l, p) ==
    [program |-> "burst", srate |-> s, erate |-> e, acc |-> a, hduration |-> h,
     lduration |-> l, period |-> p]
OrdersArgs(r, d) ==
    [program |-> "orders", srate |-> r, erate |-> r, acc |-> 1, hduration |-> d,
     lduration |-> 0, period |-> 1]

\* The bursts climb and fall by the same rates, by others and ending above or below the
\* first one, below zero, start above the rate to reach, or make no request.
SmallPlans == {
    OrdersArgs(4, 4),
    OrdersArgs(5, 5),
    BurstArgs(4, 8, 4, 1, 2, 1),
    BurstArgs(1, 7, 5, 0, 3, 2),
    BurstArgs(3, 7, 4, 0, 1, 1),
    BurstArgs(8, 7, 6, 1, 0, 1),
    BurstArgs(4, 5, 7, 0, 3, 2),
    BurstArgs(0, 2, 2, 1, 1, 2)}

OneBurst == {BurstArgs(8, 16, 8, 0, 0, 1)}
================================================================================
