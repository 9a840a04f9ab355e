----------------------------- MODULE MCOrderMatcher ----------------------------
(***************************************************************************)
(* An instance of OrderMatcher for TLC: one order with an input report,    *)
(* stamped when the client placed it, and two output reports, stamped by   *)
(* the last forward function, whose event the channel delivered twice.     *)
(* With them an event the observer skips and one that does not parse.      *)
(***************************************************************************)
EXTENDS OrderMatcher, TLC

CONSTANT o1

InputOf(o, t) == [order |-> o, stamp |-> t, mids |-> 0, type |-> "Order"]
OutputOf(o, t) == [order |-> o, stamp |-> t, mids |-> Tasks, type |-> "Order"]

Poisoned ==
    {InputOf(o1, 1), OutputOf(o1, 4), OutputOf(o1, 9),
     [order |-> o1, stamp |-> 5, mids |-> 0, type |-> "other"],
     [order |-> o1, stamp |-> 6, mids |-> 0, type |-> "unparsable"]}

HandlerSymmetry == Permutations(Handler)
================================================================================
