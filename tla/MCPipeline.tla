------------------------------- MODULE MCPipeline ------------------------------
(***************************************************************************)
(* An instance of Pipeline for TLC: two orders on their way through three  *)
(* functions.  The functions of the first may fail, and it may be copied.  *)
(***************************************************************************)
EXTENDS Pipeline, TLC

CONSTANTS o1, o2

PlacedAtOf2 == o1 :> 1 @@ o2 :> 2
DurationOf2 == o1 :> 3 @@ o2 :> 7

\* Every report an order may have, also with mid timestamps missing.
Reported ==
    [order : {o1}, stamp : {1}, mids : {0}, type : {"Order"}]
    \cup [order : {o1}, stamp : 4 .. 4 + MaxCopies, mids : 0 .. Tasks, type : {"Order"}]
    \cup [order : {o2}, stamp : {2}, mids : {0}, type : {"Order"}]
    \cup [order : {o2}, stamp : {9}, mids : 0 .. Tasks, type : {"Order"}]
================================================================================
