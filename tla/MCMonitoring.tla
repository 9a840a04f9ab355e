----------------------------- MODULE MCMonitoring ------------------------------
(***************************************************************************)
(* Instances of Monitoring for TLC.  Either two orders pass three services *)
(* in many ways, or have stamps in any order, and no set of pods exists,   *)
(* or one order passes while sets come, go and change, and the watch may   *)
(* break.                                                                  *)
(***************************************************************************)
EXTENDS Monitoring

CONSTANTS a, b

Sets == a :> <<1>> @@ b :> <<1>>

Times == {0, 1, 3}
Passing(t, x, y, z) == [placed |-> t, ends |-> <<t + x, t + x + y, t + x + y + z>>]

FirstLine == {Passing(1, x, y, z) : x \in Times, y \in Times, z \in Times}
OtherLine == {Passing(t, x, y, z) : t \in 1 .. 5, x \in Times, y \in Times, z \in Times}

\* Lines whose start is later than some of their ends, as of an order given twice or of a
\* client whose clock is ahead, or with an end that no other is near to.
Odd(t, x, y, z) == [placed |-> t, ends |-> <<x, y, z>>]
OddLine ==
    {Odd(t, x, y, z) : t \in {3, 4}, x \in {0, 2}, y \in {2, 3, 5}, z \in {3, 6}}
    \cup {Odd(20, 1, 20, 20), Odd(24, 1, 24, 24), Odd(24, 24, 25, 60), Odd(2, 30, 3, 4)}
LateLine == {Passing(3, 0, 0, 3), Passing(20, 1, 1, 3)}

Empty == [r \in ReplicaSet |-> Absent]
QuietRun(orders, client) ==
    [orders |-> orders, client |-> client, cluster |-> Empty, changes |-> 0, breaks |-> 0]

QuietRuns ==
    {QuietRun(<<>>, <<>>)}
    \cup {QuietRun(<<l>>, <<0>>) : l \in FirstLine \cup OddLine}
    \cup {QuietRun(<<l, m>>, <<0, 1, 2>>) : l \in FirstLine, m \in OtherLine}
    \cup {QuietRun(<<l, m>>, <<0, 1>>) : l \in OddLine, m \in OddLine \cup LateLine}

ScalingRuns ==
    {[orders |-> <<Passing(1, 0, 1, 3)>>, client |-> <<1>>,
      cluster |-> [Empty EXCEPT ![a] = [desired |-> 1, ready |-> 0]],
      changes |-> 2, breaks |-> 1]}

AllRuns == QuietRuns \cup ScalingRuns
================================================================================
