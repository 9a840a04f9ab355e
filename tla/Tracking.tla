-------------------------------- MODULE Tracking --------------------------------
(***************************************************************************)
(* What the generators src/cli/genorders.py and genburst.py share, to the  *)
(* letter: the requests handed to a pool of processes, and the tracking    *)
(* thread, which takes the results off the pendingRequests queue, counts   *)
(* those that are ready, puts the others back and prints a line of the     *)
(* three counters each second.  The sending thread, whose plan is the      *)
(* module LoadGenerator's, shares the queue, the counters and `running`    *)
(* with it and alone writes `running`: its own tests of it never fail, and *)
(* its early returns, which nothing can reach, are left out.  Each counter *)
(* is read and incremented at one instant, which the module Counter shows. *)
(***************************************************************************)
EXTENDS Integers, Sequences, FiniteSets

CONSTANT MayInterrupt   \* whether the user may press Ctrl + C

ASSUME InterruptAssumption == MayInterrupt \in BOOLEAN

VARIABLES
    left,             \* the requests left at the sender's rate
    spc,              \* what the sender does next
    results,          \* the results of apply_async, in order: not ready, or the answer
    pendingRequests,  \* the queue of the results to read
    running,          \* FALSE once the sender has ended
    tpc,              \* what the tracker does next
    num,              \* how many results it still looks at
    waiting,          \* the ones it puts back
    sent, recv, succ, \* the counters
    errors,           \* history: the results whose get() raised an exception
    interrupted,      \* history: whether Ctrl + C was pressed
    late              \* history: the requests made since

tracker == <<tpc, num, waiting, recv, succ, errors>>
user == <<interrupted, late>>
threads == <<left, spc, results, pendingRequests, running, sent, tracker, user>>

Answer == {"ok", "bad", "error"}
Requests == DOMAIN results

ThreadsTypeOK ==
    /\ left \in Nat
    /\ spc \in {"loop", "put", "inc", "done"}
    /\ results \in Seq(Answer \cup {"pending"})
    /\ pendingRequests \in Seq(Requests) /\ waiting \in Seq(Requests)
    /\ running \in BOOLEAN
    /\ tpc \in {"test", "take", "put", "print", "done"} /\ num \in Nat
    /\ {sent, recv, succ, errors, late} \subseteq Nat
    /\ interrupted \in BOOLEAN

ThreadsInit ==
    /\ left = 0 /\ spc = "loop"
    /\ results = <<>> /\ pendingRequests = <<>>
    /\ running = TRUE
    /\ tpc = "test" /\ num = 0 /\ waiting = <<>>
    /\ sent = 0 /\ recv = 0 /\ succ = 0 /\ errors = 0
    /\ interrupted = FALSE /\ late = 0

--------------------------------------------------------------------------------
(* The sender: a request.                                                  *)

\* pool.apply_async
Apply ==
    /\ spc = "loop" /\ left > 0
    /\ results' = Append(results, "pending")
    /\ left' = left - 1
    /\ spc' = "put"
    /\ late' = IF interrupted THEN late + 1 ELSE late
    /\ UNCHANGED <<pendingRequests, running, sent, tracker, interrupted>>

\* pendingRequests.put(res), before it is counted
Put ==
    /\ spc = "put"
    /\ pendingRequests' = Append(pendingRequests, Len(results))
    /\ spc' = "inc"
    /\ UNCHANGED <<left, results, running, sent, tracker, user>>

\* sentRequests.inc(), and the thread sleeps; its test of `running` does not fail
Inc ==
    /\ spc = "inc"
    /\ sent' = sent + 1
    /\ spc' = "loop"
    /\ UNCHANGED <<left, results, pendingRequests, running, tracker, user>>

StillRunning == UNCHANGED running
NotRunning == running' = FALSE

\* running = False, when the plan has been followed to its end
EndSender ==
    /\ spc = "loop" /\ left = 0
    /\ NotRunning
    /\ spc' = "done"
    /\ UNCHANGED <<left, results, pendingRequests, sent, tracker, user>>

Request == Apply \/ Put \/ Inc

--------------------------------------------------------------------------------
(* The tracker.                                                            *)

\* while running: as many results as the queue holds now
Test ==
    /\ tpc = "test"
    /\ IF running THEN tpc' = "take" /\ num' = Len(pendingRequests)
                  ELSE tpc' = "done" /\ UNCHANGED num
    /\ UNCHANGED <<left, spc, results, pendingRequests, running, waiting, sent, recv, succ,
                   errors, user>>

\* get_nowait, and ready
Take(answers) ==
    /\ tpc = "take" /\ num > 0
    /\ results[Head(pendingRequests)] \in answers
    /\ pendingRequests' = Tail(pendingRequests)
    /\ num' = num - 1
    /\ UNCHANGED <<left, spc, results, running, tpc, sent, user>>

\* recvRequests.inc(), and succRequests.inc() when the status is 200
TakeAnswer ==
    /\ Take({"ok", "bad"})
    /\ recv' = recv + 1
    /\ succ' = IF results[Head(pendingRequests)] = "ok" THEN succ + 1 ELSE succ
    /\ UNCHANGED <<waiting, errors>>

\* get() raises what the request raised: printed, and the result is dropped
TakeError ==
    /\ Take({"error"})
    /\ errors' = errors + 1
    /\ UNCHANGED <<waiting, recv, succ>>

TakeUnread ==
    /\ Take({"pending"})
    /\ waiting' = Append(waiting, Head(pendingRequests))
    /\ recv' = recv + 1
    /\ UNCHANGED <<succ, errors>>

TakeWaiting ==
    /\ Take({"pending"})
    /\ waiting' = Append(waiting, Head(pendingRequests))
    /\ UNCHANGED <<recv, succ, errors>>

EndTake ==
    /\ tpc = "take" /\ num = 0
    /\ tpc' = "put"
    /\ UNCHANGED <<left, spc, results, pendingRequests, running, num, waiting, sent, recv,
                   succ, errors, user>>

Dropped == UNCHANGED pendingRequests
PutBack == pendingRequests' = Append(pendingRequests, Head(waiting))

\* for res in waiting: the queue takes it again, behind what the sender put there
PutWaiting ==
    /\ tpc = "put" /\ waiting # <<>>
    /\ PutBack
    /\ waiting' = Tail(waiting)
    /\ UNCHANGED <<left, spc, results, running, tpc, num, sent, recv, succ, errors, user>>

EndPut ==
    /\ tpc = "put" /\ waiting = <<>>
    /\ tpc' = "print"
    /\ UNCHANGED <<left, spc, results, pendingRequests, running, num, waiting, sent, recv,
                   succ, errors, user>>

\* What is printed: recv and succ are the tracker's own.
PrintedLine == [sent |-> sent, recv |-> recv, succ |-> succ]

\* The line is printed, and the thread sleeps.
PrintLine ==
    /\ tpc = "print"
    /\ tpc' = "test"
    /\ UNCHANGED <<left, spc, results, pendingRequests, running, num, waiting, sent, recv,
                   succ, errors, user>>

Tracker ==
    \/ Test \/ TakeAnswer \/ TakeError \/ TakeWaiting \/ EndTake \/ PutWaiting \/ EndPut
    \/ PrintLine

--------------------------------------------------------------------------------
(* Others.                                                                 *)

\* A process of the pool has posted the request, or its exception is brought back.
Respond(i, answer) ==
    /\ results[i] = "pending"
    /\ results' = [results EXCEPT ![i] = answer]
    /\ UNCHANGED <<left, spc, pendingRequests, running, sent, tracker, user>>

\* Ctrl + C: the main thread leaves its join with an exception; the two threads are none
\* of its daemons and go on.
Interrupt ==
    /\ MayInterrupt
    /\ ~interrupted
    /\ interrupted' = TRUE
    /\ UNCHANGED <<left, spc, results, pendingRequests, running, sent, tracker, late>>

Others ==
    \/ \E i \in Requests, answer \in Answer : Respond(i, answer)
    \/ Interrupt

--------------------------------------------------------------------------------
(* Properties.                                                             *)

Elements(s) == {s[k] : k \in DOMAIN s}
InHand == IF spc = "put" THEN 1 ELSE 0

\* Every request made is in the sender's hand, on the queue, among those the tracker will
\* put back, or was read once: none is lost or read twice while both threads move it.
EveryRequestIsSomewhere ==
    LET held == pendingRequests \o waiting
    IN  /\ Len(results) = InHand + Len(held) + recv + errors
        /\ Cardinality(Elements(held)) = Len(held)

\* A printed line makes sense although the sender goes on while it is composed: no more
\* succeeded than were received, and no more received than sent, but for the one that
\* was put on the queue and not yet counted.
LineIsConsistent ==
    tpc = "print" =>
        /\ PrintedLine.succ <= PrintedLine.recv
        /\ PrintedLine.recv <= PrintedLine.sent + 1
================================================================================
