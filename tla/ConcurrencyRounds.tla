--------------------------- MODULE ConcurrencyRounds ---------------------------
(***************************************************************************)
(* The generator src/cli/genconcurrency.py, which measures how long a      *)
(* number of concurrent requests takes.  The sender thread hands the       *)
(* requests of a round to a pool of processes at once, polls their results *)
(* until all are there, records the round and starts the next, with `step` *)
(* more requests.  It warms the pool up with requests whose results it     *)
(* drops; the 20 seconds it then sleeps promise nothing of them, so that   *)
(* they may be on their way in any round.  A result that is an exception   *)
(* is raised in the sender and ends it.                                    *)
(***************************************************************************)
EXTENDS Integers, Sequences, FiniteSets

CONSTANTS
    Args,      \* the arguments the generator may be started with
    Warmup     \* the requests of the warm-up: 10 in the code

\* int() of what the user types; Pool needs a process.
ASSUME ArgsAssumption ==
    Args \subseteq [parallelism : Nat \ {0}, srate : Int, erate : Int, step : Int]
ASSUME WarmupAssumption == Warmup \in Nat

VARIABLES
    args,        \* the arguments
    spc,         \* what the sender does next
    rate,        \* the rate of the round
    left,        \* the requests it still has to make in the round
    responses,   \* the results it looks at in this pass over them
    remain_res,  \* those of the pass that were not ready
    success,     \* the answers of the round with status 200
    rounds,      \* the rounds recorded: rates, and the successes printed
    pool,        \* the requests made, in order: where each is, or its answer
    madeIn       \* history: the round each was made in, 0 for the warm-up

sender == <<spc, rate, left, responses, remain_res, success, rounds>>
vars == <<args, sender, pool, madeIn>>

Answer == {"ok", "bad", "error"}
Requests == DOMAIN pool
Ready(i) == pool[i] \in Answer

\* python genconcurrency.py [parallelism] [srate] [erate] [step]
Init ==
    /\ args \in Args
    /\ spc = "warmup" /\ rate = args.srate /\ left = Warmup
    /\ responses = <<>> /\ remain_res = <<>> /\ success = 0 /\ rounds = <<>>
    /\ pool = <<>> /\ madeIn = <<>>

--------------------------------------------------------------------------------
(* The sender.                                                             *)

\* pool.apply_async
Apply(round) ==
    /\ left > 0
    /\ left' = left - 1
    /\ pool' = Append(pool, "queued")
    /\ madeIn' = Append(madeIn, round)

Warm ==
    /\ spc = "warmup"
    /\ Apply(0)
    /\ UNCHANGED <<spc, rate, responses, remain_res, success, rounds>>

\* time.sleep(20)
EndWarmup ==
    /\ spc = "warmup" /\ left = 0
    /\ spc' = "round"
    /\ UNCHANGED <<rate, left, responses, remain_res, success, rounds, pool, madeIn>>

\* range(srate, erate, step) goes up or down; without a step it raises an exception.
NoRange ==
    /\ spc = "round" /\ args.step = 0
    /\ spc' = "dead"
    /\ UNCHANGED <<rate, left, responses, remain_res, success, rounds, pool, madeIn>>

InRange(r) == IF args.step > 0 THEN r < args.erate ELSE r > args.erate

\* range(rate) is empty when the rate is negative.
Made(r) == IF r < 0 THEN 0 ELSE r

StartRound ==
    /\ spc = "round" /\ args.step # 0 /\ InRange(rate)
    /\ spc' = "send" /\ left' = Made(rate)
    /\ success' = 0 /\ responses' = <<>> /\ remain_res' = <<>>
    /\ UNCHANGED <<rate, rounds, pool, madeIn>>

Send ==
    /\ spc = "send"
    /\ Apply(Len(rounds) + 1)
    /\ responses' = Append(responses, Len(pool'))
    /\ UNCHANGED <<spc, rate, remain_res, success, rounds>>

EndSend ==
    /\ spc = "send" /\ left = 0
    /\ spc' = "poll"
    /\ UNCHANGED <<rate, left, responses, remain_res, success, rounds, pool, madeIn>>

\* res.ready(), and the answer of res.get()
PollAnswer ==
    /\ spc = "poll" /\ responses # <<>>
    /\ pool[Head(responses)] \in {"ok", "bad"}
    /\ success' = IF pool[Head(responses)] = "ok" THEN success + 1 ELSE success
    /\ responses' = Tail(responses)
    /\ UNCHANGED <<spc, rate, left, remain_res, rounds, pool, madeIn>>

\* res.get() raises the exception of the request: nobody catches it
PollError ==
    /\ spc = "poll" /\ responses # <<>>
    /\ pool[Head(responses)] = "error"
    /\ spc' = "dead"
    /\ UNCHANGED <<rate, left, responses, remain_res, success, rounds, pool, madeIn>>

PollUnanswered ==
    /\ spc = "poll" /\ responses # <<>>
    /\ ~Ready(Head(responses))
    /\ responses' = Tail(responses)
    /\ remain_res' = Append(remain_res, Head(responses))
    /\ UNCHANGED <<spc, rate, left, success, rounds, pool, madeIn>>

\* What the next pass looks at: those that were not ready in this one.
AllOfRound == SelectSeq([i \in Requests |-> i], LAMBDA i : madeIn[i] = Len(rounds) + 1)
Remaining == remain_res

NextPass ==
    /\ spc = "poll" /\ responses = <<>> /\ remain_res # <<>>
    /\ responses' = Remaining
    /\ remain_res' = <<>>
    /\ UNCHANGED <<spc, rate, left, success, rounds, pool, madeIn>>

OneMayRemain == Len(remain_res) <= 1
OneRemains == Len(remain_res) = 1
NoneRemains == Len(remain_res) = 0

\* The round is recorded, and the next begins.
Record ==
    /\ spc = "poll" /\ responses = <<>> /\ NoneRemains
    /\ rounds' = Append(rounds, [rate |-> rate, success |-> success])
    /\ spc' = "round" /\ rate' = rate + args.step
    /\ UNCHANGED <<left, responses, remain_res, success, pool, madeIn>>

\* The local `running` changes nothing: the main thread joins the sender.
EndSender ==
    /\ spc = "round" /\ args.step # 0 /\ ~InRange(rate)
    /\ spc' = "done"
    /\ UNCHANGED <<rate, left, responses, remain_res, success, rounds, pool, madeIn>>

Sender ==
    /\ \/ Warm \/ EndWarmup \/ NoRange \/ StartRound \/ Send \/ EndSend
       \/ PollAnswer \/ PollError \/ PollUnanswered \/ NextPass \/ Record \/ EndSender
    /\ UNCHANGED args

--------------------------------------------------------------------------------
(* The pool: its processes take the requests in order, each posts one.     *)

Busy == {i \in Requests : pool[i] = "sent"}

Post(i) ==
    /\ pool[i] = "queued"
    /\ \A j \in 1 .. i - 1 : pool[j] # "queued"
    /\ Cardinality(Busy) < args.parallelism
    /\ pool' = [pool EXCEPT ![i] = "sent"]
    /\ UNCHANGED <<args, sender, madeIn>>

\* requests.post returns or raises; it has no timeout.
Respond(i, answer) ==
    /\ pool[i] = "sent"
    /\ pool' = [pool EXCEPT ![i] = answer]
    /\ UNCHANGED <<args, sender, madeIn>>

Next ==
    \/ Sender
    \/ \E i \in Requests : Post(i) \/ \E answer \in Answer : Respond(i, answer)

Spec == Init /\ [][Next]_vars

\* The sender is scheduled, and so are the processes of the pool, as long as one is idle;
\* a request may never be answered.
FairSpec == Spec /\ WF_vars(Sender) /\ WF_vars(\E i \in Requests : Post(i))

--------------------------------------------------------------------------------
(* Properties.                                                             *)

Round(n) == {i \in Requests : madeIn[i] = n}

\* A recorded round is one of range(srate, erate, step), in order, and its line is right:
\* as many requests as its rate, none of which failed, and its successes counted once each
\* although the results are polled many times: a failure ends the generator before its
\* round is recorded.  When the sender is done no round is missing.
RecordIsExact ==
    /\ \A n \in DOMAIN rounds :
        /\ rounds[n].rate = args.srate + (n - 1) * args.step
        /\ Cardinality(Round(n)) = Made(rounds[n].rate)
        /\ \A i \in Round(n) : pool[i] \in {"ok", "bad"}
        /\ rounds[n].success = Cardinality({i \in Round(n) : pool[i] = "ok"})
    /\ spc = "done" => ~InRange(args.srate + Len(rounds) * args.step)

\* The rounds do not overlap: a request on its way is one of the present round or of the
\* warm-up, so that a round measures its own concurrency.
RoundsDoNotOverlap ==
    \A i \in Requests : ~Ready(i) => madeIn[i] \in {0, Len(rounds) + 1}

\* The sender comes to an end, unless a request is never answered: no other wait of its
\* polling loop lasts for ever.
EndsUnlessUnanswered ==
    \/ <>(spc \in {"done", "dead"})
    \/ <>[](\E i \in Requests : pool[i] = "sent")
================================================================================
