------------------------ MODULE ConcurrencyRoundsProofs ------------------------
(***************************************************************************)
(* Each round that genconcurrency.py records is exact, and no round        *)
(* overlaps with another, for any number of requests and processes.  The   *)
(* argument: the results still to look at in a round are all different,    *)
(* they are of the round, and every other request of it has been answered  *)
(* and its success counted.                                                *)
(***************************************************************************)
EXTENDS ConcurrencyRounds, TLAPS, FiniteSetTheorems

Elements(s) == {s[k] : k \in DOMAIN s}

\* No element is twice in one of the two sequences, or in both.
Once(s) == \A k, l \in DOMAIN s : s[k] = s[l] => k = l
Apart(s, t) == Once(s) /\ Once(t) /\ Elements(s) \cap Elements(t) = {}

\* The round the sender is in, and the successes among some requests.
Present == Len(rounds) + 1
Successes(S) == {i \in S : pool[i] = "ok"}

Types ==
    /\ args \in Args
    /\ spc \in {"warmup", "round", "send", "poll", "dead", "done"}
    /\ rate \in Int /\ left \in Nat /\ success \in Nat
    /\ responses \in Seq(Requests) /\ remain_res \in Seq(Requests)
    /\ rounds \in Seq([rate : Int, success : Nat])
    /\ pool \in Seq({"queued", "sent"} \cup Answer)
    /\ madeIn \in Seq(Nat) /\ Len(madeIn) = Len(pool)

\* The rates differ by the step, and end beyond the last one asked for.
Rates ==
    /\ rate = args.srate + Len(rounds) * args.step
    /\ \A n \in DOMAIN rounds : rounds[n].rate = args.srate + (n - 1) * args.step
    /\ spc = "done" => ~InRange(rate)

\* No request is of a later round; between two rounds none is of the next.
MadeInTurn ==
    \A i \in Requests :
        /\ madeIn[i] <= Present
        /\ spc \in {"warmup", "round"} => madeIn[i] < Present

\* A recorded round has its requests, all of them answered, and its successes.
Exact(n) ==
    /\ Cardinality(Round(n)) = Made(rounds[n].rate)
    /\ \A i \in Round(n) : pool[i] \in {"ok", "bad"}
    /\ rounds[n].success = Cardinality(Successes(Round(n)))
RecordedAreExact == \A n \in DOMAIN rounds : Exact(n)

\* The present round: the results still to look at, and the others.
Outstanding == Elements(responses) \cup Elements(remain_res)
Seen == Round(Present) \ Outstanding
PresentIsExact ==
    spc \in {"send", "poll"} =>
        /\ Apart(responses, remain_res)
        /\ Outstanding \subseteq Round(Present)
        /\ \A i \in Seen : pool[i] \in {"ok", "bad"}
        /\ success = Cardinality(Successes(Seen))
        /\ Cardinality(Round(Present)) + left = Made(rate)
        /\ spc = "poll" => left = 0

Inv == Types /\ Rates /\ MadeInTurn /\ RecordedAreExact /\ PresentIsExact

--------------------------------------------------------------------------------
(* Sequences of different results.                                         *)

LEMMA OfTail ==
    ASSUME NEW S, NEW s \in Seq(S), s # <<>>
    PROVE  /\ Tail(s) \in Seq(S) /\ Head(s) \in S
           /\ Elements(s) = Elements(Tail(s)) \cup {Head(s)}
           /\ Once(s) => Once(Tail(s)) /\ Head(s) \notin Elements(Tail(s))
<1>1. /\ Tail(s) \in Seq(S) /\ Head(s) \in S
      /\ DOMAIN Tail(s) = 1..(Len(s) - 1) /\ DOMAIN s = 1..Len(s) /\ Len(s) \in Nat \ {0}
      /\ Head(s) = s[1] /\ \A k \in DOMAIN Tail(s) : Tail(s)[k] = s[k + 1]
  OBVIOUS
<1>2. /\ 1 \in DOMAIN s /\ \A k \in DOMAIN Tail(s) : k + 1 \in DOMAIN s /\ k + 1 # 1
      /\ \A k \in DOMAIN s : k = 1 \/ (k - 1 \in DOMAIN Tail(s) /\ (k - 1) + 1 = k)
      /\ \A k, l \in DOMAIN Tail(s) : k + 1 = l + 1 => k = l
  BY <1>1
<1>3. ASSUME NEW x \in Elements(s) PROVE x \in Elements(Tail(s)) \cup {Head(s)}
  <2>1. PICK k \in DOMAIN s : x = s[k]
    BY DEF Elements
  <2>2. CASE k = 1
    BY <1>1, <2>1, <2>2
  <2>3. CASE k - 1 \in DOMAIN Tail(s) /\ (k - 1) + 1 = k
    BY <1>1, <2>1, <2>3 DEF Elements
  <2> QED
    BY <1>2, <2>2, <2>3
<1>4. ASSUME NEW x \in Elements(Tail(s)) \cup {Head(s)} PROVE x \in Elements(s)
  BY <1>1, <1>2, <1>4 DEF Elements
<1>5. ASSUME Once(s) PROVE Once(Tail(s)) /\ Head(s) \notin Elements(Tail(s))
  BY <1>1, <1>2, <1>5 DEF Once, Elements
<1> QED
  BY <1>1, <1>3, <1>4, <1>5

LEMMA OfAppend ==
    ASSUME NEW S, NEW s \in Seq(S), NEW x \in S
    PROVE  /\ Append(s, x) \in Seq(S)
           /\ Elements(Append(s, x)) = Elements(s) \cup {x}
           /\ Once(s) /\ x \notin Elements(s) => Once(Append(s, x))
<1>1. /\ Append(s, x) \in Seq(S) /\ Len(s) \in Nat
      /\ DOMAIN s = 1..Len(s) /\ DOMAIN Append(s, x) = 1..(Len(s) + 1)
      /\ Append(s, x)[Len(s) + 1] = x /\ \A k \in DOMAIN s : Append(s, x)[k] = s[k]
  OBVIOUS
<1>2. /\ Len(s) + 1 \in DOMAIN Append(s, x) /\ DOMAIN s \subseteq DOMAIN Append(s, x)
      /\ \A k \in DOMAIN Append(s, x) : k \in DOMAIN s \/ k = Len(s) + 1
  BY <1>1
<1>3. Elements(Append(s, x)) = Elements(s) \cup {x}
  BY <1>1, <1>2 DEF Elements
<1>4. ASSUME Once(s), x \notin Elements(s) PROVE Once(Append(s, x))
  BY <1>1, <1>2, <1>4 DEF Once, Elements
<1> QED
  BY <1>1, <1>3, <1>4

LEMMA OfNone == Elements(<<>>) = {} /\ Once(<<>>)
BY DEF Elements, Once

--------------------------------------------------------------------------------
(* What the types say, and what a request more changes.                    *)

LEMMA Numbers ==
    ASSUME Types
    PROVE  /\ Len(pool) \in Nat /\ Requests = 1..Len(pool) /\ DOMAIN madeIn = Requests
           /\ Len(rounds) \in Nat /\ DOMAIN rounds = 1..Len(rounds) /\ Present \in Nat \ {0}
           /\ \A i \in Requests : madeIn[i] \in Nat
           /\ args.parallelism \in Nat /\ args.srate \in Int /\ args.erate \in Int
           /\ args.step \in Int
<1>1. /\ Len(pool) \in Nat /\ Requests = 1..Len(pool)
  <2>1. pool \in Seq({"queued", "sent"} \cup Answer)
    BY DEF Types
  <2> QED
    BY <2>1 DEF Requests
<1>2. DOMAIN madeIn = Requests /\ \A i \in Requests : madeIn[i] \in Nat
  <2>1. madeIn \in Seq(Nat) /\ Len(madeIn) = Len(pool)
    BY DEF Types
  <2>2. DOMAIN madeIn = 1..Len(madeIn) /\ \A i \in DOMAIN madeIn : madeIn[i] \in Nat
    BY <2>1
  <2> QED
    BY <1>1, <2>1, <2>2
<1>3. Len(rounds) \in Nat /\ DOMAIN rounds = 1..Len(rounds) /\ Present \in Nat \ {0}
  <2>1. rounds \in Seq([rate : Int, success : Nat])
    BY DEF Types
  <2> QED
    BY <2>1 DEF Present
<1>4. args \in Args
  BY DEF Types
<1> QED
  BY <1>1, <1>2, <1>3, <1>4, ArgsAssumption

LEMMA RoundsAreFinite ==
    ASSUME Types, NEW S \in SUBSET Requests
    PROVE  IsFiniteSet(S) /\ Cardinality(S) \in Nat
<1>1. IsFiniteSet(Requests)
  BY Numbers, FS_Interval
<1>2. IsFiniteSet(S)
  BY <1>1, FS_Subset
<1> QED
  BY <1>2, FS_CardinalityType

LEMMA ApplyStep ==
    ASSUME Types, NEW round \in Nat, Apply(round)
    PROVE  LET new == Len(pool) + 1
           IN  /\ Requests' = Requests \cup {new} /\ new \notin Requests /\ new \in Nat
               /\ Len(pool') = new
               /\ \A i \in Requests : pool'[i] = pool[i] /\ madeIn'[i] = madeIn[i]
               /\ pool'[new] = "queued" /\ madeIn'[new] = round
               /\ \A n : Round(n)' = IF n = round THEN Round(n) \cup {new} ELSE Round(n)
               /\ pool' \in Seq({"queued", "sent"} \cup Answer)
               /\ madeIn' \in Seq(Nat) /\ Len(madeIn') = Len(pool')
               /\ left > 0 /\ left' = left - 1 /\ left' \in Nat
<1> DEFINE new == Len(pool) + 1
<1>1. /\ pool' \in Seq({"queued", "sent"} \cup Answer) /\ Len(pool') = new
      /\ pool'[new] = "queued" /\ \A i \in 1..Len(pool) : pool'[i] = pool[i]
  <2>1. pool \in Seq({"queued", "sent"} \cup Answer) /\ pool' = Append(pool, "queued")
    BY DEF Types, Apply
  <2> QED
    BY <2>1
<1>2. /\ madeIn' \in Seq(Nat) /\ Len(madeIn') = Len(madeIn) + 1 /\ madeIn'[Len(madeIn) + 1] = round
      /\ \A i \in 1..Len(madeIn) : madeIn'[i] = madeIn[i]
  <2>1. madeIn \in Seq(Nat) /\ madeIn' = Append(madeIn, round)
    BY DEF Types, Apply
  <2> QED
    BY <2>1
<1>3. /\ Len(pool) \in Nat /\ Requests = 1..Len(pool) /\ Len(madeIn) = Len(pool)
  BY Numbers DEF Types
<1>4. Requests' = 1..Len(pool')
  BY <1>1 DEF Requests
<1>5. Requests' = Requests \cup {new} /\ new \notin Requests /\ new \in Nat
  <2>1. 1..(Len(pool) + 1) = 1..Len(pool) \cup {Len(pool) + 1} /\ Len(pool) + 1 \notin 1..Len(pool)
    BY <1>3
  <2> QED
    BY <1>1, <1>3, <1>4, <2>1
<1>6. /\ \A i \in Requests : pool'[i] = pool[i] /\ madeIn'[i] = madeIn[i]
      /\ madeIn'[new] = round /\ Len(madeIn') = Len(pool')
  BY <1>1, <1>2, <1>3
<1> HIDE DEF new
<1>7. ASSUME NEW n PROVE Round(n)' = IF n = round THEN Round(n) \cup {new} ELSE Round(n)
  <2>1. Round(n)' = {i \in Requests' : madeIn'[i] = n}
    BY DEF Round
  <2> QED
    BY <1>5, <1>6, <2>1 DEF Round
<1>8. left > 0 /\ left' = left - 1 /\ left' \in Nat
  BY DEF Apply, Types
<1> QED
  BY <1>1, <1>2, <1>5, <1>6, <1>7, <1>8 DEF new

\* A round that keeps its requests and its answers is as exact as it was.
LEMMA ExactStays ==
    ASSUME RecordedAreExact, rounds' = rounds,
           \A n \in DOMAIN rounds : Round(n)' = Round(n),
           \A n \in DOMAIN rounds : \A i \in Round(n) : pool'[i] = pool[i]
    PROVE  RecordedAreExact'
<1> SUFFICES ASSUME NEW n \in DOMAIN rounds PROVE Exact(n)'
  BY DEF RecordedAreExact
<1>1. Exact(n) /\ Round(n)' = Round(n) /\ \A i \in Round(n) : pool'[i] = pool[i]
  BY DEF RecordedAreExact
<1>2. Successes(Round(n))' = Successes(Round(n))
  BY <1>1 DEF Successes
<1> QED
  BY <1>1, <1>2 DEF Exact

\* The steps of the sender that make no request leave the recorded rounds as they are.
LEMMA ExactUnchanged ==
    ASSUME RecordedAreExact, UNCHANGED <<rounds, pool, madeIn>>
    PROVE  RecordedAreExact'
<1>1. \A n : Round(n)' = Round(n)
  BY DEF Round, Requests
<1> QED
  BY <1>1, ExactStays

--------------------------------------------------------------------------------
(* The steps that make a request.                                          *)

LEMMA ManyRequests ==
    ASSUME NEW S, NEW T, S \subseteq T, NEW s \in Seq(S)
    PROVE  s \in Seq(T)
OBVIOUS

LEMMA WarmInv == Inv /\ Warm /\ UNCHANGED args => Inv'
<1> SUFFICES ASSUME Inv, Warm, UNCHANGED args PROVE Inv'
  OBVIOUS
<1> DEFINE new == Len(pool) + 1
<1>1. /\ Requests' = Requests \cup {new} /\ new \notin Requests /\ new \in Nat
      /\ \A i \in Requests : pool'[i] = pool[i] /\ madeIn'[i] = madeIn[i]
      /\ madeIn'[new] = 0
      /\ \A n : Round(n)' = IF n = 0 THEN Round(n) \cup {new} ELSE Round(n)
      /\ pool' \in Seq({"queued", "sent"} \cup Answer)
      /\ madeIn' \in Seq(Nat) /\ Len(madeIn') = Len(pool') /\ left' \in Nat
  BY ApplyStep DEF Inv, Warm
<1> HIDE DEF new
<1>2. /\ spc = "warmup" /\ UNCHANGED <<args, spc, rate, responses, remain_res, success, rounds>>
      /\ Present' = Present
  BY DEF Warm, Present
<1>3. Types'
  <2>1. responses' \in Seq(Requests') /\ remain_res' \in Seq(Requests')
    BY <1>1, <1>2, ManyRequests DEF Inv, Types
  <2> QED
    BY <1>1, <1>2, <2>1 DEF Inv, Types
<1>4. Rates'
  BY <1>2 DEF Inv, Rates
<1>5. MadeInTurn'
  <2>1. Present \in Nat \ {0}
    BY Numbers DEF Inv
  <2> QED
    BY <1>1, <1>2, <2>1 DEF Inv, MadeInTurn
<1>6. RecordedAreExact'
  <2>1. \A n \in DOMAIN rounds : n # 0
    BY Numbers DEF Inv
  <2>2. \A n \in DOMAIN rounds : Round(n)' = Round(n)
    BY <1>1, <2>1
  <2>3. \A n \in DOMAIN rounds : \A i \in Round(n) : pool'[i] = pool[i]
    BY <1>1 DEF Round
  <2> QED
    BY <1>2, <2>2, <2>3, ExactStays DEF Inv
<1>7. PresentIsExact'
  BY <1>2 DEF PresentIsExact
<1> QED
  BY <1>3, <1>4, <1>5, <1>6, <1>7 DEF Inv

LEMMA SendInv == Inv /\ Send /\ UNCHANGED args => Inv'
<1> SUFFICES ASSUME Inv, Send, UNCHANGED args PROVE Inv'
  OBVIOUS
<1> DEFINE new == Len(pool) + 1
<1>1. Present \in Nat \ {0} /\ Len(pool) \in Nat /\ Len(rounds) \in Nat /\ DOMAIN rounds = 1..Len(rounds)
  BY Numbers DEF Inv
<1>2. Apply(Present)
  BY DEF Send, Present
<1>3. /\ Requests' = Requests \cup {new} /\ new \notin Requests /\ new \in Nat
      /\ Len(pool') = new
      /\ \A i \in Requests : pool'[i] = pool[i] /\ madeIn'[i] = madeIn[i]
      /\ madeIn'[new] = Present
      /\ \A n : Round(n)' = IF n = Present THEN Round(n) \cup {new} ELSE Round(n)
      /\ pool' \in Seq({"queued", "sent"} \cup Answer)
      /\ madeIn' \in Seq(Nat) /\ Len(madeIn') = Len(pool')
      /\ left > 0 /\ left' = left - 1 /\ left' \in Nat
  BY <1>1, <1>2, ApplyStep DEF Inv
<1> HIDE DEF new
<1>4. /\ spc = "send" /\ spc' = "send"
      /\ UNCHANGED <<args, rate, remain_res, success, rounds>> /\ Present' = Present
      /\ responses' = Append(responses, new)
  BY <1>3 DEF Send, Present
<1>5. /\ responses \in Seq(Requests) /\ remain_res \in Seq(Requests)
      /\ responses \in Seq(Requests') /\ remain_res \in Seq(Requests') /\ new \in Requests'
  BY <1>3, ManyRequests DEF Inv, Types
<1>6. /\ responses' \in Seq(Requests')
      /\ Elements(responses') = Elements(responses) \cup {new}
      /\ Once(responses) /\ new \notin Elements(responses) => Once(responses')
  BY <1>4, <1>5, OfAppend
<1>7. Types'
  BY <1>3, <1>4, <1>5, <1>6 DEF Inv, Types
<1>8. Rates'
  BY <1>4 DEF Inv, Rates
<1>9. MadeInTurn'
  <2>1. \A i \in Requests : madeIn[i] <= Present
    BY DEF Inv, MadeInTurn
  <2>2. Present <= Present
    BY <1>1
  <2> QED
    BY <1>3, <1>4, <2>1, <2>2 DEF MadeInTurn
<1>10. RecordedAreExact'
  <2>1. \A n \in DOMAIN rounds : n # Present
    BY <1>1 DEF Present
  <2>2. \A n \in DOMAIN rounds : Round(n)' = Round(n)
    BY <1>3, <2>1
  <2>3. \A n \in DOMAIN rounds : \A i \in Round(n) : pool'[i] = pool[i]
    BY <1>3 DEF Round
  <2> QED
    BY <1>4, <2>2, <2>3, ExactStays DEF Inv
<1>11. PresentIsExact'
  <2> DEFINE R == Round(Present)
  <2>1. /\ Apart(responses, remain_res) /\ Outstanding \subseteq R
        /\ \A i \in Seen : pool[i] \in {"ok", "bad"}
        /\ success = Cardinality(Successes(Seen))
        /\ Cardinality(R) + left = Made(rate)
    BY <1>4 DEF Inv, PresentIsExact
  <2>2. Round(Present)' = R \cup {new} /\ R \subseteq Requests
    BY <1>3, <1>4 DEF Round
  <2>3. new \notin R /\ new \notin Elements(responses) /\ new \notin Elements(remain_res)
    BY <1>3, <2>1, <2>2 DEF Outstanding
  <2>4. Outstanding' = Outstanding \cup {new}
    BY <1>4, <1>6 DEF Outstanding
  <2>5. Seen' = Seen
    BY <2>2, <2>3, <2>4 DEF Seen
  <2>6. \A i \in Seen : pool'[i] = pool[i]
    BY <1>3, <2>2 DEF Seen
  <2>7. Successes(Seen)' = Successes(Seen)
    BY <2>5, <2>6 DEF Successes
  <2>8. Apart(responses, remain_res)'
    BY <1>4, <1>6, <2>1, <2>3 DEF Apart
  <2>9. Cardinality(R \cup {new}) = Cardinality(R) + 1 /\ Cardinality(R) \in Nat
    <3>1. IsFiniteSet(R) /\ Cardinality(R) \in Nat
      BY <2>2, RoundsAreFinite DEF Inv
    <3> HIDE DEF R
    <3> QED
      BY <2>3, <3>1, FS_AddElement
  <2>10. Cardinality(Round(Present)') + left' = Made(rate')
    <3>1. left \in Nat
      BY DEF Inv, Types
    <3> DEFINE c == Cardinality(R)
    <3>2. /\ Cardinality(Round(Present)') = c + 1 /\ c \in Nat
          /\ c + left = Made(rate) /\ Made(rate) \in Nat
      <4>1. rate \in Int
        BY DEF Inv, Types
      <4> QED
        BY <2>1, <2>2, <2>9, <4>1 DEF Made
    <3>3. rate' = rate
      BY <1>4
    <3> HIDE DEF c
    <3> QED
      BY <1>3, <1>4, <3>1, <3>2, <3>3
  <2>11. Outstanding' \subseteq Round(Present)'
    BY <2>1, <2>2, <2>4
  <2>12. \A i \in Seen' : pool'[i] \in {"ok", "bad"}
    BY <2>1, <2>5, <2>6
  <2>13. success' = Cardinality(Successes(Seen)')
    BY <1>4, <2>1, <2>7
  <2> QED
    BY <1>4, <2>8, <2>10, <2>11, <2>12, <2>13 DEF PresentIsExact
<1> QED
  BY <1>7, <1>8, <1>9, <1>10, <1>11 DEF Inv

--------------------------------------------------------------------------------
(* The steps between two rounds.                                           *)

LEMMA OneMoreStep ==
    ASSUME NEW d \in Int, NEW k \in Nat
    PROVE  k * d \in Int /\ (k + 1) * d = k * d + d
OBVIOUS

\* The types, when no request is made.
LEMMA TypesStay ==
    ASSUME Types, UNCHANGED <<args, pool, madeIn>>,
           spc' \in {"warmup", "round", "send", "poll", "dead", "done"},
           rate' \in Int, left' \in Nat, success' \in Nat,
           responses' \in Seq(Requests), remain_res' \in Seq(Requests),
           rounds' \in Seq([rate : Int, success : Nat])
    PROVE  Types'
BY DEF Types, Requests

\* The rounds recorded, when no request is made and no round is recorded.
LEMMA RecordsStay ==
    ASSUME Inv, UNCHANGED <<args, rate, rounds, pool, madeIn>>,
           spc' \in {"warmup", "round"} => spc \in {"warmup", "round"},
           spc' = "done" => ~InRange(rate)
    PROVE  Rates' /\ MadeInTurn' /\ RecordedAreExact'
<1>1. Rates'
  BY DEF Inv, Rates, InRange
<1>2. MadeInTurn'
  BY DEF Inv, MadeInTurn, Requests, Present
<1>3. RecordedAreExact'
  BY ExactUnchanged DEF Inv
<1> QED
  BY <1>1, <1>2, <1>3

LEMMA StartRoundInv == Inv /\ StartRound /\ UNCHANGED args => Inv'
<1> SUFFICES ASSUME Inv, StartRound, UNCHANGED args PROVE Inv'
  OBVIOUS
<1>1. /\ spc = "round" /\ spc' = "send" /\ left' = Made(rate) /\ success' = 0
      /\ responses' = <<>> /\ remain_res' = <<>>
      /\ UNCHANGED <<args, rate, rounds, pool, madeIn>>
  BY DEF StartRound
<1>2. Types'
  <2>1. <<>> \in Seq(Requests)
    OBVIOUS
  <2>2. rate \in Int /\ rounds \in Seq([rate : Int, success : Nat]) /\ Types
    BY DEF Inv, Types
  <2>3. Made(rate) \in Nat
    BY <2>2 DEF Made
  <2> QED
    BY <1>1, <2>1, <2>2, <2>3, TypesStay
<1>3. Rates' /\ MadeInTurn' /\ RecordedAreExact'
  BY <1>1, RecordsStay
<1>4. PresentIsExact'
  <2>1. Round(Present)' = {}
    <3>1. \A i \in Requests : madeIn[i] < Present /\ madeIn[i] \in Nat /\ Present \in Nat
      BY <1>1, Numbers DEF Inv, MadeInTurn
    <3>2. \A i \in Requests : madeIn[i] # Present
      BY <3>1
    <3>3. Round(Present)' = Round(Present)
      BY <1>1 DEF Round, Requests, Present
    <3> QED
      BY <3>2, <3>3 DEF Round
  <2>2. Outstanding' = {} /\ Apart(responses, remain_res)'
    BY <1>1, OfNone DEF Outstanding, Apart
  <2>3. Seen' = {} /\ Successes(Seen)' = {}
    BY <2>1 DEF Seen, Successes
  <2>4. Cardinality(Round(Present)') = 0 /\ Cardinality(Successes(Seen)') = 0
    BY <2>1, <2>3, FS_EmptySet
  <2>5. Made(rate) \in Nat /\ Made(rate') = Made(rate)
    <3>1. rate \in Int
      BY DEF Inv, Types
    <3> QED
      BY <1>1, <3>1 DEF Made
  <2> QED
    BY <1>1, <2>1, <2>2, <2>3, <2>4, <2>5 DEF PresentIsExact
<1> QED
  BY <1>2, <1>3, <1>4 DEF Inv

\* The round is recorded: no result is left to look at.
LEMMA RecordInv == Inv /\ Record /\ UNCHANGED args => Inv'
<1> SUFFICES ASSUME Inv, Record, UNCHANGED args PROVE Inv'
  OBVIOUS
<1> DEFINE n == Len(rounds)
           r == [rate |-> rate, success |-> success]
<1>1. /\ spc = "poll" /\ responses = <<>> /\ Len(remain_res) = 0
      /\ rounds' = Append(rounds, r) /\ spc' = "round" /\ rate' = rate + args.step
      /\ UNCHANGED <<args, left, responses, remain_res, success, pool, madeIn>>
  BY DEF Record, NoneRemains
<1>2. /\ Types /\ rate \in Int /\ left \in Nat /\ success \in Nat
      /\ responses \in Seq(Requests) /\ remain_res \in Seq(Requests)
      /\ rounds \in Seq([rate : Int, success : Nat]) /\ r \in [rate : Int, success : Nat]
  BY DEF Inv, Types
<1>3. /\ rounds' \in Seq([rate : Int, success : Nat])
      /\ Len(rounds') = n + 1 /\ n \in Nat /\ DOMAIN rounds = 1..n /\ DOMAIN rounds' = 1..(n + 1)
      /\ rounds'[n + 1] = r /\ \A k \in 1..n : rounds'[k] = rounds[k]
  <2> HIDE DEF r
  <2> QED
    BY <1>1, <1>2
<1>4. args.step \in Int /\ args.srate \in Int
  BY Numbers DEF Inv
<1>5. Types'
  BY <1>1, <1>2, <1>3, <1>4, TypesStay
<1>6. Rates'
  <2> DEFINE steps(k) == k * args.step
  <2>1. \A k \in Nat : steps(k) \in Int /\ steps(k + 1) = steps(k) + args.step
    BY <1>4, OneMoreStep
  <2>2. rate = args.srate + steps(n) /\ \A k \in 1..n : rounds[k].rate = args.srate + steps(k - 1)
    BY <1>3 DEF Inv, Rates
  <2> HIDE DEF steps, n
  <2>3. rate' = args.srate + steps(n + 1)
    <3>1. rate' = rate + args.step
      BY <1>1
    <3>2. steps(n) \in Int /\ steps(n + 1) = steps(n) + args.step
      BY <1>3, <2>1
    <3> QED
      BY <1>4, <2>2, <3>1, <3>2
  <2>4. ASSUME NEW k \in 1..(n + 1) PROVE rounds'[k].rate = args.srate + steps(k - 1)
    <3>1. CASE k = n + 1
      <4>1. k - 1 = n
        BY <3>1, <1>3
      <4> QED
        BY <3>1, <4>1, <1>3, <2>2
    <3>2. CASE k \in 1..n
      BY <3>2, <1>3, <2>2
    <3> QED
      BY <3>1, <3>2, <1>3
  <2> USE DEF n
  <2>5. rate' = args.srate + (n + 1) * args.step
    BY <2>3 DEF steps
  <2>6. \A k \in 1..(n + 1) : rounds'[k].rate = args.srate + (k - 1) * args.step
    BY <2>4 DEF steps
  <2> HIDE DEF n
  <2> QED
    BY <1>1, <1>3, <2>5, <2>6 DEF Rates
<1>7. MadeInTurn'
  <2>1. \A i \in Requests : madeIn[i] \in Nat /\ madeIn[i] <= Present
    BY Numbers DEF Inv, MadeInTurn
  <2>2. Present = n + 1 /\ Present' = (n + 1) + 1 /\ Requests' = Requests
    BY <1>1, <1>3 DEF Present, Requests
  <2>3. ASSUME NEW i \in Requests PROVE madeIn[i] <= (n + 1) + 1 /\ madeIn[i] < (n + 1) + 1
    <3>1. madeIn[i] \in Nat /\ madeIn[i] <= n + 1
      BY <2>1, <2>2
    <3> HIDE DEF n
    <3> QED
      BY <1>3, <3>1
  <2> QED
    BY <1>1, <2>2, <2>3 DEF MadeInTurn
<1>8. RecordedAreExact'
  <2>1. \A k : Round(k)' = Round(k)
    BY <1>1 DEF Round, Requests
  <2>2. \A k : Successes(Round(k))' = Successes(Round(k))
    BY <1>1, <2>1 DEF Successes
  <2>3. ASSUME NEW k \in 1..n PROVE Exact(k)'
    <3>1. Exact(k) /\ rounds'[k] = rounds[k]
      BY <1>3, <2>3 DEF Inv, RecordedAreExact
    <3> QED
      BY <1>1, <2>1, <2>2, <3>1 DEF Exact
  <2>4. ASSUME NEW k \in 1..(n + 1), k = n + 1 PROVE Exact(k)'
    <3>1. Seen = Round(k)
      <4>1. remain_res = <<>>
        BY <1>1, <1>2
      <4> QED
        BY <1>1, <2>4, <4>1, OfNone DEF Seen, Outstanding, Present
    <3>2. /\ \A i \in Round(k) : pool[i] \in {"ok", "bad"}
          /\ success = Cardinality(Successes(Round(k)))
          /\ Cardinality(Round(k)) + left = Made(rate) /\ left = 0
      <4>1. Present = k
        BY <2>4 DEF Present
      <4> QED
        BY <1>1, <3>1, <4>1 DEF Inv, PresentIsExact
    <3>3. Cardinality(Round(k)) = Made(rate)
      <4>1. Round(k) \in SUBSET Requests
        BY DEF Round
      <4>2. Cardinality(Round(k)) \in Nat
        BY <1>2, <4>1, RoundsAreFinite
      <4> QED
        BY <3>2, <4>2
    <3>4. rounds'[k].rate = rate /\ rounds'[k].success = success
      BY <1>3, <2>4
    <3>5. \A i \in Round(k) : pool'[i] \in {"ok", "bad"}
      BY <1>1, <3>2
    <3> HIDE DEF n, r
    <3> QED
      BY <2>1, <2>2, <3>2, <3>3, <3>4, <3>5 DEF Exact
  <2>5. \A k \in 1..(n + 1) : k \in 1..n \/ k = n + 1
    <3> HIDE DEF n
    <3> QED
      BY <1>3
  <2> HIDE DEF n, r
  <2> QED
    BY <1>3, <2>3, <2>4, <2>5 DEF RecordedAreExact
<1>9. PresentIsExact'
  BY <1>1 DEF PresentIsExact
<1> QED
  BY <1>5, <1>6, <1>7, <1>8, <1>9 DEF Inv

\* The other ends: of the warm-up, of the sending, of the sender.
LEMMA EndsInv ==
    ASSUME Inv, EndWarmup \/ EndSend \/ EndSender \/ NoRange \/ PollError, UNCHANGED args
    PROVE  Inv'
<1>1. /\ spc' \in {"round", "poll", "done", "dead"}
      /\ spc' = "round" => spc = "warmup"
      /\ spc' = "poll" => spc = "send" /\ left = 0
      /\ spc' = "done" => ~InRange(rate)
      /\ UNCHANGED <<args, rate, left, responses, remain_res, success, rounds, pool, madeIn>>
  BY DEF EndWarmup, EndSend, EndSender, NoRange, PollError
<1>2. Types'
  BY <1>1, TypesStay DEF Inv, Types
<1>3. Rates' /\ MadeInTurn' /\ RecordedAreExact'
  BY <1>1, RecordsStay
<1>4. PresentIsExact'
  <2>1. /\ Outstanding' = Outstanding /\ Round(Present)' = Round(Present) /\ Seen' = Seen
        /\ Successes(Seen)' = Successes(Seen)
    BY <1>1 DEF Outstanding, Round, Requests, Present, Seen, Successes
  <2> QED
    BY <1>1, <2>1 DEF Inv, PresentIsExact, Apart, Once, Elements
<1> QED
  BY <1>2, <1>3, <1>4 DEF Inv

--------------------------------------------------------------------------------
(* The polling of the results.                                             *)

\* What is not looked at any more is seen: its answer was right or wrong, and counted.
LEMMA PollAnswerInv == Inv /\ PollAnswer /\ UNCHANGED args => Inv'
<1> SUFFICES ASSUME Inv, PollAnswer, UNCHANGED args PROVE Inv'
  OBVIOUS
<1> DEFINE h == Head(responses)
<1>1. /\ spc = "poll" /\ spc' = "poll" /\ responses # <<>> /\ pool[h] \in {"ok", "bad"}
      /\ success' = IF pool[h] = "ok" THEN success + 1 ELSE success
      /\ responses' = Tail(responses)
      /\ UNCHANGED <<args, rate, left, remain_res, rounds, pool, madeIn>>
  BY DEF PollAnswer
<1>2. /\ Types /\ rate \in Int /\ left \in Nat /\ success \in Nat
      /\ responses \in Seq(Requests) /\ remain_res \in Seq(Requests)
      /\ rounds \in Seq([rate : Int, success : Nat])
  BY DEF Inv, Types
<1>3. /\ Apart(responses, remain_res) /\ Outstanding \subseteq Round(Present)
      /\ \A i \in Seen : pool[i] \in {"ok", "bad"}
      /\ success = Cardinality(Successes(Seen))
      /\ Cardinality(Round(Present)) + left = Made(rate) /\ left = 0
  BY <1>1 DEF Inv, PresentIsExact
<1>4. /\ responses' \in Seq(Requests) /\ h \in Requests
      /\ Elements(responses) = Elements(responses') \cup {h}
      /\ Once(responses') /\ h \notin Elements(responses')
  BY <1>1, <1>2, <1>3, OfTail DEF Apart
<1> HIDE DEF h
<1>5. Types'
  <2>1. success' \in Nat
    BY <1>1, <1>2
  <2> QED
    BY <1>1, <1>2, <1>4, <2>1, TypesStay
<1>6. Rates' /\ MadeInTurn' /\ RecordedAreExact'
  BY <1>1, RecordsStay
<1>7. h \notin Elements(remain_res) /\ h \in Round(Present)
  BY <1>3, <1>4 DEF Apart, Outstanding
<1>8. Round(Present)' = Round(Present) /\ Outstanding' = Outstanding \ {h}
  BY <1>1, <1>4, <1>7 DEF Round, Requests, Present, Outstanding
<1>9. Seen' = Seen \cup {h} /\ h \notin Seen
  BY <1>4, <1>7, <1>8 DEF Seen, Outstanding
<1>10. success' = Cardinality(Successes(Seen)')
  <2>1. Successes(Seen) \in SUBSET Requests
    BY DEF Successes, Seen, Round
  <2>2. IsFiniteSet(Successes(Seen))
    BY <1>2, <2>1, RoundsAreFinite
  <2>3. CASE pool[h] = "ok"
    <3>1. Successes(Seen)' = Successes(Seen) \cup {h} /\ h \notin Successes(Seen)
      BY <1>1, <1>9, <2>3 DEF Successes
    <3> QED
      BY <1>1, <1>3, <2>2, <2>3, <3>1, FS_AddElement
  <2>4. CASE pool[h] # "ok"
    <3>1. Successes(Seen)' = Successes(Seen)
      BY <1>1, <1>9, <2>4 DEF Successes
    <3> QED
      BY <1>1, <1>3, <2>4, <3>1
  <2> QED
    BY <2>3, <2>4
<1>11. PresentIsExact'
  <2>1. Apart(responses, remain_res)'
    BY <1>1, <1>3, <1>4 DEF Apart
  <2>2. Outstanding' \subseteq Round(Present)'
    BY <1>3, <1>8
  <2>3. \A i \in Seen' : pool'[i] \in {"ok", "bad"}
    BY <1>1, <1>3, <1>9
  <2>4. Cardinality(Round(Present)') + left' = Made(rate') /\ left' = 0
    BY <1>1, <1>3, <1>8
  <2> QED
    BY <1>1, <1>10, <2>1, <2>2, <2>3, <2>4 DEF PresentIsExact
<1> QED
  BY <1>5, <1>6, <1>11 DEF Inv

\* What is looked at again is neither lost nor doubled.
LEMMA PollAgainInv ==
    ASSUME Inv, PollUnanswered \/ NextPass, UNCHANGED args
    PROVE  Inv'
<1>1. /\ spc = "poll" /\ spc' = "poll"
      /\ UNCHANGED <<args, rate, left, success, rounds, pool, madeIn>>
  BY DEF PollUnanswered, NextPass
<1>2. /\ Types /\ rate \in Int /\ left \in Nat /\ success \in Nat
      /\ responses \in Seq(Requests) /\ remain_res \in Seq(Requests)
      /\ rounds \in Seq([rate : Int, success : Nat])
  BY DEF Inv, Types
<1>3. /\ Apart(responses, remain_res) /\ Outstanding \subseteq Round(Present)
      /\ \A i \in Seen : pool[i] \in {"ok", "bad"}
      /\ success = Cardinality(Successes(Seen))
      /\ Cardinality(Round(Present)) + left = Made(rate) /\ left = 0
  BY <1>1 DEF Inv, PresentIsExact
<1>4. /\ responses' \in Seq(Requests) /\ remain_res' \in Seq(Requests)
      /\ Outstanding' = Outstanding /\ Apart(responses, remain_res)'
  <2>1. CASE PollUnanswered
    <3> DEFINE h == Head(responses)
    <3>1. responses # <<>> /\ responses' = Tail(responses) /\ remain_res' = Append(remain_res, h)
      BY <2>1 DEF PollUnanswered
    <3>2. /\ responses' \in Seq(Requests) /\ h \in Requests
          /\ Elements(responses) = Elements(responses') \cup {h}
          /\ Once(responses') /\ h \notin Elements(responses')
      BY <1>2, <1>3, <3>1, OfTail DEF Apart
    <3> HIDE DEF h
    <3>3. h \notin Elements(remain_res)
      BY <1>3, <3>2 DEF Apart
    <3>4. /\ remain_res' \in Seq(Requests) /\ Elements(remain_res') = Elements(remain_res) \cup {h}
          /\ Once(remain_res')
      BY <1>2, <1>3, <3>1, <3>2, <3>3, OfAppend DEF Apart
    <3> QED
      BY <1>3, <3>2, <3>4 DEF Apart, Outstanding
  <2>2. CASE NextPass
    <3>1. responses = <<>> /\ responses' = remain_res /\ remain_res' = <<>>
      BY <2>2 DEF NextPass, Remaining
    <3> QED
      BY <1>2, <1>3, <3>1, OfNone DEF Apart, Outstanding
  <2> QED
    BY <2>1, <2>2
<1>5. Types'
  BY <1>1, <1>2, <1>4, TypesStay
<1>6. Rates' /\ MadeInTurn' /\ RecordedAreExact'
  BY <1>1, RecordsStay
<1>7. PresentIsExact'
  <2>1. Round(Present)' = Round(Present) /\ Seen' = Seen
    BY <1>1, <1>4 DEF Round, Requests, Present, Seen
  <2>2. Successes(Seen)' = Successes(Seen)
    BY <1>1, <2>1 DEF Successes
  <2> QED
    BY <1>1, <1>3, <1>4, <2>1, <2>2 DEF PresentIsExact
<1> QED
  BY <1>5, <1>6, <1>7 DEF Inv

--------------------------------------------------------------------------------
(* The pool.                                                               *)

\* A process works on a request not answered yet: no round counts it so far.
LEMMA PoolInv ==
    ASSUME Inv, NEW i \in Requests, NEW v \in {"sent"} \cup Answer,
           pool[i] \in {"queued", "sent"}, pool' = [pool EXCEPT ![i] = v],
           UNCHANGED <<args, sender, madeIn>>
    PROVE  Inv'
<1>1. UNCHANGED <<args, spc, rate, left, responses, remain_res, success, rounds, madeIn>>
  BY DEF sender
<1>2. /\ pool' \in Seq({"queued", "sent"} \cup Answer) /\ Len(pool') = Len(pool)
      /\ Requests' = Requests /\ \A j \in Requests \ {i} : pool'[j] = pool[j]
  <2>1. pool \in Seq({"queued", "sent"} \cup Answer)
    BY DEF Inv, Types
  <2> QED
    BY <2>1 DEF Requests
<1>3. Types'
  BY <1>1, <1>2 DEF Inv, Types
<1>4. Rates' /\ MadeInTurn'
  BY <1>1, <1>2 DEF Inv, Rates, InRange, MadeInTurn, Present
<1>5. \A n : Round(n)' = Round(n)
  BY <1>1, <1>2 DEF Round
<1>6. RecordedAreExact'
  <2>1. \A n \in DOMAIN rounds : i \notin Round(n)
    BY DEF Inv, RecordedAreExact, Exact
  <2>2. \A n \in DOMAIN rounds : \A j \in Round(n) : pool'[j] = pool[j]
    BY <1>2, <2>1 DEF Round
  <2> QED
    BY <1>1, <1>5, <2>2, ExactStays DEF Inv
<1>7. PresentIsExact'
  <2> SUFFICES ASSUME spc \in {"send", "poll"} PROVE PresentIsExact'
    BY <1>1 DEF PresentIsExact
  <2>1. /\ Apart(responses, remain_res) /\ Outstanding \subseteq Round(Present)
        /\ \A j \in Seen : pool[j] \in {"ok", "bad"}
        /\ success = Cardinality(Successes(Seen))
        /\ Cardinality(Round(Present)) + left = Made(rate)
        /\ spc = "poll" => left = 0
    BY DEF Inv, PresentIsExact
  <2>2. Outstanding' = Outstanding /\ Round(Present)' = Round(Present) /\ Seen' = Seen
    BY <1>1, <1>5 DEF Outstanding, Present, Seen
  <2>3. \A j \in Seen : pool'[j] = pool[j]
    BY <1>2, <2>1 DEF Seen, Round
  <2>4. Successes(Seen)' = Successes(Seen)
    BY <2>2, <2>3 DEF Successes
  <2>5. Apart(responses, remain_res)'
    BY <1>1, <2>1 DEF Apart, Once, Elements
  <2>6. \A j \in Seen' : pool'[j] \in {"ok", "bad"}
    BY <2>1, <2>2, <2>3
  <2> QED
    BY <1>1, <2>1, <2>2, <2>4, <2>5, <2>6 DEF PresentIsExact
<1> QED
  BY <1>3, <1>4, <1>6, <1>7 DEF Inv

--------------------------------------------------------------------------------
(* The invariant and the theorems.                                         *)

LEMMA InitInv == Init => Inv
<1> SUFFICES ASSUME Init PROVE Inv
  OBVIOUS
<1>1. /\ args \in Args /\ args.srate \in Int /\ args.step \in Int
      /\ spc = "warmup" /\ rate = args.srate /\ left = Warmup /\ Warmup \in Nat
      /\ responses = <<>> /\ remain_res = <<>> /\ success = 0 /\ rounds = <<>>
      /\ pool = <<>> /\ madeIn = <<>>
  BY ArgsAssumption, WarmupAssumption DEF Init
<1>2. Types
  <2>1. \A S : <<>> \in Seq(S)
    OBVIOUS
  <2>2. Len(madeIn) = Len(pool)
    BY <1>1
  <2> QED
    BY <1>1, <2>1, <2>2 DEF Types
<1>3. Rates
  <2>1. Len(rounds) = 0 /\ DOMAIN rounds = {}
    BY <1>1
  <2>2. 0 * args.step = 0
    BY <1>1
  <2> QED
    BY <1>1, <2>1, <2>2 DEF Rates
<1>4. MadeInTurn /\ RecordedAreExact /\ PresentIsExact
  BY <1>1 DEF MadeInTurn, RecordedAreExact, PresentIsExact, Requests
<1> QED
  BY <1>2, <1>3, <1>4 DEF Inv

LEMMA NextInv == Inv /\ [Next]_vars => Inv'
<1> SUFFICES ASSUME Inv, [Next]_vars PROVE Inv'
  OBVIOUS
<1>1. CASE Sender
  BY <1>1, WarmInv, SendInv, StartRoundInv, RecordInv, EndsInv, PollAnswerInv, PollAgainInv
     DEF Sender
<1>2. ASSUME NEW i \in Requests, Post(i) PROVE Inv'
  BY <1>2, PoolInv DEF Post
<1>3. ASSUME NEW i \in Requests, NEW answer \in Answer, Respond(i, answer) PROVE Inv'
  BY <1>3, PoolInv DEF Respond
<1>4. CASE UNCHANGED vars
  <2>1. UNCHANGED <<args, spc, rate, left, responses, remain_res, success, rounds, pool, madeIn>>
    BY <1>4 DEF vars, sender
  <2>2. Types'
    BY <2>1, TypesStay DEF Inv, Types
  <2>3. Rates' /\ MadeInTurn' /\ RecordedAreExact'
    BY <2>1, RecordsStay DEF Inv, Rates
  <2>4. PresentIsExact'
    BY <2>1 DEF Inv, PresentIsExact, Successes, Round, Requests, Present, Seen, Outstanding,
                Apart, Once, Elements
  <2> QED
    BY <2>2, <2>3, <2>4 DEF Inv
<1> QED
  BY <1>1, <1>2, <1>3, <1>4 DEF Next

LEMMA SpecInv == Spec => []Inv
BY InitInv, NextInv, PTL DEF Spec

\* The line genconcurrency.py records of a round is exact, for any rates, numbers of processes
\* and answers, however often it polls the results, and no round of the range is left out.
THEOREM RoundsAreExact == Spec => []RecordIsExact
<1>1. Inv => RecordIsExact
  BY DEF Inv, Rates, RecordedAreExact, Exact, Successes, RecordIsExact
<1> QED
  BY <1>1, SpecInv, PTL

\* A request on its way is of the present round or of the warm-up: the next round begins
\* when every result of the last was ready.
THEOREM RoundsAreApart == Spec => []RoundsDoNotOverlap
<1>1. Inv => RoundsDoNotOverlap
  <2> SUFFICES ASSUME Inv, NEW i \in Requests, ~Ready(i) PROVE madeIn[i] \in {0, Present}
    BY DEF RoundsDoNotOverlap, Present
  <2>1. /\ madeIn[i] \in Nat /\ madeIn[i] <= Present
        /\ Len(rounds) \in Nat /\ DOMAIN rounds = 1..Len(rounds)
    BY Numbers DEF Inv, MadeInTurn
  <2>2. madeIn[i] \notin DOMAIN rounds
    BY DEF Inv, RecordedAreExact, Exact, Round, Ready, Answer
  <2> QED
    BY <2>1, <2>2 DEF Present
<1> QED
  BY <1>1, SpecInv, PTL
================================================================================
