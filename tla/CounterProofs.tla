----------------------------- MODULE CounterProofs -----------------------------
(***************************************************************************)
(* The load generators' Counter is an atomic counter, for any number of    *)
(* readers.  The invariant says that the lock keeps the readers apart, and *)
(* that the counter is never behind the reads that have advanced it.       *)
(***************************************************************************)
EXTENDS Counter, TLAPS

\* A reader inside value() holds the lock: no two are inside.
Exclusive == \A r \in Reader : pc[r] # "out" => lock = r

\* The reads made are among the advances of the counter, the one under way too.
ReadsAreAdvances ==
    /\ numberOfRead <= counter
    /\ \A r \in Reader : pc[r] = "subtract" => numberOfRead <= value[r] /\ value[r] < counter
    /\ \A r \in Reader : pc[r] = "bump" => numberOfRead < counter

Inv == TypeOK /\ Exclusive /\ ReadsAreAdvances

LEMMA InitInv == Init => Inv
BY DEF Init, Inv, TypeOK, Exclusive, ReadsAreAdvances

LEMMA NextInv == Inv /\ [Next]_vars => Inv'
<1> SUFFICES ASSUME Inv, [Next]_vars PROVE Inv'
  OBVIOUS
<1> USE ReaderAssumption, BoundAssumption DEF Inv, TypeOK, Exclusive, ReadsAreAdvances
<1>1. CASE Inc
  BY <1>1 DEF Inc
<1>2. ASSUME NEW r \in Reader, Acquire(r) PROVE Inv'
  BY <1>2 DEF Acquire, Free, Goto
<1>3. ASSUME NEW r \in Reader, Advance(r) PROVE Inv'
  BY <1>3 DEF Advance, Goto
<1>4. ASSUME NEW r \in Reader, Subtract(r) PROVE Inv'
  BY <1>4 DEF Subtract, ReadsBefore, Goto
<1>5. ASSUME NEW r \in Reader, Bump(r) PROVE Inv'
  BY <1>5 DEF Bump, Goto
<1>6. ASSUME NEW r \in Reader, Release(r) PROVE Inv'
  BY <1>6 DEF Release, Goto
<1>7. CASE UNCHANGED vars
  BY <1>7 DEF vars
<1> QED
  BY <1>1, <1>2, <1>3, <1>4, <1>5, <1>6, <1>7 DEF Next, Step

LEMMA SpecInv == Spec => []Inv
<1>1. Init => Inv
  BY InitInv
<1>2. Inv /\ [Next]_vars => Inv'
  BY NextInv
<1> QED
  BY <1>1, <1>2, PTL DEF Spec

\* The counter, the reads and the readers keep their types: value() never returns a
\* negative number, however inc() and other readers interleave with it.
THEOREM CounterTypeCorrect == Spec => []TypeOK
<1>1. Inv => TypeOK
  BY DEF Inv
<1> QED
  BY <1>1, SpecInv, PTL

--------------------------------------------------------------------------------
(* The refinement.  While a reader is inside value() nobody else is, so    *)
(* that Ahead is that reader or nobody.                                    *)

LEMMA AheadIsHolder ==
    ASSUME Inv, NEW r \in Reader, pc[r] # "out"
    PROVE  Ahead = IF pc[r] \in {"subtract", "bump"} THEN {r} ELSE {}
BY ReaderAssumption DEF Inv, Exclusive, Ahead

LEMMA InitIsAtomic == Init => Atomic!Init
<1> SUFFICES ASSUME Init PROVE Count = 0 /\ Result = [r \in Reader |-> 0]
  BY DEF Atomic!Init
<1>1. Ahead = {}
  BY DEF Init, Ahead
<1>2. Count = 0
  BY <1>1 DEF Init, Count
<1>3. \A r \in Reader : pc[r] # "subtract" /\ value[r] = 0
  BY DEF Init
<1>4. Result = [r \in Reader |-> 0]
  BY <1>3 DEF Result
<1> QED
  BY <1>2, <1>4

LEMMA NextIsAtomic ==
    Inv /\ Inv' /\ [Next]_vars => [Atomic!Next]_<<Count, Result>>
<1> SUFFICES ASSUME Inv, Inv', [Next]_vars
             PROVE  Atomic!Next \/ (Count' = Count /\ Result' = Result)
  OBVIOUS
<1> USE DEF Inv, TypeOK
<1>1. CASE Inc
  <2>1. Ahead' = Ahead
    BY <1>1 DEF Inc, Ahead
  <2>2. Count' = Count + 1 /\ Result' = Result
    BY <1>1, <2>1 DEF Inc, Count, Result
  <2> QED
    BY <2>2 DEF Atomic!Next, Atomic!Inc
<1>2. ASSUME NEW r \in Reader, Acquire(r) PROVE Count' = Count /\ Result' = Result
  <2>1. Ahead' = Ahead
    BY <1>2 DEF Acquire, Goto, Ahead
  <2>2. Result' = Result
    BY <1>2 DEF Acquire, Goto, Result
  <2> QED
    BY <1>2, <2>1, <2>2 DEF Acquire, Count
<1>3. ASSUME NEW r \in Reader, Advance(r) PROVE Atomic!Next
  <2>1. pc[r] = "next" /\ pc' = [pc EXCEPT ![r] = "subtract"]
        /\ counter' = counter + 1 /\ value' = [value EXCEPT ![r] = counter]
        /\ UNCHANGED numberOfRead
    BY <1>3 DEF Advance, Goto
  <2>2. pc[r] # "out" /\ pc'[r] = "subtract"
    BY <2>1
  <2>3. Ahead = {} /\ Ahead' = {r}
    <3>1. Ahead = {}
      BY <2>1, AheadIsHolder
    <3>2. Ahead' = {s \in Reader : pc'[s] \in {"subtract", "bump"}}
      BY DEF Ahead
    <3> QED
      BY <2>1, <3>1, <3>2 DEF Ahead
  <2>4. Count' = Count /\ Count = counter - numberOfRead
    BY <2>1, <2>3 DEF Count
  <2>5. Result' = [Result EXCEPT ![r] = Count]
    BY <2>1, <2>4 DEF Result
  <2> QED
    BY <2>4, <2>5 DEF Atomic!Next, Atomic!Value
<1>4. ASSUME NEW r \in Reader, Subtract(r) PROVE Count' = Count /\ Result' = Result
  <2>1. Ahead' = Ahead
    BY <1>4 DEF Subtract, Goto, Ahead
  <2>2. Result' = Result
    BY <1>4 DEF Subtract, ReadsBefore, Goto, Result
  <2> QED
    BY <1>4, <2>1, <2>2 DEF Subtract, Count
<1>5. ASSUME NEW r \in Reader, Bump(r) PROVE Count' = Count /\ Result' = Result
  <2>1. pc[r] = "bump" /\ pc' = [pc EXCEPT ![r] = "release"]
        /\ numberOfRead' = numberOfRead + 1 /\ UNCHANGED <<counter, value>>
    BY <1>5 DEF Bump, Goto
  <2>2. Ahead = {r} /\ Ahead' = {}
    <3>1. Ahead = {r}
      BY <2>1, AheadIsHolder
    <3>2. Ahead' = {s \in Reader : pc'[s] \in {"subtract", "bump"}}
      BY DEF Ahead
    <3> QED
      BY <2>1, <3>1, <3>2 DEF Ahead
  <2>3. \A s \in Reader : pc[s] # "subtract" /\ pc'[s] # "subtract"
    BY <2>1, <2>2 DEF Ahead
  <2>4. Result' = Result
    BY <2>1, <2>3 DEF Result
  <2> QED
    BY <2>1, <2>2, <2>4 DEF Count
<1>6. ASSUME NEW r \in Reader, Release(r) PROVE Count' = Count /\ Result' = Result
  <2>1. Ahead' = Ahead
    BY <1>6 DEF Release, Goto, Ahead
  <2>2. Result' = Result
    BY <1>6 DEF Release, Goto, Result
  <2> QED
    BY <1>6, <2>1, <2>2 DEF Release, Count
<1>7. CASE UNCHANGED vars
  BY <1>7 DEF vars, Count, Result, Ahead
<1> QED
  BY <1>1, <1>2, <1>3, <1>4, <1>5, <1>6, <1>7 DEF Next, Step

\* inc() and value() of the Counter are atomic, for any number of threads: every behaviour
\* of the code's steps is one of AtomicCounter.
THEOREM CounterIsAtomic == Spec => ImplementsAtomicCounter
<1>1. Init => Atomic!Init
  BY InitIsAtomic
<1>2. Inv /\ Inv' /\ [Next]_vars => [Atomic!Next]_<<Count, Result>>
  BY NextIsAtomic
<1> QED
  BY <1>1, <1>2, SpecInv, PTL DEF Spec, ImplementsAtomicCounter, Atomic!Spec
================================================================================
