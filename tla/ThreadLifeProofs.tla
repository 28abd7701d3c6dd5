--------------------------- MODULE ThreadLifeProofs ---------------------------
(***************************************************************************)
(* The counting semaphore is atomic and keeps its count in range, for any  *)
(* number of threads, any initial value and maximum, any counts.           *)
(*                                                                         *)
(* The threads around the semaphore: whatever the semaphore promises it    *)
(* promises them, nothing is used before it is there or after it is gone,  *)
(* and nothing is left when main is done, for any number of threads in any *)
(* order, whoever gives each of them up.                                   *)
(***************************************************************************)
EXTENDS ThreadLife, FiniteSetTheorems, TLAPS

-----------------------------------------------------------------------------
(* The semaphore: the inductive invariant. *)

\* The mutex is held exactly by the thread between lock and unlock.
Exclusion == \A t \in Threads : pc[t] \in Inside <=> owner = t

\* Post never reaches the mutex with a count it should have refused.
Screened ==
    \A t \in Threads :
       /\ pc[t] = "reject" => op[t] = "post" /\ count[t] <= 0
       /\ pc[t] \in {"lock", "woken", "body"} /\ op[t] = "post" => count[t] > 0
       /\ pc[t] \in {"asleep", "woken"} => op[t] = "wait"

InRange == 0 <= value /\ value <= Maximum

IInv == TypeOK /\ Exclusion /\ Screened /\ InRange

\* Constants and what the proofs use of them.
LEMMA ConstantFacts ==
    /\ None \notin Threads /\ Initial \in Int /\ Maximum \in Int
    /\ 0 <= Initial /\ Initial <= Maximum /\ 0 < Maximum
    /\ Counts \subseteq Int /\ 1 \in Counts /\ MaxCalls \in Nat /\ MaxSpurious \in Nat
BY ThreadsAssumption, InitAssumption, CountsAssumption, BoundsAssumption

LEMMA InitKeeps == Init => IInv
BY ConstantFacts DEF Init, IInv, TypeOK, Exclusion, Screened, InRange, Inside

\* Only the steps of Body change the count, and only within its range.
LEMMA BodyStep ==
    ASSUME IInv, NEW t \in Threads, Body(t)
    PROVE  IInv'
<1>0. /\ value \in Int /\ count[t] \in Int /\ Maximum \in Int /\ owner = t /\ pc[t] = "body"
      /\ pc \in [Threads -> {"idle", "lock", "body", "asleep", "woken", "signal", "unlock",
                             "return", "reject"}]
      /\ res \in [Threads -> Int] /\ left \in [Threads -> Nat]
      /\ op[t] = "post" => count[t] > 0
      /\ None \notin Threads
  BY ConstantFacts DEF IInv, TypeOK, Exclusion, Screened, InRange, Inside, Body
<1>1. UNCHANGED <<op, count, calls, spurious>>
  BY DEF Body
<1>2. CASE Take(t) /\ value # 0 /\ UNCHANGED left /\ op[t] # "post"
  <2>1. value' = value - 1 /\ res' = [res EXCEPT ![t] = 1] /\ pc' = [pc EXCEPT ![t] = "unlock"]
        /\ UNCHANGED <<owner, left>>
    BY <1>2 DEF Take, Result, Move
  <2>2. TypeOK' /\ InRange'
    BY <1>0, <1>1, <1>2, <2>1 DEF IInv, TypeOK, InRange
  <2> QED
    BY <1>0, <1>1, <2>1, <2>2 DEF IInv, TypeOK, Exclusion, Screened, Inside
<1>3. CASE Fail(t) /\ UNCHANGED left
  <2>1. res' = [res EXCEPT ![t] = 0] /\ pc' = [pc EXCEPT ![t] = "unlock"]
        /\ UNCHANGED <<value, owner, left>>
    BY <1>3 DEF Fail, Result, Move
  <2>2. TypeOK' /\ InRange'
    BY <1>0, <1>1, <2>1 DEF IInv, TypeOK, InRange
  <2> QED
    BY <1>0, <1>1, <2>1, <2>2 DEF IInv, TypeOK, Exclusion, Screened, Inside
<1>4. CASE op[t] = "wait" /\ Move(t, "asleep") /\ owner' = None /\ UNCHANGED <<value, res, left>>
  BY <1>0, <1>1, <1>4 DEF Move, IInv, TypeOK, Exclusion, Screened, InRange, Inside
<1>5. CASE Post(t) /\ ~(count[t] > Maximum - value)
  <2>1. /\ value' = value + count[t] /\ left' = [left EXCEPT ![t] = count[t]]
        /\ res' = [res EXCEPT ![t] = 1] /\ pc' = [pc EXCEPT ![t] = "signal"] /\ UNCHANGED owner
        /\ op[t] = "post"
    BY <1>5 DEF Post, Added, Result, Move
  <2>2. TypeOK' /\ InRange'
    BY <1>0, <1>1, <1>5, <2>1 DEF IInv, TypeOK, InRange
  <2> QED
    BY <1>0, <1>1, <2>1, <2>2 DEF IInv, TypeOK, Exclusion, Screened, Inside
<1>6. CASE Value(t)
  <2>1. res' = [res EXCEPT ![t] = value] /\ pc' = [pc EXCEPT ![t] = "unlock"]
        /\ UNCHANGED <<value, owner, left>>
    BY <1>6 DEF Value, Result, Move
  <2>2. TypeOK' /\ InRange'
    BY <1>0, <1>1, <2>1 DEF IInv, TypeOK, InRange
  <2> QED
    BY <1>0, <1>1, <2>1, <2>2 DEF IInv, TypeOK, Exclusion, Screened, Inside
<1> QED
  BY <1>2, <1>3, <1>4, <1>5, <1>6 DEF Body, Wait, TryWait, Post, Added

LEMMA NextKeeps ==
    ASSUME IInv, [Next]_vars
    PROVE  IInv'
<1> USE ConstantFacts DEF IInv
<1>1. ASSUME NEW t \in Threads, Call(t) PROVE IInv'
  BY <1>1 DEF Call, Move, TypeOK, Exclusion, Screened, InRange, Inside
<1>2. ASSUME NEW t \in Threads, Reject(t) PROVE IInv'
  BY <1>2 DEF Reject, Result, Move, TypeOK, Exclusion, Screened, InRange, Inside
<1>3. ASSUME NEW t \in Threads, Lock(t) PROVE IInv'
  BY <1>3 DEF Lock, Move, TypeOK, Exclusion, Screened, InRange, Inside
<1>4. ASSUME NEW t \in Threads, Body(t) PROVE IInv'
  BY <1>4, BodyStep
<1>5. ASSUME NEW t \in Threads, Signal(t) PROVE IInv'
  <2>1. CASE At("asleep") = {}
    BY <1>5, <2>1 DEF Signal, TypeOK, Exclusion, Screened, InRange, Inside
  <2>2. ASSUME NEW s \in At("asleep"), Move(s, "woken") PROVE IInv'
    BY <1>5, <2>2 DEF Signal, At, Move, TypeOK, Exclusion, Screened, InRange, Inside
  <2> QED
    BY <1>5, <2>1, <2>2 DEF Signal
<1>6. ASSUME NEW t \in Threads, SignalsSent(t) PROVE IInv'
  BY <1>6 DEF SignalsSent, Move, TypeOK, Exclusion, Screened, InRange, Inside
<1>7. ASSUME NEW t \in Threads, Unlock(t) PROVE IInv'
  BY <1>7 DEF Unlock, Move, TypeOK, Exclusion, Screened, InRange, Inside
<1>8. ASSUME NEW t \in Threads, Return(t) PROVE IInv'
  BY <1>8, ConstantFacts DEF Return, Move, Result, TypeOK, Exclusion, Screened, InRange, Inside
<1>9. ASSUME NEW t \in Threads, SpuriousWakeup(t) PROVE IInv'
  BY <1>9 DEF SpuriousWakeup, Move, TypeOK, Exclusion, Screened, InRange, Inside
<1>10. CASE UNCHANGED vars
  BY <1>10 DEF vars, TypeOK, Exclusion, Screened, InRange, Inside
<1> QED
  BY <1>1, <1>2, <1>3, <1>4, <1>5, <1>6, <1>7, <1>8, <1>9, <1>10 DEF Next, Step, Finished

-----------------------------------------------------------------------------
\* The units handed out never exceed those put in, the count never passes the
\* maximum, and the operations exclude each other, whatever the interleaving.
THEOREM CountAlwaysInRange == Spec => []CountInRange
<1>1. IInv => CountInRange
  BY DEF IInv, Exclusion, InRange, CountInRange
<1> QED
  BY <1>1, InitKeeps, NextKeeps, PTL DEF Spec

\* Every variable keeps its type, Post's signals stay countable.
THEOREM SemaphoreTypes == Spec => []TypeOK
<1>1. IInv => TypeOK
  BY DEF IInv
<1> QED
  BY <1>1, InitKeeps, NextKeeps, PTL DEF Spec

-----------------------------------------------------------------------------
(* No wakeup is lost. *)

\* The threads that will test the count again: woken, or at the loop's test.
Testing == {t \in At("body") : op[t] = "wait"}
Pending == IF owner # None /\ pc[owner] = "signal" THEN left[owner] ELSE 0

\* Sets of threads can be counted, one thread more or less.
LEMMA Counting ==
    ASSUME NEW S \in SUBSET Threads
    PROVE  /\ Cardinality(S) \in Nat
           /\ \A t \in Threads : t \notin S => Cardinality(S \cup {t}) = Cardinality(S) + 1
           /\ \A t \in S : Cardinality(S \ {t}) = Cardinality(S) - 1
<1>1. IsFiniteSet(S)
  BY ThreadsAssumption, FS_Subset
<1> QED
  BY <1>1, FS_CardinalityType, FS_AddElement, FS_RemoveElement

\* A step that takes no unit back, and wakes or keeps every thread that could
\* take one, loses no wakeup.
LEMMA SameCount ==
    ASSUME NoLostWakeup, At("asleep")' # {} => At("asleep") # {},
           UNCHANGED <<value, At("woken"), Testing, Pending>>
    PROVE  NoLostWakeup'
BY DEF NoLostWakeup, Testing, Pending

\* What NoLostWakeup says of the state after a step, in these terms.
LEMMA Enough ==
    ASSUME At("asleep")' # {} =>
              value' <= Cardinality(At("woken")') + Pending' + Cardinality(Testing')
    PROVE  NoLostWakeup'
BY DEF NoLostWakeup, Testing, Pending

LEMMA WakeupsKept ==
    ASSUME IInv, NoLostWakeup, [Next]_vars
    PROVE  NoLostWakeup'
<1>0. /\ value \in Int /\ 0 <= value /\ Pending \in Nat
      /\ At("woken") \in SUBSET Threads /\ Testing \in SUBSET Threads
      /\ Cardinality(At("woken")) \in Nat /\ Cardinality(Testing) \in Nat
  <2>1. At("woken") \in SUBSET Threads /\ Testing \in SUBSET Threads
    BY DEF At, Testing
  <2> QED
    BY <2>1, Counting DEF IInv, TypeOK, InRange, Pending
<1>a. At("asleep") # {} => value <= Cardinality(At("woken")) + Pending + Cardinality(Testing)
  BY DEF NoLostWakeup, Testing, Pending
<1>b. pc \in [Threads -> {"idle", "lock", "body", "asleep", "woken", "signal", "unlock", "return", "reject"}]
  BY DEF IInv, TypeOK
<1>1. ASSUME NEW t \in Threads, Call(t) \/ Reject(t) \/ Return(t) PROVE NoLostWakeup'
  <2>1. /\ pc[t] \in {"idle", "reject", "return"}
        /\ \E l \in {"idle", "lock", "reject", "return"} : pc' = [pc EXCEPT ![t] = l]
        /\ UNCHANGED <<value, owner, left>>
        /\ \A u \in Threads : u # t => op'[u] = op[u]
    BY <1>1 DEF Call, Reject, Return, Move, Result, IInv, TypeOK
  <2>2. UNCHANGED <<At("asleep"), At("woken"), At("body"), At("signal")>>
    BY <2>1, <1>b DEF At
  <2>3. Testing' = Testing
    BY <2>1, <2>2, <1>b DEF Testing, At
  <2>4. Pending' = Pending
    BY <2>1, <1>b DEF Pending, IInv, TypeOK
  <2> QED
    BY <2>1, <2>2, <2>3, <2>4, SameCount
<1>2. ASSUME NEW t \in Threads, Lock(t) PROVE NoLostWakeup'
  <2>1. /\ pc[t] \in {"lock", "woken"} /\ pc' = [pc EXCEPT ![t] = "body"]
        /\ owner = None /\ owner' = t /\ UNCHANGED <<value, left, op>>
    BY <1>2 DEF Lock, Move
  <2>2. At("asleep")' = At("asleep") /\ At("woken")' = At("woken") \ {t} /\ t \notin At("body")
    BY <2>1, <1>b DEF At
  <2>3. Pending = 0 /\ Pending' = 0
    BY <2>1, <1>b DEF Pending
  <2>4. Testing' = IF op[t] = "wait" THEN Testing \cup {t} ELSE Testing
    BY <2>1, <1>b DEF Testing, At
  <2>5. CASE pc[t] = "woken"
    <3>1. t \in At("woken") /\ t \notin Testing /\ op[t] = "wait"
      BY <2>1, <2>2, <2>5 DEF At, Testing, IInv, Screened
    <3>2. Cardinality(At("woken")') = Cardinality(At("woken")) - 1
      BY <1>0, <2>2, <3>1, Counting
    <3>3. Cardinality(Testing') = Cardinality(Testing) + 1
      BY <1>0, <2>4, <3>1, Counting
    <3> QED
      BY <1>0, <1>a, <2>1, <2>2, <2>3, <3>2, <3>3 DEF NoLostWakeup, Testing, Pending
  <2>6. CASE pc[t] = "lock"
    <3>1. At("woken")' = At("woken") /\ t \notin Testing
      BY <2>2, <2>6 DEF At, Testing
    <3>2. Cardinality(Testing') \in Nat /\ Cardinality(Testing') >= Cardinality(Testing)
      BY <1>0, <2>4, <3>1, Counting
    <3> QED
      BY <1>0, <1>a, <2>1, <2>2, <2>3, <3>1, <3>2 DEF NoLostWakeup, Testing, Pending
  <2> QED
    BY <2>1, <2>5, <2>6
<1>3. ASSUME NEW t \in Threads, Body(t) PROVE NoLostWakeup'
  <2>0. /\ pc[t] = "body" /\ owner = t /\ UNCHANGED op /\ Pending = 0 /\ t # None
        /\ t \in Testing <=> op[t] = "wait"
    BY <1>3, ConstantFacts DEF Body, IInv, Exclusion, Inside, Pending, Testing, At
  <2>1. ASSUME NEW l \in {"asleep", "unlock", "signal"}, Move(t, l)
        PROVE  /\ At("woken")' = At("woken") /\ Testing' = Testing \ {t}
               /\ l # "asleep" => At("asleep")' = At("asleep")
    BY <2>0, <2>1, <1>b DEF Move, At, Testing
  <2>2. CASE value = 0 /\ value' = value
    <3>1. Cardinality(At("woken")') \in Nat /\ Cardinality(Testing') \in Nat /\ Pending' \in Nat
      <4>1. IInv'
        BY <1>3, BodyStep
      <4>2. At("woken")' \in SUBSET Threads /\ Testing' \in SUBSET Threads
        BY DEF At, Testing
      <4> QED
        BY <4>1, <4>2, Counting DEF IInv, TypeOK, Pending
    <3> QED
      BY <2>2, <3>1 DEF NoLostWakeup, Testing, Pending
  <2>3. CASE Take(t) /\ op[t] \in {"wait", "trywait"} /\ value # 0
    <3>1. value' = value - 1 /\ Move(t, "unlock") /\ owner' = t
      BY <2>0, <2>3 DEF Take
    <3>2. Pending' = 0
      BY <3>1, <1>b DEF Pending, Move
    <3>3. Cardinality(Testing') \in Nat /\ Cardinality(Testing') >= Cardinality(Testing) - 1
      <4>1. CASE t \in Testing
        BY <1>0, <2>1, <3>1, <4>1, Counting
      <4>2. CASE t \notin Testing
        <5>1. Testing' = Testing
          BY <2>1, <3>1, <4>2
        <5> QED BY <5>1, <1>0
      <4> QED BY <4>1, <4>2
    <3>4. At("woken")' = At("woken") /\ At("asleep")' = At("asleep")
      BY <2>1, <3>1
    <3> QED
      BY <1>0, <1>a, <2>0, <3>1, <3>2, <3>3, <3>4 DEF NoLostWakeup, Testing, Pending
  <2>4. CASE Move(t, "unlock") /\ UNCHANGED <<value, owner>> /\ op[t] # "wait"
    <3>1. Testing' = Testing /\ At("woken")' = At("woken") /\ At("asleep")' = At("asleep")
      BY <2>0, <2>1, <2>4
    <3>2. Pending' = Pending
      BY <2>0, <2>4, <1>b DEF Pending, Move
    <3> QED
      BY <2>4, <3>1, <3>2, SameCount
  <2>5. CASE Added(t, count[t]) /\ op[t] = "post"
    <3>1. /\ value' = value + count[t] /\ left' = [left EXCEPT ![t] = count[t]]
          /\ Move(t, "signal") /\ UNCHANGED owner
      BY <2>5 DEF Added
    <3>2. Testing' = Testing /\ At("woken")' = At("woken") /\ At("asleep")' = At("asleep")
      BY <2>0, <2>1, <2>5, <3>1
    <3>3. count[t] \in Int /\ Pending' = count[t]
      BY <2>0, <3>1, <1>b, ConstantFacts DEF Pending, Move, IInv, TypeOK
    <3> QED
      BY <1>0, <1>a, <2>0, <3>1, <3>2, <3>3, Enough
  <2> QED
    BY <1>3, <2>2, <2>3, <2>4, <2>5 DEF Body, Wait, TryWait, Post, Value, Fail
<1>4. ASSUME NEW t \in Threads, Signal(t) PROVE NoLostWakeup'
  <2>0. /\ pc[t] = "signal" /\ owner = t /\ t # None /\ left[t] \in Nat /\ left[t] > 0
        /\ UNCHANGED <<value, owner, op>> /\ Pending = left[t] /\ left'[t] = left[t] - 1
    BY <1>4, ConstantFacts DEF Signal, IInv, TypeOK, Exclusion, Inside, Pending
  <2>1. CASE At("asleep") = {}
    <3>1. At("asleep")' = {}
      BY <1>4, <2>1 DEF Signal, At
    <3> QED
      BY <3>1 DEF NoLostWakeup
  <2>2. CASE At("asleep") # {}
    <3>1. PICK s \in At("asleep") : Move(s, "woken")
      BY <1>4, <2>2 DEF Signal
    <3>2. s \in Threads /\ pc[s] = "asleep" /\ s # t /\ s \notin At("woken")
      BY <2>0, <3>1 DEF At
    <3>3. At("woken")' = At("woken") \cup {s} /\ Testing' = Testing
      BY <2>0, <3>1, <3>2, <1>b DEF At, Testing, Move
    <3>4. Pending' = Pending - 1
      BY <2>0, <3>1, <3>2, <1>b DEF Pending, Move
    <3>5. Cardinality(At("woken")') = Cardinality(At("woken")) + 1
      BY <1>0, <3>2, <3>3, Counting
    <3> QED
      BY <1>0, <1>a, <2>0, <2>2, <3>3, <3>4, <3>5, Enough
  <2> QED
    BY <2>1, <2>2
<1>5. ASSUME NEW t \in Threads, SignalsSent(t) \/ Unlock(t) PROVE NoLostWakeup'
  <2>1. /\ pc[t] \in {"signal", "unlock"} /\ (pc[t] = "signal" => left[t] = 0) /\ owner = t
        /\ owner' \in {t, None} /\ UNCHANGED <<value, op, left>>
        /\ \E l \in {"unlock", "return"} : pc' = [pc EXCEPT ![t] = l]
    BY <1>5 DEF SignalsSent, Unlock, Move, IInv, Exclusion, Inside
  <2>2. UNCHANGED <<At("asleep"), At("woken"), At("body")>>
    BY <2>1, <1>b DEF At
  <2>3. Testing' = Testing
    BY <2>1, <2>2 DEF Testing
  <2>4. Pending' = Pending
    BY <2>1, <1>b DEF Pending
  <2> QED
    BY <2>1, <2>2, <2>3, <2>4, SameCount
<1>6. ASSUME NEW t \in Threads, SpuriousWakeup(t) PROVE NoLostWakeup'
  <2>1. pc[t] = "asleep" /\ pc' = [pc EXCEPT ![t] = "woken"] /\ UNCHANGED <<value, owner, op, left>>
    BY <1>6 DEF SpuriousWakeup, Move
  <2>2. At("asleep") # {} /\ t \notin At("woken") /\ At("woken")' = At("woken") \cup {t}
    BY <2>1, <1>b DEF At
  <2>3. Testing' = Testing
    BY <2>1, <1>b DEF Testing, At
  <2>4. Pending' = Pending
    BY <2>1, <1>b DEF Pending, IInv, TypeOK
  <2>5. Cardinality(At("woken")') = Cardinality(At("woken")) + 1
    BY <1>0, <2>2, Counting
  <2> QED
    BY <1>0, <1>a, <2>1, <2>2, <2>3, <2>4, <2>5, Enough
<1>7. CASE UNCHANGED vars
  BY <1>7, SameCount DEF vars, At, Testing, Pending
<1> QED
  BY <1>1, <1>2, <1>3, <1>4, <1>5, <1>6, <1>7 DEF Next, Step, Finished

\* However many threads wait and post, and whatever wakes up without a signal:
\* a unit that is there while somebody sleeps has a thread on its way to it.
THEOREM NoWakeupIsLost == Spec => []NoLostWakeup
<1>1. Init => NoLostWakeup
  BY DEF Init, NoLostWakeup, At
<1> QED
  BY <1>1, InitKeeps, NextKeeps, WakeupsKept, PTL DEF Spec

-----------------------------------------------------------------------------
(* Refinement. *)

\* The phase of a thread as SemaphoreSpec sees it.
phases == [t \in Threads |-> Phase(pc[t])]

\* A step inside an operation that leaves its phase as it is.
LEMMA Stutter ==
    ASSUME phases' = phases, UNCHANGED <<value, op, count, res>>
    PROVE  UNCHANGED Atomic!vars
BY DEF phases, Atomic!vars

\* Moving one thread moves its phase and no other.
LEMMA PhaseMoves ==
    ASSUME IInv, NEW t \in Threads,
           NEW l \in {"idle", "lock", "body", "asleep", "woken", "signal", "unlock", "return", "reject"},
           Move(t, l)
    PROVE  phases' = [phases EXCEPT ![t] = Phase(l)]
BY DEF IInv, TypeOK, Move, phases

\* A step of Body is one step of SemaphoreSpec, or a wait that goes to sleep.
LEMMA BodyRefines ==
    ASSUME IInv, NEW t \in Threads, Body(t)
    PROVE  [Atomic!Next]_(Atomic!vars)
<1>0. /\ value \in Int /\ count[t] \in Int /\ Maximum \in Int /\ 0 <= value
      /\ op[t] = "post" => count[t] > 0
      /\ pc[t] = "body" /\ phases[t] = "called" /\ UNCHANGED <<op, count>>
  BY ConstantFacts DEF IInv, TypeOK, Screened, InRange, Body, phases, Phase
<1>1. ASSUME Take(t), value # 0, op[t] \in {"wait", "trywait"} PROVE Atomic!Next
  <2>1. phases' = [phases EXCEPT ![t] = "done"]
    BY <1>1, PhaseMoves DEF Take, Phase
  <2>2. Atomic!Effect(t, value - 1, 1)
    BY <1>0, <1>1, <2>1 DEF Atomic!Effect, Take, Result, phases
  <2>3. value > 0
    BY <1>0, <1>1
  <2>4. Atomic!Wait(t) \/ Atomic!TryWait(t)
    BY <1>1, <2>2, <2>3 DEF Atomic!Wait, Atomic!TryWait
  <2> QED
    BY <2>4 DEF Atomic!Next
<1>2. ASSUME Fail(t) PROVE Atomic!Effect(t, value, 0)
  <2>1. phases' = [phases EXCEPT ![t] = "done"]
    BY <1>2, PhaseMoves DEF Fail, Phase
  <2> QED
    BY <1>0, <1>2, <2>1 DEF Atomic!Effect, Fail, Result, phases
<1>3. CASE Wait(t)
  <2>1. CASE value # 0
    BY <1>1, <1>3, <2>1 DEF Wait
  <2>2. CASE Move(t, "asleep") /\ UNCHANGED <<value, res>>
    <3>1. phases' = [phases EXCEPT ![t] = "called"]
      BY <2>2, PhaseMoves DEF Phase
    <3>2. phases' = phases
      BY <3>1, <1>0 DEF phases
    <3> QED
      BY <3>2, <2>2, <1>0, Stutter
  <2>3. CASE Fail(t)
    BY <1>2, <1>3, <2>3 DEF Wait, Atomic!WaitFails, Atomic!Next
  <2> QED
    BY <1>3, <2>1, <2>2, <2>3 DEF Wait
<1>4. CASE TryWait(t)
  <2>1. CASE value # 0
    BY <1>1, <1>4, <2>1 DEF TryWait
  <2>2. CASE value = 0
    BY <1>2, <1>4, <2>2 DEF TryWait, Atomic!TryWait, Atomic!Next
  <2> QED
    BY <2>1, <2>2
<1>5. CASE Post(t)
  <2>1. CASE count[t] > Maximum - value
    <3>1. ~(value + count[t] <= Maximum)
      BY <1>0, <2>1
    <3> QED
      BY <1>2, <1>5, <2>1, <3>1 DEF Post, Added, Atomic!Post, Atomic!Next
  <2>2. CASE ~(count[t] > Maximum - value)
    <3>1. count[t] > 0 /\ value + count[t] <= Maximum
      BY <1>0, <1>5, <2>2 DEF Post, Added
    <3>2. phases' = [phases EXCEPT ![t] = "done"]
      BY <1>5, <2>2, PhaseMoves DEF Post, Added, Phase
    <3>3. Atomic!Effect(t, value + count[t], 1)
      BY <1>0, <1>5, <2>2, <3>2 DEF Atomic!Effect, Post, Added, Result, phases
    <3> QED
      BY <1>5, <3>1, <3>3 DEF Post, Added, Atomic!Post, Atomic!Next
  <2> QED
    BY <2>1, <2>2
<1>6. CASE Value(t)
  <2>1. phases' = [phases EXCEPT ![t] = "done"]
    BY <1>6, PhaseMoves DEF Value, Phase
  <2>2. Atomic!Effect(t, value, value)
    BY <1>0, <1>6, <2>1 DEF Atomic!Effect, Value, Result, phases
  <2> QED
    BY <1>6, <2>2 DEF Value, Atomic!Value, Atomic!Next
<1> QED
  BY <1>3, <1>4, <1>5, <1>6 DEF Body

LEMMA NextRefines ==
    ASSUME IInv, [Next]_vars
    PROVE  [Atomic!Next]_(Atomic!vars)
<1>1. ASSUME NEW t \in Threads, Call(t) PROVE Atomic!Next
  <2>1. phases[t] = "idle"
    BY <1>1 DEF Call, phases, Phase
  <2>2. phases' = [phases EXCEPT ![t] = "called"]
    BY <1>1, PhaseMoves DEF Call, Phase
  <2>3. Atomic!Call(t)
    BY <1>1, <2>1, <2>2 DEF Call, Atomic!Call, phases
  <2> QED
    BY <2>3 DEF Atomic!Next
<1>2. ASSUME NEW t \in Threads, Reject(t) PROVE Atomic!Next
  <2>1. phases[t] = "called" /\ op[t] = "post" /\ ~(count[t] > 0)
    <3>1. count[t] \in Int /\ count[t] <= 0 /\ op[t] = "post"
      BY <1>2, ConstantFacts DEF IInv, TypeOK, Screened, Reject
    <3> QED
      BY <1>2, <3>1 DEF Reject, phases, Phase
  <2>2. phases' = [phases EXCEPT ![t] = "done"]
    BY <1>2, PhaseMoves DEF Reject, Phase
  <2>3. Atomic!Post(t)
    BY <1>2, <2>1, <2>2 DEF Reject, Result, Atomic!Post, Atomic!Effect, phases
  <2> QED
    BY <2>3 DEF Atomic!Next
<1>3. ASSUME NEW t \in Threads, Lock(t) PROVE UNCHANGED Atomic!vars
  <2>1. phases[t] = "called"
    BY <1>3 DEF Lock, phases, Phase
  <2>2. phases' = [phases EXCEPT ![t] = "called"]
    BY <1>3, PhaseMoves DEF Lock, Phase
  <2>3. phases' = phases
    BY <2>1, <2>2 DEF phases
  <2> QED
    BY <1>3, <2>3, Stutter DEF Lock
<1>4. ASSUME NEW t \in Threads, Signal(t) PROVE UNCHANGED Atomic!vars
  <2>1. CASE At("asleep") = {}
    BY <1>4, <2>1, Stutter DEF Signal, phases
  <2>2. ASSUME NEW s \in At("asleep"), Move(s, "woken") PROVE phases' = phases
    <3>1. s \in Threads /\ phases[s] = "called"
      BY DEF At, phases, Phase
    <3>2. phases' = [phases EXCEPT ![s] = "called"]
      BY <2>2, <3>1, PhaseMoves DEF Phase
    <3> QED
      BY <3>1, <3>2 DEF phases
  <2> QED
    BY <1>4, <2>1, <2>2, Stutter DEF Signal
<1>5. ASSUME NEW t \in Threads, SignalsSent(t) \/ Unlock(t) PROVE UNCHANGED Atomic!vars
  <2>1. phases[t] = "done" /\ (Move(t, "unlock") \/ Move(t, "return"))
        /\ UNCHANGED <<value, op, count, res>>
    BY <1>5 DEF SignalsSent, Unlock, phases, Phase
  <2>2. phases' = [phases EXCEPT ![t] = "done"]
    BY <2>1, PhaseMoves DEF Phase
  <2>3. phases' = phases
    BY <2>1, <2>2 DEF phases
  <2> QED
    BY <2>1, <2>3, Stutter
<1>6. ASSUME NEW t \in Threads, Return(t) PROVE Atomic!Next
  <2>1. phases[t] = "done"
    BY <1>6 DEF Return, phases, Phase
  <2>2. phases' = [phases EXCEPT ![t] = "idle"]
    BY <1>6, PhaseMoves DEF Return, Phase
  <2>3. Atomic!Return(t)
    BY <1>6, <2>1, <2>2 DEF Return, Result, Atomic!Return, phases
  <2> QED
    BY <2>3 DEF Atomic!Next
<1>7. ASSUME NEW t \in Threads, SpuriousWakeup(t) PROVE UNCHANGED Atomic!vars
  <2>1. phases[t] = "called"
    BY <1>7 DEF SpuriousWakeup, phases, Phase
  <2>2. phases' = [phases EXCEPT ![t] = "called"]
    BY <1>7, PhaseMoves DEF SpuriousWakeup, Phase
  <2>3. phases' = phases
    BY <2>1, <2>2 DEF phases
  <2> QED
    BY <1>7, <2>3, Stutter DEF SpuriousWakeup
<1>8. CASE UNCHANGED vars
  BY <1>8, Stutter DEF vars, phases
<1> QED
  BY <1>1, <1>2, <1>3, <1>4, <1>5, <1>6, <1>7, <1>8, BodyRefines DEF Next, Step, Finished

\* The mutex, the condition variable and the loop of ThreadSemaphoreWait make
\* every operation atomic: each behaviour is one of SemaphoreSpec.
THEOREM SemaphoreIsAtomic == Spec => ImplementsAtomic
<1>1. Init => Atomic!Init
  BY DEF Init, Atomic!Init, Phase
<1>2. IInv /\ [Next]_vars => [Atomic!Next]_(Atomic!vars)
  BY NextRefines
<1> QED
  BY <1>1, <1>2, InitKeeps, NextKeeps, PTL DEF Spec, ImplementsAtomic, Atomic!Spec

-----------------------------------------------------------------------------
(* The threads around it: the inductive invariant. *)

Creating == {"create", "spawn", "store", "publish"}
Leaving == {"leave", "native", "clear"}
Both == {"mutex", "condition"}

\* The threads main has still to come to, from the n-th on.
Ahead(n) == {Order[i] : i \in n..Len(Order)}

LifeTypes ==
    /\ leave \in [Threads -> {"join", "detach", "self"}]
    /\ at \in {"mutexinit", "condinit", "condfini", "mutexfini", "over", "away"}
                 \cup Creating \cup Leaving
    /\ who \in 1..Len(Order)
    /\ cthread \in [Threads -> [handle : BOOLEAN, joinable : BOOLEAN]]
    /\ start \in [Threads -> {"none", "live", "freed"}]
    /\ native \in [Threads -> {"none", "running", "ended", "detached", "gone"}]
    /\ body \in [Threads -> {"none", "read", "free", "detach", "native", "clear", "entry", "over"}]

\* The semaphore's objects are there from before the first thread to after the
\* last, and main destroys them only when no thread can come back to them.
ObjectsThere ==
    /\ at = "mutexinit" => objects = {}
    /\ at \in {"condinit", "mutexfini"} => objects = {"mutex"}
    /\ at \in Creating \cup Leaving \cup {"condfini", "away"} => objects = Both
    /\ at \in {"mutexinit", "condinit"} => who = 1 /\ \A t \in Threads : body[t] = "none"
    /\ at \in {"condfini", "mutexfini"} => \A t \in Threads : body[t] \in {"none", "over"}
    /\ at = "over" => \/ objects = {} /\ \A t \in Threads : body[t] \in {"none", "over"}
                      \/ objects = Both /\ ~AllJoined
    /\ \A t \in Threads : pc[t] # "idle" => body[t] = "entry"

\* Each thread: its CThreadStart, and its native thread while it runs.
StartThere ==
    \A t \in Threads :
       /\ body[t] = "none" <=> native[t] = "none"
       /\ body[t] \in {"read", "free"} => start[t] = "live"
       /\ body[t] \notin {"none", "read", "free"} => start[t] = "freed"
       /\ body[t] = "none" /\ start[t] = "live" => at = "spawn" /\ t = T
       /\ body[t] \in {"detach", "native", "clear"} => leave[t] = "self"
       /\ body[t] = "over" => native[t] \in {"ended", "gone"}
       /\ body[t] \notin {"none", "over"} => native[t] \in {"running", "detached"}

\* A thread is given up by one party only, and its CThread says it has not
\* been yet.
GivenUpOnce ==
    \A t \in Threads :
       /\ cthread[t].joinable => cthread[t].handle /\ body[t] # "none"
       /\ leave[t] = "join" => native[t] # "detached"
       /\ leave[t] = "self" =>
             /\ body[t] \in {"read", "free", "detach", "native"} => native[t] = "running"
             /\ body[t] \in {"clear", "entry"} => native[t] = "detached"
             /\ body[t] = "over" => native[t] = "gone"
             /\ body[t] \in {"native", "clear"} => cthread[t].joinable
       /\ leave[t] # "self" /\ cthread[t].joinable =>
             /\ native[t] \in {"running", "ended"} \/ (at = "clear" /\ t = T)
             /\ at \in Creating \/ (at \in Leaving /\ t \in Ahead(who))
       /\ leave[t] # "self" /\ ~cthread[t].joinable /\ body[t] # "none" =>
             native[t] \in {"detached", "gone"} \/ (at \in {"store", "publish"} /\ t = T)

\* Where main is, and which threads it has created so far.
MainThere ==
    /\ at # "away" =>
          \A t \in Threads :
             body[t] # "none" => /\ t \in Ahead(1)
                                 /\ at \in Creating => t \notin Ahead(who + 1)
                                 /\ at \in {"create", "spawn"} => t # T
    /\ at \in {"store", "publish"} =>
          /\ body[T] # "none" /\ ~cthread[T].joinable
          /\ leave[T] # "self" => native[T] \in {"running", "ended"}
          /\ at = "publish" => cthread[T].handle
    /\ at = "spawn" => start[T] = "live"
    /\ at = "native" => cthread[T].joinable /\ leave[T] # "self"
    /\ at = "clear" => leave[T] # "self" /\ native[T] \in {"detached", "gone"}

LifeInv == LifeTypes /\ ObjectsThere /\ StartThere /\ GivenUpOnce /\ MainThere

-----------------------------------------------------------------------------
(* Facts about the order main goes through. *)

LEMMA OrderFacts ==
    /\ Len(Order) \in Nat /\ 1 \in 1..Len(Order)
    /\ \A w \in 1..Len(Order) :
          /\ Order[w] \in Threads /\ w + 1 \in Nat
          /\ Ahead(w) = Ahead(w + 1) \cup {Order[w]} /\ Ahead(w) \subseteq Ahead(1)
          /\ Order[w] \notin Ahead(w + 1)
          /\ w < Len(Order) => w + 1 \in 1..Len(Order)
          /\ ~(w < Len(Order)) => Ahead(w + 1) = {}
<1>1. /\ Len(Order) \in Nat /\ 1 \in 1..Len(Order) /\ DOMAIN Order = 1..Len(Order)
      /\ \A i \in 1..Len(Order) : Order[i] \in Threads
      /\ \A i, j \in 1..Len(Order) : Order[i] = Order[j] => i = j
  BY OrderAssumption
<1>2. ASSUME NEW w \in 1..Len(Order)
      PROVE  w..Len(Order) = {w} \cup ((w + 1)..Len(Order)) /\ w \notin (w + 1)..Len(Order)
             /\ (w + 1)..Len(Order) \subseteq 1..Len(Order)
  BY <1>1
<1>3. ASSUME NEW w \in 1..Len(Order)
      PROVE  Ahead(w) = Ahead(w + 1) \cup {Order[w]} /\ Order[w] \notin Ahead(w + 1)
             /\ Ahead(w) \subseteq Ahead(1)
  BY <1>1, <1>2 DEF Ahead
<1>4. ASSUME NEW w \in 1..Len(Order), ~(w < Len(Order))
      PROVE  Ahead(w + 1) = {}
  <2>1. (w + 1)..Len(Order) = {}
    BY <1>1, <1>4
  <2> QED
    BY <2>1 DEF Ahead
<1> QED
  BY <1>1, <1>3, <1>4

\* Main goes to the next thread, or back to the first when there is none.
LEMMA Onwards ==
    ASSUME LifeTypes, NEW n, NEW d, NextThread(n, d)
    PROVE  /\ who' \in 1..Len(Order) /\ T' \in Threads
           /\ \/ at' = n /\ who' = who + 1 /\ T' \in Ahead(who + 1)
                 /\ Ahead(who + 1) = Ahead(who' + 1) \cup {T'} /\ T' \notin Ahead(who' + 1)
              \/ at' = d /\ who' = 1 /\ Ahead(who + 1) = {}
BY OrderFacts DEF LifeTypes, NextThread, T

LEMMA AtHand ==
    ASSUME LifeTypes
    PROVE  T \in Threads /\ T \in Ahead(1) /\ Ahead(who) = Ahead(who + 1) \cup {T} /\ T \notin Ahead(who + 1)
BY OrderFacts DEF LifeTypes, T

-----------------------------------------------------------------------------
(* The behaviours of the threads are behaviours of the semaphore. *)

LEMMA StepsOfSemaphore ==
    ASSUME [LifeNext]_allVars
    PROVE  [Next]_vars
BY DEF LifeNext, allVars, Use, Run, Rest, Next

\* Whatever main and the threads do around it, what happens to the semaphore
\* is what Semaphore says: its theorems hold of every life of its threads.
THEOREM LivesUseTheSemaphore == LifeSpec => Spec
<1>1. LifeInit => Init
  BY DEF LifeInit
<1> QED
  BY <1>1, StepsOfSemaphore, PTL DEF LifeSpec, Spec

\* The semaphore keeps its types, its range and its wakeups in every life.
THEOREM SemaphoreHoldsInLives == LifeSpec => [](TypeOK /\ CountInRange /\ NoLostWakeup)
BY LivesUseTheSemaphore, SemaphoreTypes, CountAlwaysInRange, NoWakeupIsLost, PTL

-----------------------------------------------------------------------------
(* The invariant is inductive. *)

LEMMA LifeInitKeeps == LifeInit => LifeInv
<1>1. ASSUME LifeInit PROVE LifeTypes
  BY <1>1, OrderFacts, LeavesAssumption
     DEF LifeInit, Beginning, Standing, LifeTypes, Creating, Leaving, All, Cleared
<1>2. ASSUME LifeInit PROVE ObjectsThere
  BY <1>2 DEF LifeInit, Init, Beginning, Standing, ObjectsThere, Creating, Leaving, Both, All
<1>3. ASSUME LifeInit PROVE StartThere
  BY <1>3 DEF LifeInit, Beginning, Standing, StartThere, All
<1>4. ASSUME LifeInit PROVE GivenUpOnce
  BY <1>4 DEF LifeInit, Beginning, Standing, GivenUpOnce, All, Cleared
<1>5. ASSUME LifeInit PROVE MainThere
  BY <1>5 DEF LifeInit, Beginning, Standing, MainThere, Creating, All
<1> QED
  BY <1>1, <1>2, <1>3, <1>4, <1>5 DEF LifeInv

\* The steps that only set up or take down the semaphore.
LEMMA ObjectSteps ==
    ASSUME LifeInv, UNCHANGED vars,
           MutexInit \/ ConditionInit \/ ConditionFini \/ MutexFini
    PROVE  LifeInv'
<1> USE DEF LifeInv
<1>0. T \in Threads /\ (UNCHANGED who => T' = T)
  BY AtHand DEF T
<1>1. CASE MutexInit
  BY <1>0, <1>1 DEF MutexInit, Goto, vars, LifeTypes, ObjectsThere, StartThere, GivenUpOnce, MainThere,
                    Creating, Leaving, Both, T
<1>2. CASE ConditionInit
  BY <1>0, <1>2 DEF ConditionInit, InitUndone, Goto, vars, LifeTypes, ObjectsThere, StartThere,
                    GivenUpOnce, MainThere, Creating, Leaving, Both, T
<1>3. CASE ConditionFini
  BY <1>0, <1>3 DEF ConditionFini, Goto, vars, LifeTypes, ObjectsThere, StartThere,
                    GivenUpOnce, MainThere, Creating, Leaving, Both, T
<1>4. CASE MutexFini
  BY <1>0, <1>4 DEF MutexFini, Goto, vars, LifeTypes, ObjectsThere, StartThere,
                    GivenUpOnce, MainThere, Creating, Leaving, Both, T
<1> QED
  BY <1>1, <1>2, <1>3, <1>4

\* ThreadCreate.
LEMMA CreateSteps ==
    ASSUME LifeInv, UNCHANGED vars,
           Prepare \/ Spawn \/ SpawnFails \/ StoreHandle \/ Publish
    PROVE  LifeInv'
<1> USE DEF LifeInv
<1>0. /\ T \in Threads /\ T \in Ahead(1) /\ (UNCHANGED who => T' = T)
      /\ Ahead(who) = Ahead(who + 1) \cup {T} /\ T \notin Ahead(who + 1)
  BY AtHand DEF T
<1>1. CASE Prepare
  <2>0. UNCHANGED <<pc, leave, native, body, objects>> /\ at = "create" /\ body[T] = "none"
        /\ cthread' = [cthread EXCEPT ![T] = [handle |-> FALSE, joinable |-> FALSE]]
    BY <1>0, <1>1 DEF Prepare, Prepared, vars, MainThere, LifeTypes
  <2>1. CASE start' = [start EXCEPT ![T] = "live"] /\ Goto("spawn")
    BY <1>0, <2>0, <2>1 DEF Goto, LifeTypes, ObjectsThere, StartThere, GivenUpOnce, MainThere,
                            Creating, Leaving, Both
  <2>2. CASE UNCHANGED start /\ NextThread("create", "leave")
    BY <1>0, <2>0, <2>2, Onwards DEF LifeTypes, ObjectsThere, StartThere, GivenUpOnce, MainThere,
                            Creating, Leaving, Both
  <2> QED
    BY <1>1, <2>1, <2>2 DEF Prepare
<1>2. CASE Spawn
  <2>1. LifeTypes'
    BY <1>0, <1>2 DEF Spawn, Goto, vars, LifeTypes, Creating, Leaving
  <2>2. ObjectsThere'
    BY <1>0, <1>2 DEF Spawn, Goto, vars, LifeTypes, ObjectsThere, MainThere, Creating, Leaving, Both
  <2>3. StartThere'
    BY <1>0, <1>2 DEF Spawn, Goto, vars, LifeTypes, StartThere, MainThere
  <2>4. GivenUpOnce'
    BY <1>0, <1>2 DEF Spawn, Goto, vars, LifeTypes, StartThere, GivenUpOnce, MainThere, Creating, Leaving
  <2>5. MainThere'
    BY <1>0, <1>2 DEF Spawn, Goto, vars, LifeTypes, StartThere, GivenUpOnce, MainThere, Creating
  <2> QED
    BY <2>1, <2>2, <2>3, <2>4, <2>5
<1>3. CASE SpawnFails
  BY <1>0, <1>3, Onwards DEF SpawnFails, vars, LifeTypes, ObjectsThere, StartThere, GivenUpOnce, MainThere,
                    Creating, Leaving, Both
<1>4. CASE StoreHandle
  <2>1. LifeTypes'
    BY <1>0, <1>4 DEF StoreHandle, Goto, vars, LifeTypes, Creating, Leaving
  <2>2. ObjectsThere'
    BY <1>0, <1>4 DEF StoreHandle, Goto, vars, LifeTypes, ObjectsThere, Creating, Leaving, Both
  <2>3. StartThere'
    BY <1>0, <1>4 DEF StoreHandle, Goto, vars, LifeTypes, StartThere, MainThere
  <2>4. GivenUpOnce'
    BY <1>0, <1>4 DEF StoreHandle, Goto, vars, LifeTypes, StartThere, GivenUpOnce, MainThere, Creating, Leaving
  <2>5. MainThere'
    BY <1>0, <1>4 DEF StoreHandle, Goto, vars, LifeTypes, StartThere, GivenUpOnce, MainThere, Creating
  <2> QED
    BY <2>1, <2>2, <2>3, <2>4, <2>5
<1>5. CASE Publish
  <2>1. LifeTypes'
    BY <1>0, <1>5, Onwards DEF Publish, vars, LifeTypes, Creating, Leaving
  <2>2. ObjectsThere'
    BY <1>0, <1>5, Onwards DEF Publish, vars, LifeTypes, ObjectsThere, Creating, Leaving, Both
  <2>3. StartThere'
    BY <1>0, <1>5, Onwards DEF Publish, vars, LifeTypes, StartThere, MainThere
  <2>4. GivenUpOnce'
    BY <1>0, <1>5, Onwards DEF Publish, vars, LifeTypes, StartThere, GivenUpOnce, MainThere, Creating, Leaving
  <2>5. MainThere'
    BY <1>0, <1>5, Onwards DEF Publish, vars, LifeTypes, StartThere, GivenUpOnce, MainThere, Creating
  <2> QED
    BY <2>1, <2>2, <2>3, <2>4, <2>5
<1> QED
  BY <1>1, <1>2, <1>3, <1>4, <1>5

\* ThreadJoin and ThreadDetach by main.
LEMMA LeaveSteps ==
    ASSUME LifeInv, UNCHANGED vars,
           Leave \/ NativeJoin \/ NativeDetach \/ Clear
    PROVE  LifeInv'
<1> USE DEF LifeInv
<1>0. /\ T \in Threads /\ T \in Ahead(1) /\ (UNCHANGED who => T' = T)
      /\ Ahead(who) = Ahead(who + 1) \cup {T} /\ T \notin Ahead(who + 1)
  BY AtHand DEF T
<1>1. CASE Leave
  BY <1>0, <1>1, Onwards DEF Leave, Goto, Destroy, AllJoined, vars, LifeTypes, ObjectsThere, StartThere, GivenUpOnce, MainThere,
                    Creating, Leaving, Both
<1>2. CASE NativeJoin
  BY <1>0, <1>2 DEF NativeJoin, Goto, vars, LifeTypes, ObjectsThere, StartThere, GivenUpOnce, MainThere,
                    Creating, Leaving, Both
<1>3. CASE NativeDetach
  BY <1>0, <1>3 DEF NativeDetach, Detached, Goto, vars, LifeTypes, ObjectsThere, StartThere, GivenUpOnce, MainThere,
                    Creating, Leaving, Both
<1>4. CASE Clear
  BY <1>0, <1>4, Onwards DEF Clear, Cleared, Destroy, AllJoined, vars, LifeTypes, ObjectsThere, StartThere, GivenUpOnce, MainThere,
                    Creating, Leaving, Both
<1> QED
  BY <1>1, <1>2, <1>3, <1>4

\* The steps of a thread of its own.
LEMMA ThreadSteps ==
    ASSUME LifeInv, UNCHANGED vars, NEW t \in Threads, Life(t)
    PROVE  LifeInv'
<1> USE DEF LifeInv
<1>0. T \in Threads /\ (UNCHANGED who => T' = T)
  BY AtHand DEF T
<1>1. CASE ReadStart(t)
  BY <1>0, <1>1 DEF ReadStart, Go, AllJoined, vars, LifeTypes, ObjectsThere, StartThere, GivenUpOnce, MainThere,
                    Creating, Leaving, Both
<1>2. CASE FreeStart(t)
  BY <1>0, <1>2 DEF FreeStart, Go, AllJoined, vars, LifeTypes, ObjectsThere, StartThere, GivenUpOnce, MainThere,
                    Creating, Leaving, Both
<1>3. CASE DetachSelf(t)
  BY <1>0, <1>3 DEF DetachSelf, Go, AllJoined, vars, LifeTypes, ObjectsThere, StartThere, GivenUpOnce, MainThere,
                    Creating, Leaving, Both
<1>4. CASE NativeDetachSelf(t)
  <2>1. LifeTypes'
    BY <1>0, <1>4 DEF NativeDetachSelf, Detached, Go, AllJoined, vars, LifeTypes, Creating, Leaving
  <2>2. ObjectsThere'
    BY <1>0, <1>4 DEF NativeDetachSelf, Detached, Go, AllJoined, vars, LifeTypes, ObjectsThere, Creating, Leaving, Both
  <2>3. StartThere'
    BY <1>0, <1>4 DEF NativeDetachSelf, Detached, Go, AllJoined, vars, LifeTypes, StartThere, MainThere
  <2>4. GivenUpOnce'
    BY <1>0, <1>4 DEF NativeDetachSelf, Detached, Go, AllJoined, vars, LifeTypes, StartThere, GivenUpOnce, MainThere, Creating, Leaving
  <2>5. MainThere'
    BY <1>0, <1>4 DEF NativeDetachSelf, Detached, Go, AllJoined, vars, LifeTypes, StartThere, GivenUpOnce, MainThere, Creating
  <2> QED
    BY <2>1, <2>2, <2>3, <2>4, <2>5
<1>5. CASE ClearSelf(t)
  <2>1. LifeTypes'
    BY <1>0, <1>5 DEF ClearSelf, Cleared, Go, AllJoined, vars, LifeTypes, Creating, Leaving
  <2>2. ObjectsThere'
    BY <1>0, <1>5 DEF ClearSelf, Cleared, Go, AllJoined, vars, LifeTypes, ObjectsThere, Creating, Leaving, Both
  <2>3. StartThere'
    BY <1>0, <1>5 DEF ClearSelf, Cleared, Go, AllJoined, vars, LifeTypes, StartThere, MainThere
  <2>4. GivenUpOnce'
    BY <1>0, <1>5 DEF ClearSelf, Cleared, Go, AllJoined, vars, LifeTypes, StartThere, GivenUpOnce, MainThere, Creating, Leaving
  <2>5. MainThere'
    BY <1>0, <1>5 DEF ClearSelf, Cleared, Go, AllJoined, vars, LifeTypes, StartThere, GivenUpOnce, MainThere, Creating
  <2> QED
    BY <2>1, <2>2, <2>3, <2>4, <2>5
<1>6. CASE End(t)
  BY <1>0, <1>6 DEF End, Go, AllJoined, vars, LifeTypes, ObjectsThere, StartThere, GivenUpOnce, MainThere,
                    Creating, Leaving, Both
<1> QED
  BY <1>1, <1>2, <1>3, <1>4, <1>5, <1>6 DEF Life

\* A step of the semaphore takes nobody but its own thread out of idle.
LEMMA IdleStay ==
    ASSUME TypeOK, NEW t \in Threads, Call(t) \/ Step(t) \/ SpuriousWakeup(t)
    PROVE  \A s \in Threads : s # t /\ pc[s] = "idle" => pc'[s] = "idle"
<1> USE DEF TypeOK, Move
<1>1. CASE Call(t) \/ SpuriousWakeup(t)
  BY <1>1 DEF Call, SpuriousWakeup
<1>2. CASE Reject(t) \/ Lock(t) \/ SignalsSent(t) \/ Unlock(t) \/ Return(t)
  BY <1>2 DEF Reject, Lock, SignalsSent, Unlock, Return
<1>3. CASE Body(t)
  BY <1>3 DEF Body, Wait, TryWait, Post, Value, Take, Fail, Added
<1>4. CASE Signal(t)
  BY <1>4 DEF Signal, At
<1> QED
  BY <1>1, <1>2, <1>3, <1>4 DEF Step

\* The semaphore's operations touch nothing of the threads' lives.
LEMMA OperationSteps ==
    ASSUME LifeInv, TypeOK, NEW t \in Threads, Use(t) \/ Run(t)
    PROVE  LifeInv'
<1>1. body[t] = "entry" /\ UNCHANGED lifeVars /\ (Call(t) \/ Step(t) \/ SpuriousWakeup(t))
  BY DEF Use, Run
<1>2. \A s \in Threads : pc'[s] # "idle" => body[s] = "entry"
  BY <1>1, IdleStay DEF LifeInv, ObjectsThere
<1>3. LifeTypes' /\ StartThere' /\ GivenUpOnce' /\ MainThere'
  BY <1>1 DEF lifeVars, LifeInv, LifeTypes, StartThere, GivenUpOnce, MainThere, T
<1>4. ObjectsThere'
  BY <1>1, <1>2 DEF lifeVars, LifeInv, ObjectsThere, AllJoined
<1> QED
  BY <1>3, <1>4 DEF LifeInv

LEMMA LifeNextKeeps ==
    ASSUME LifeInv, TypeOK, [LifeNext]_allVars
    PROVE  LifeInv'
<1>1. CASE Main /\ UNCHANGED vars
  BY <1>1, ObjectSteps, CreateSteps, LeaveSteps DEF Main
<1>2. ASSUME NEW t \in Threads, Life(t), UNCHANGED vars PROVE LifeInv'
  BY <1>2, ThreadSteps
<1>3. ASSUME NEW t \in Threads, Use(t) \/ Run(t) PROVE LifeInv'
  BY <1>3, OperationSteps
<1>4. CASE UNCHANGED allVars
  <2>1. UNCHANGED pc /\ UNCHANGED lifeVars
    BY <1>4 DEF allVars, vars
  <2> QED
    BY <2>1 DEF lifeVars, LifeInv, LifeTypes, ObjectsThere, StartThere, GivenUpOnce, MainThere, T, AllJoined
<1> QED
  BY <1>1, <1>2, <1>3, <1>4 DEF LifeNext, Rest

LEMMA LifeInvHolds == LifeSpec => []LifeInv
<1>1. LifeSpec => []TypeOK
  BY LivesUseTheSemaphore, SemaphoreTypes, PTL
<1> QED
  BY <1>1, LifeInitKeeps, LifeNextKeeps, PTL DEF LifeSpec

-----------------------------------------------------------------------------
\* A thread never misses its CThreadStart, a handle never goes to the native
\* join or detach before pthread_create stored it or after the thread was
\* given up, and no operation outlives the semaphore's objects.
THEOREM NothingIsStale == LifeSpec => []NothingStale
<1>1. LifeInv => NothingStale
  <2> SUFFICES ASSUME LifeInv PROVE NothingStale
    OBVIOUS
  <2>1. at = "native" => Valid(T)
    BY AtHand DEF LifeInv, LifeTypes, GivenUpOnce, MainThere, Valid
  <2>2. \A t \in Threads : body[t] = "native" => Valid(t)
    BY DEF LifeInv, LifeTypes, StartThere, GivenUpOnce, Valid
  <2>3. \A t \in Threads : pc[t] # "idle" => objects = {"mutex", "condition"}
    BY DEF LifeInv, LifeTypes, ObjectsThere, Creating, Leaving, Both
  <2> QED
    BY <2>1, <2>2, <2>3 DEF LifeInv, StartThere, NothingStale
<1> QED
  BY <1>1, LifeInvHolds, PTL

\* Whatever failed on the way, main leaves no CThreadStart, no unjoined thread
\* and no semaphore object that nobody can use any more.
THEOREM AllIsReleased == LifeSpec => []AllReleased
<1>1. LifeInv => AllReleased
  <2> SUFFICES ASSUME LifeInv, at = "over" PROVE AllReleased
    BY DEF AllReleased
  <2>1. \A t \in Threads : body[t] # "read" /\ body[t] # "free" => start[t] # "live"
    BY DEF LifeInv, LifeTypes, StartThere
  <2>2. \A t \in Threads : body[t] = "over" => native[t] = "gone"
    BY DEF LifeInv, LifeTypes, StartThere, GivenUpOnce, Creating, Leaving
  <2>3. AllJoined => objects = {}
    BY DEF LifeInv, ObjectsThere
  <2> QED
    BY <2>1, <2>2, <2>3 DEF AllReleased
<1> QED
  BY <1>1, LifeInvHolds, PTL
=============================================================================
