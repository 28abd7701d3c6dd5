------------------------------ MODULE Semaphore ------------------------------
(***************************************************************************)
(* The counting semaphore of lib/thread/thread.hc: an integer guarded by a *)
(* mutex, with a condition variable for the waiters.  Threads call its     *)
(* operations in any order; every native mutex or condition call is a step *)
(* of its own.  The native objects are modelled from the POSIX contract    *)
(* thread.hc relies on: a wait releases the mutex and sleeps atomically,   *)
(* must take the mutex again before it returns, and may return without a   *)
(* signal; a signal wakes one sleeper and is lost when there is none.      *)
(***************************************************************************)
EXTENDS Integers, FiniteSets

CONSTANTS
    Threads,
    None,         \* no thread
    Initial,      \* ThreadSemaphoreInit's arguments
    Maximum,
    Counts,       \* counts passed to Post
    MaxCalls,     \* bound: calls the threads make
    MaxSpurious,  \* bound: wakeups without a signal
    WaitMayFail   \* whether the native condition wait may report an error

ASSUME ThreadsAssumption == IsFiniteSet(Threads) /\ None \notin Threads
\* ThreadSemaphoreInit refuses anything else.
ASSUME InitAssumption == /\ Initial \in Int /\ Maximum \in Int
                         /\ ~(Initial < 0 \/ Maximum <= 0 \/ Initial > Maximum)
ASSUME CountsAssumption == Counts \subseteq Int /\ 1 \in Counts
ASSUME BoundsAssumption == MaxCalls \in Nat /\ MaxSpurious \in Nat /\ WaitMayFail \in BOOLEAN

VARIABLES
    value,     \* semaphore->value
    owner,     \* holder of semaphore->mutex
    pc,        \* where each thread is
    op, count, \* the operation it called, and Post's count
    left,      \* signals Post still has to send
    res,       \* the result: Bool as 0 or 1, or Value's reading
    calls,     \* calls made so far
    spurious   \* wakeups without a signal so far

vars == <<value, owner, pc, op, count, left, res, calls, spurious>>

At(l) == {t \in Threads : pc[t] = l}
Move(t, l) == pc' = [pc EXCEPT ![t] = l]
Result(t, r) == res' = [res EXCEPT ![t] = r]

Init ==
    /\ value = Initial
    /\ owner = None
    /\ pc = [t \in Threads |-> "idle"]
    /\ op = [t \in Threads |-> "none"]
    /\ count = [t \in Threads |-> 1]
    /\ left = [t \in Threads |-> 0]
    /\ res = [t \in Threads |-> 0]
    /\ calls = 0
    /\ spurious = 0

\* The entry of an operation; Post rejects a count that is not positive.
Call(t) ==
    /\ pc[t] = "idle"
    /\ calls < MaxCalls
    /\ calls' = calls + 1
    /\ \E o \in {"wait", "trywait", "post", "value"}, c \in Counts :
          /\ o # "post" => c = 1
          /\ op' = [op EXCEPT ![t] = o]
          /\ count' = [count EXCEPT ![t] = c]
          /\ Move(t, IF o = "post" /\ c <= 0 THEN "reject" ELSE "lock")
    /\ UNCHANGED <<value, owner, left, res, spurious>>

Reject(t) == /\ pc[t] = "reject"
             /\ Result(t, 0)
             /\ Move(t, "return")
             /\ UNCHANGED <<value, owner, op, count, left, calls, spurious>>

\* ThreadMutexLock, on entry or when a condition wait returns.
Lock(t) == /\ pc[t] \in {"lock", "woken"}
           /\ owner = None
           /\ owner' = t
           /\ Move(t, "body")
           /\ UNCHANGED <<value, op, count, left, res, calls, spurious>>

Take(t) == /\ value' = value - 1
           /\ Result(t, 1)
           /\ Move(t, "unlock")
           /\ UNCHANGED owner

\* Mutants: a failed operation reports success; or keeps the mutex.
FailAsSuccess(t) == Result(t, 1) /\ Move(t, "unlock") /\ UNCHANGED <<value, owner>>
FailLocked(t) == Result(t, 0) /\ Move(t, "return") /\ UNCHANGED <<value, owner>>

Fail(t) == Result(t, 0) /\ Move(t, "unlock") /\ UNCHANGED <<value, owner>>

\* The loop of ThreadSemaphoreWait: while (!value) wait on the condition.
Wait(t) ==
    /\ op[t] = "wait"
    /\ IF value # 0 THEN Take(t)
       ELSE \/ Move(t, "asleep") /\ owner' = None /\ UNCHANGED <<value, res>>
            \/ WaitMayFail /\ Fail(t)
    /\ UNCHANGED left

TryWait(t) == /\ op[t] = "trywait"
              /\ IF value # 0 THEN Take(t) ELSE Fail(t)
              /\ UNCHANGED left

Added(t, signals) ==
    /\ value' = value + count[t]
    /\ left' = [left EXCEPT ![t] = signals]
    /\ Result(t, 1)
    /\ Move(t, "signal")
    /\ UNCHANGED owner

\* Mutants: the units already there are forgotten; one signal whatever the
\* count; one signal too few.
PostPastMaximum(t) ==
    /\ op[t] = "post"
    /\ IF count[t] > Maximum THEN Fail(t) /\ UNCHANGED left ELSE Added(t, count[t])
PostOneSignal(t) ==
    /\ op[t] = "post"
    /\ IF count[t] > Maximum - value THEN Fail(t) /\ UNCHANGED left ELSE Added(t, 1)
PostFewSignals(t) ==
    /\ op[t] = "post"
    /\ IF count[t] > Maximum - value THEN Fail(t) /\ UNCHANGED left
       ELSE Added(t, count[t] - 1)

Post(t) ==
    /\ op[t] = "post"
    /\ IF count[t] > Maximum - value THEN Fail(t) /\ UNCHANGED left ELSE Added(t, count[t])

Value(t) == /\ op[t] = "value"
            /\ Result(t, value)
            /\ Move(t, "unlock")
            /\ UNCHANGED <<value, owner, left>>

Body(t) == /\ pc[t] = "body"
           /\ Wait(t) \/ TryWait(t) \/ Post(t) \/ Value(t)
           /\ UNCHANGED <<op, count, calls, spurious>>

\* Mutant: the loop runs once more than the count.
SignalOnceMore(t) ==
    /\ pc[t] = "signal"
    /\ left[t] >= 0
    /\ left' = [left EXCEPT ![t] = @ - 1]
    /\ IF At("asleep") = {} THEN UNCHANGED pc
       ELSE \E s \in At("asleep") : Move(s, "woken")
    /\ UNCHANGED <<value, owner, op, count, res, calls, spurious>>

\* One ThreadNativeConditionSignal of Post's loop, with the mutex held.
Signal(t) ==
    /\ pc[t] = "signal"
    /\ left[t] > 0
    /\ left' = [left EXCEPT ![t] = @ - 1]
    /\ IF At("asleep") = {} THEN UNCHANGED pc
       ELSE \E s \in At("asleep") : Move(s, "woken")
    /\ UNCHANGED <<value, owner, op, count, res, calls, spurious>>

SignalsSent(t) == /\ pc[t] = "signal"
                  /\ left[t] = 0
                  /\ Move(t, "unlock")
                  /\ UNCHANGED <<value, owner, op, count, left, res, calls, spurious>>

Unlock(t) == /\ pc[t] = "unlock"
             /\ owner' = None
             /\ Move(t, "return")
             /\ UNCHANGED <<value, op, count, left, res, calls, spurious>>

\* The caller has the result; the operation's own variables are gone.
Return(t) == /\ pc[t] = "return"
             /\ Move(t, "idle")
             /\ op' = [op EXCEPT ![t] = "none"]
             /\ count' = [count EXCEPT ![t] = 1]
             /\ Result(t, 0)
             /\ UNCHANGED <<value, owner, left, calls, spurious>>

\* pthread_cond_wait may return although nobody signalled.
SpuriousWakeup(t) == /\ pc[t] = "asleep"
                     /\ spurious < MaxSpurious
                     /\ spurious' = spurious + 1
                     /\ Move(t, "woken")
                     /\ UNCHANGED <<value, owner, op, count, left, res, calls>>

Step(t) == \/ Reject(t) \/ Lock(t) \/ Body(t) \/ Signal(t) \/ SignalsSent(t)
           \/ Unlock(t) \/ Return(t)

\* Every thread has made its calls or sleeps in one that found no unit.
Quiet == \A t \in Threads : pc[t] = "asleep" \/ (pc[t] = "idle" /\ calls = MaxCalls)
Finished == Quiet /\ UNCHANGED vars

Next == (\E t \in Threads : Call(t) \/ Step(t) \/ SpuriousWakeup(t)) \/ Finished

Spec == Init /\ [][Next]_vars

\* A thread inside an operation keeps running while it can.
FairSpec == Spec /\ \A t \in Threads : WF_vars(Step(t))

-----------------------------------------------------------------------------
(* Properties. *)

Inside == {"body", "signal", "unlock"}

\* Every variable has its type; Post's count of signals never goes below zero.
TypeOK ==
    /\ value \in Int
    /\ owner \in Threads \cup {None}
    /\ pc \in [Threads -> {"idle", "lock", "body", "asleep", "woken", "signal", "unlock",
                           "return", "reject"}]
    /\ op \in [Threads -> {"none", "wait", "trywait", "post", "value"}]
    /\ count \in [Threads -> Counts]
    /\ left \in [Threads -> Nat]
    /\ res \in [Threads -> Int]
    /\ calls \in 0..MaxCalls
    /\ spurious \in 0..MaxSpurious

\* The semaphore never hands out a unit it does not have and never holds more
\* than its maximum, and only one thread at a time is between lock and unlock.
CountInRange == /\ 0 <= value /\ value <= Maximum
                /\ \A t \in Threads : pc[t] \in Inside => owner = t

\* No wakeup is lost: while threads sleep, every available unit has a woken
\* thread on its way to the loop's test, or a signal Post has yet to send.
NoLostWakeup ==
    At("asleep") # {} =>
       value <= Cardinality(At("woken"))
                  + (IF owner # None /\ pc[owner] = "signal" THEN left[owner] ELSE 0)
                  + Cardinality({t \in At("body") : op[t] = "wait"})

\* A thread that sleeps in Wait while units are available is woken, or another
\* thread takes the units.
SleepersServed == \A t \in Threads : (pc[t] = "asleep" /\ value > 0) ~> (pc[t] # "asleep" \/ value = 0)

\* Every operation but Wait returns: nobody holds the mutex forever.
OperationsReturn ==
    \A t \in Threads : (pc[t] \in {"lock", "body", "signal", "unlock"} /\ op[t] # "wait") ~> (pc[t] = "idle")

\* Each operation takes effect atomically between its call and its return.
Phase(l) == CASE l = "idle" -> "idle" [] l \in {"signal", "unlock", "return"} -> "done"
              [] OTHER -> "called"
Atomic == INSTANCE SemaphoreSpec WITH phase <- [t \in Threads |-> Phase(pc[t])]
ImplementsAtomic == Atomic!Spec
=============================================================================
