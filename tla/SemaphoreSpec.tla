---------------------------- MODULE SemaphoreSpec ----------------------------
(***************************************************************************)
(* What a CThreadSemaphore promises: every operation takes effect at one   *)
(* instant between its call and its return.  Wait takes a unit when there  *)
(* is one, TryWait takes one or reports that there was none, Post adds its *)
(* count or, if that would pass the maximum, nothing; Value reads.         *)
(***************************************************************************)
EXTENDS Integers

CONSTANTS Threads, Maximum, Initial, Counts

VARIABLES value,   \* units available
          phase,   \* per thread: idle, called (no effect yet), done
          op,      \* the operation called
          count,   \* Post's argument
          res      \* the operation's result

vars == <<value, phase, op, count, res>>

Init == /\ value = Initial
        /\ phase = [t \in Threads |-> "idle"]
        /\ op = [t \in Threads |-> "none"]
        /\ count = [t \in Threads |-> 1]
        /\ res = [t \in Threads |-> 0]

Call(t) == /\ phase[t] = "idle"
           /\ phase' = [phase EXCEPT ![t] = "called"]
           /\ \E o \in {"wait", "trywait", "post", "value"}, c \in Counts :
                 op' = [op EXCEPT ![t] = o] /\ count' = [count EXCEPT ![t] = c]
           /\ UNCHANGED <<value, res>>

Effect(t, v, r) == /\ phase[t] = "called"
                   /\ value' = v
                   /\ res' = [res EXCEPT ![t] = r]
                   /\ phase' = [phase EXCEPT ![t] = "done"]
                   /\ UNCHANGED <<op, count>>

Wait(t) == op[t] = "wait" /\ value > 0 /\ Effect(t, value - 1, 1)
\* The condition variable reported an error: no unit is taken.
WaitFails(t) == op[t] = "wait" /\ Effect(t, value, 0)
TryWait(t) == /\ op[t] = "trywait"
              /\ IF value > 0 THEN Effect(t, value - 1, 1) ELSE Effect(t, value, 0)
Post(t) == /\ op[t] = "post"
           /\ IF count[t] > 0 /\ value + count[t] <= Maximum
              THEN Effect(t, value + count[t], 1) ELSE Effect(t, value, 0)
Value(t) == op[t] = "value" /\ Effect(t, value, value)

Return(t) == /\ phase[t] = "done"
             /\ phase' = [phase EXCEPT ![t] = "idle"]
             /\ op' = [op EXCEPT ![t] = "none"]
             /\ count' = [count EXCEPT ![t] = 1]
             /\ res' = [res EXCEPT ![t] = 0]
             /\ UNCHANGED value

Next == \E t \in Threads : \/ Call(t) \/ Wait(t) \/ WaitFails(t) \/ TryWait(t)
                           \/ Post(t) \/ Value(t) \/ Return(t)

Spec == Init /\ [][Next]_vars
=============================================================================
