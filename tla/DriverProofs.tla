---------------------------- MODULE DriverProofs ----------------------------
(***************************************************************************)
(* The driver, for every set of requests and sources and every number of   *)
(* calls: run_cmd and SIGINT, the handles an error exit closes, the files  *)
(* a call leaves, the sources it formats and the program it runs.  The     *)
(* last three and SIGINT are about one instance used at a time.            *)
(***************************************************************************)
EXTENDS Driver, Integers, SequenceTheorems, TLAPS

-----------------------------------------------------------------------------
(* run_cmd and SIGINT.  The invariants are not inductive as they stand:    *)
(* what must be known is what the saved disposition is inside run_cmd.     *)

PcType == /\ pc \in [Instances -> {"idle", "op", "ignored", "child", "reaped"}]
          /\ DOMAIN saved = Instances

\* Inside run_cmd SIGINT is ignored and what it was is saved.
Saved == \A i \in Instances : InCmd(i) => saved[i] = host /\ sigint = "ignore"

IInv == PcType /\ Saved /\ SigintRestored

\* The steps that leave SIGINT alone and stay outside run_cmd.
Outside(i) == \/ Start(i) \/ Parse(i) \/ Open(i) \/ Close(i) \/ Copy(i) \/ Load(i)
              \/ Unload(i) \/ Unlink(i) \/ Check(i) \/ SkipCmd(i) \/ Finish(i)
              \/ FmtRead(i) \/ FmtOpen(i) \/ FmtWrite(i) \/ FmtRename(i)

One == \A i, j \in Instances : i = j

\* A step outside run_cmd moves the program counter of its instance between
\* idle and op, and touches neither SIGINT nor what is saved.
LEMMA OutsideStep ==
    ASSUME NEW i \in Instances, Outside(i)
    PROVE  /\ pc[i] \in {"idle", "op"}
           /\ pc' = pc \/ \E v \in {"idle", "op"} : pc' = [pc EXCEPT ![i] = v]
           /\ UNCHANGED <<saved, sigint, host>>
<1>1. CASE Start(i) BY <1>1 DEF Start, Set
<1>2. CASE Parse(i) BY <1>2 DEF Parse, halt, Set, At, history
<1>3. CASE Open(i) BY <1>3 DEF Open, halt, Set, At, history
<1>4. CASE Close(i) BY <1>4 DEF Close, Set, At, history
<1>5. CASE Copy(i) BY <1>5 DEF Copy, halt, Set, At, history
<1>6. CASE Load(i) BY <1>6 DEF Load, halt, Set, At, history
<1>7. CASE Unload(i) BY <1>7 DEF Unload, halt, Set, At, history
<1>8. CASE Unlink(i) BY <1>8 DEF Unlink, At, history
<1>9. CASE Check(i) BY <1>9 DEF Check, halt, Set, At, history
<1>10. CASE SkipCmd(i) BY <1>10 DEF SkipCmd, At, history
<1>11. CASE Finish(i) BY <1>11 DEF Finish, Set, history
<1>12. CASE FmtRead(i) BY <1>12 DEF FmtRead, halt, Set, At, history
<1>13. CASE FmtOpen(i) BY <1>13 DEF FmtOpen, halt, Set, At, history
<1>14. CASE FmtWrite(i) BY <1>14 DEF FmtWrite, Set, At, history
<1>15. CASE FmtRename(i) BY <1>15 DEF FmtRename, halt, Set, At, history
<1> QED BY <1>1, <1>2, <1>3, <1>4, <1>5, <1>6, <1>7, <1>8, <1>9, <1>10, <1>11, <1>12, <1>13, <1>14,
           <1>15 DEF Outside

\* One instance: a step of it preserves the invariant.
LEMMA StepKeepsInv ==
    ASSUME One, IInv, NEW i \in Instances, InstanceStep(i)
    PROVE  IInv'
<1> USE DEF PcType
<1>0. \A j \in Instances : j = i
  BY DEF One
<1>1. CASE Outside(i)
  <2>1. /\ pc[i] \in {"idle", "op"}
        /\ pc' = pc \/ \E v \in {"idle", "op"} : pc' = [pc EXCEPT ![i] = v]
        /\ UNCHANGED <<saved, sigint, host>>
    BY <1>1, OutsideStep
  <2>2. PcType'
    BY <2>1 DEF IInv
  <2>3. ~InCmd(i) /\ ~InCmd(i)'
    BY <2>1 DEF IInv, InCmd
  <2>4. sigint = host
    BY <2>3, <1>0 DEF IInv, SigintRestored
  <2> QED
    BY <2>1, <2>2, <2>3, <2>4, <1>0 DEF IInv, Saved, SigintRestored
<1>2. CASE Ignore(i)
  <2>1. pc[i] = "op" /\ pc' = [pc EXCEPT ![i] = "ignored"]
    BY <1>2 DEF Ignore, At, Set
  <2>2. saved' = [saved EXCEPT ![i] = sigint] /\ sigint' = "ignore" /\ host' = host
    BY <1>2 DEF Ignore, Set, history
  <2>3. sigint = host
    BY <2>1, <1>0 DEF IInv, SigintRestored, InCmd
  <2>4. PcType' /\ saved'[i] = host' /\ InCmd(i)'
    BY <2>1, <2>2, <2>3 DEF IInv, InCmd
  <2> QED
    BY <2>2, <2>4, <1>0 DEF IInv, Saved, SigintRestored
<1>3. CASE SpawnFails(i) \/ WaitFails(i) \/ Restore(i)
  <2>1. InCmd(i) /\ \E v \in {"idle", "op"} : pc' = [pc EXCEPT ![i] = v]
    BY <1>3 DEF SpawnFails, WaitFails, Restore, halt, Set, InCmd
  <2>2. sigint' = saved[i] /\ UNCHANGED <<saved, host>>
    BY <1>3 DEF SpawnFails, WaitFails, Restore, history
  <2>3. PcType' /\ ~InCmd(i)'
    BY <2>1, <2>2 DEF IInv, InCmd
  <2>4. sigint' = host'
    BY <2>1, <2>2 DEF IInv, Saved
  <2> QED
    BY <2>3, <2>4, <1>0 DEF IInv, Saved, SigintRestored
<1>4. CASE Spawn(i) \/ Reap(i)
  <2>1. InCmd(i) /\ \E v \in {"child", "reaped"} : pc' = [pc EXCEPT ![i] = v]
    BY <1>4 DEF Spawn, Reap, Set, InCmd
  <2>2. UNCHANGED <<sigint, saved, host>>
    BY <1>4 DEF Spawn, Reap, history
  <2>3. PcType' /\ InCmd(i)'
    BY <2>1, <2>2 DEF IInv, InCmd
  <2> QED
    BY <2>1, <2>2, <2>3, <1>0 DEF IInv, Saved, SigintRestored
<1> QED
  BY <1>1, <1>2, <1>3, <1>4 DEF InstanceStep, Outside

\* A step that leaves the instances, SIGINT and the history alone preserves it.
LEMMA QuietStep ==
    ASSUME IInv, UNCHANGED <<pc, saved, sigint, host>>
    PROVE  IInv'
BY DEF IInv, PcType, Saved, SigintRestored, InCmd

\* Every step preserves the invariant.
LEMMA NextKeepsInv ==
    ASSUME One, IInv, [Next]_vars
    PROVE  IInv'
<1>1. CASE \E i \in Instances : InstanceStep(i)
  BY <1>1, StepKeepsInv
<1>2. CASE Interrupt
  BY <1>2, QuietStep DEF Interrupt, local
<1>3. CASE UNCHANGED vars
  BY <1>3, QuietStep DEF vars, local
<1> QED
  BY <1>1, <1>2, <1>3 DEF Next, Ended

\* The invariant holds at first.
LEMMA InitInv == Init => IInv
BY DEF Init, IInv, PcType, Saved, SigintRestored, InCmd

\* With one instance, run_cmd puts SIGINT back on every way out: after a
\* command, a failed spawn and a failed wait alike.
THEOREM SigintAlwaysRestored ==
    ASSUME One PROVE Spec => []SigintRestored
<1>1. Init => IInv
  BY InitInv
<1>2. IInv /\ [Next]_vars => IInv'
  BY NextKeepsInv
<1>3. IInv => SigintRestored
  BY DEF IInv
<1> QED
  BY <1>1, <1>2, <1>3, PTL DEF Spec

\* With one instance, ^C cannot end the driver while its child is alive.
THEOREM ChildNeverOrphaned ==
    ASSUME One PROVE Spec => DriverOutlivesChild
<1>1. Init => IInv
  BY InitInv
<1>2. IInv /\ [Next]_vars => IInv'
  BY NextKeepsInv
<1>3. IInv /\ [Next]_vars => [killed' /\ ~killed => \A i \in Instances : pc[i] # "child"]_vars
  <2> SUFFICES ASSUME IInv, [Next]_vars, killed', ~killed, NEW i \in Instances, pc[i] = "child"
               PROVE  FALSE
    OBVIOUS
  <2>1. sigint = "ignore"
    BY DEF IInv, Saved, InCmd
  <2>2. ASSUME NEW j \in Instances, InstanceStep(j) PROVE FALSE
    <3>1. ~(Start(j) \/ Parse(j) \/ Open(j) \/ Close(j) \/ Copy(j) \/ Load(j) \/ Unload(j))
      BY DEF Start, Parse, Open, Close, Copy, Load, Unload
    <3>2. ~(FmtRead(j) \/ FmtOpen(j) \/ FmtWrite(j) \/ FmtRename(j) \/ Unlink(j) \/ Check(j))
      BY DEF FmtRead, FmtOpen, FmtWrite, FmtRename, Unlink, Check
    <3>3. ~(SkipCmd(j) \/ Ignore(j) \/ SpawnFails(j) \/ Spawn(j) \/ Reap(j) \/ WaitFails(j)
              \/ Restore(j) \/ Finish(j))
      BY DEF SkipCmd, Ignore, SpawnFails, Spawn, Reap, WaitFails, Restore, Finish
    <3> QED
      BY <2>2, <3>1, <3>2, <3>3 DEF InstanceStep
  <2>3. ~Interrupt
    BY <2>1 DEF Interrupt
  <2>4. ~UNCHANGED vars
    BY DEF vars
  <2> QED
    BY <2>2, <2>3, <2>4 DEF Next, Ended
<1> QED
  BY <1>1, <1>2, <1>3, PTL DEF Spec, DriverOutlivesChild

-----------------------------------------------------------------------------
(* Plans.  What the proofs know of a plan, in parts that are kept when     *)
(* plans are joined and when steps are taken off the front.                *)

Words == {"exe", "block.c", "block.so", "rt.c", "s", "artifact", "o", "aholycrt.c", "out"}
Built(i) == {<<x, w>> : x \in {i, ".a.out", Out[i]}, w \in Words}
SourceSet == {Sources[n] : n \in DOMAIN Sources}

Makers == {"emit", "copy", "mkdtemp", "cmd", "cmdok"}
BuildNames == Makers \cup {"exec", "load", "unload", "drop", "unlink", "check", "fail"}
FmtNames == {"format", "fopen", "fwrite", "rename"}
OpSet(i) == [op : {"parse"}, f : {i}] \cup [op : BuildNames, f : Built(i)]
              \cup [op : FmtNames, f : SourceSet]

\* What is opened is closed by the step behind it; fmt's steps on a file
\* follow each other.
Suffix(s) ==
    \A n \in 1..Len(s) :
       /\ s[n].op = "load" => n < Len(s) /\ s[n + 1].op = "unload" /\ s[n + 1].f = s[n].f
       /\ s[n].op = "fopen" => n < Len(s) /\ s[n + 1].op = "fwrite" /\ s[n + 1].f = s[n].f
       /\ s[n].op = "fwrite" => n < Len(s) /\ s[n + 1].op = "rename" /\ s[n + 1].f = s[n].f
       /\ s[n].op = "unload" /\ n > 1 => s[n - 1].op = "load"
       /\ s[n].op = "fwrite" /\ n > 1 => s[n - 1].op = "fopen"
       /\ s[n].op = "rename" /\ n > 1 => s[n - 1].op = "fwrite"
Fresh(s) == s # <<>> => s[1].op \notin {"unload", "fwrite", "rename"}

\* Every file a step makes is one of A, or dropped later, unless the plan
\* cannot succeed.
Cleans(s, A) ==
    \A n \in 1..Len(s) :
       s[n].op \in Makers =>
          \/ s[n].f \in A
          \/ \E m \in 1..Len(s) :
                n < m /\ (s[m].op = "fail" \/ (s[m].op = "drop" /\ s[m].f = s[n].f))

NoExec(s) == \A n \in 1..Len(s) : s[n].op # "exec"

Sound(s, i, A) == s \in Seq(OpSet(i)) /\ Suffix(s) /\ Fresh(s) /\ Cleans(s, A)
Good(s, i, A) == Sound(s, i, A) /\ NoExec(s)

\* Where the elements of two joined sequences are.
LEMMA Joined ==
    ASSUME NEW S, NEW s \in Seq(S), NEW t \in Seq(S)
    PROVE  LET u == s \o t IN
           /\ u \in Seq(S) /\ Len(u) = Len(s) + Len(t) /\ Len(s) \in Nat /\ Len(t) \in Nat
           /\ \A n \in 1..Len(s) : n \in 1..Len(u) /\ u[n] = s[n]
           /\ \A n \in 1..Len(t) : n + Len(s) \in 1..Len(u) /\ u[n + Len(s)] = t[n]
           /\ \A n \in 1..Len(u) : n \notin 1..Len(s) => n - Len(s) \in 1..Len(t) /\ u[n] = t[n - Len(s)]
           /\ u = <<>> <=> s = <<>> /\ t = <<>>
<1> DEFINE u == s \o t
<1>1. Len(s) \in Nat /\ Len(t) \in Nat
  OBVIOUS
<1>2. /\ u \in Seq(S) /\ Len(u) = Len(s) + Len(t)
      /\ \A n \in 1..(Len(s) + Len(t)) : u[n] = IF n <= Len(s) THEN s[n] ELSE t[n - Len(s)]
  BY ConcatProperties
<1> HIDE DEF u
<1>3. \A n \in 1..Len(s) : n \in 1..Len(u) /\ u[n] = s[n]
  BY <1>1, <1>2
<1>4. \A n \in 1..Len(t) : n + Len(s) \in 1..Len(u) /\ u[n + Len(s)] = t[n]
  <2> SUFFICES ASSUME NEW n \in 1..Len(t) PROVE n + Len(s) \in 1..Len(u) /\ u[n + Len(s)] = t[n]
    OBVIOUS
  <2>1. /\ n + Len(s) \in 1..(Len(s) + Len(t)) /\ ~(n + Len(s) <= Len(s))
        /\ (n + Len(s)) - Len(s) = n
    BY <1>1
  <2> QED
    BY <1>2, <2>1
<1>5. \A n \in 1..Len(u) : n \notin 1..Len(s) => n - Len(s) \in 1..Len(t) /\ u[n] = t[n - Len(s)]
  BY <1>1, <1>2
<1>6. u = <<>> <=> s = <<>> /\ t = <<>>
  BY <1>1, <1>2, EmptySeq
<1> QED
  BY <1>1, <1>2, <1>3, <1>4, <1>5, <1>6 DEF u

LEMMA SuffixJoined ==
    ASSUME NEW S, NEW s \in Seq(S), NEW t \in Seq(S), Suffix(s), Suffix(t), Fresh(s), Fresh(t)
    PROVE  Suffix(s \o t) /\ Fresh(s \o t)
<1> DEFINE u == s \o t
           k == Len(s)
<1>0. /\ Len(u) = k + Len(t) /\ k \in Nat /\ Len(t) \in Nat
      /\ \A n \in 1..k : n \in 1..Len(u) /\ u[n] = s[n]
      /\ \A n \in 1..Len(t) : n + k \in 1..Len(u) /\ u[n + k] = t[n]
      /\ \A n \in 1..Len(u) : n \notin 1..k => n - k \in 1..Len(t) /\ u[n] = t[n - k]
      /\ (u = <<>> <=> s = <<>> /\ t = <<>>)
  BY Joined
<1> HIDE DEF u, k
<1>1. ASSUME NEW n \in 1..Len(u)
      PROVE  /\ u[n].op = "load" => n < Len(u) /\ u[n + 1].op = "unload" /\ u[n + 1].f = u[n].f
             /\ u[n].op = "fopen" => n < Len(u) /\ u[n + 1].op = "fwrite" /\ u[n + 1].f = u[n].f
             /\ u[n].op = "fwrite" => n < Len(u) /\ u[n + 1].op = "rename" /\ u[n + 1].f = u[n].f
             /\ u[n].op = "unload" /\ n > 1 => u[n - 1].op = "load"
             /\ u[n].op = "fwrite" /\ n > 1 => u[n - 1].op = "fopen"
             /\ u[n].op = "rename" /\ n > 1 => u[n - 1].op = "fwrite"
  <2>1. CASE n \in 1..k
    <3>1. (n < k => n + 1 \in 1..k) /\ (n > 1 => n - 1 \in 1..k) /\ (n < k => n < Len(u))
      BY <1>0, <2>1
    <3>2. u[n] = s[n] /\ (n < k => u[n + 1] = s[n + 1]) /\ (n > 1 => u[n - 1] = s[n - 1])
      BY <1>0, <2>1, <3>1
    <3> QED
      BY <2>1, <3>1, <3>2 DEF Suffix, k
  <2>2. CASE n \notin 1..k
    <3> DEFINE m == n - k
    <3>1. m \in 1..Len(t) /\ u[n] = t[m]
      BY <1>0, <2>2
    <3>2. m < Len(t) => n < Len(u) /\ n + 1 \in 1..Len(u) /\ n + 1 \notin 1..k /\ (n + 1) - k = m + 1
      BY <1>0, <2>2, <3>1
    <3>3. m < Len(t) => u[n + 1] = t[m + 1]
      BY <1>0, <3>2
    <3>4. m > 1 => n - 1 \in 1..Len(u) /\ n - 1 \notin 1..k /\ (n - 1) - k = m - 1
      BY <1>0, <2>2, <3>1
    <3>5. m > 1 => u[n - 1] = t[m - 1]
      BY <1>0, <3>4
    <3> HIDE DEF m
    <3>6. t # <<>> /\ (~(m > 1) => m = 1)
      BY <3>1
    <3>7. u[n].op \in {"unload", "fwrite", "rename"} => m > 1
      BY <3>1, <3>6 DEF Fresh
    <3>8. /\ t[m].op = "load" => m < Len(t) /\ t[m + 1].op = "unload" /\ t[m + 1].f = t[m].f
          /\ t[m].op = "fopen" => m < Len(t) /\ t[m + 1].op = "fwrite" /\ t[m + 1].f = t[m].f
          /\ t[m].op = "fwrite" => m < Len(t) /\ t[m + 1].op = "rename" /\ t[m + 1].f = t[m].f
          /\ t[m].op = "unload" /\ m > 1 => t[m - 1].op = "load"
          /\ t[m].op = "fwrite" /\ m > 1 => t[m - 1].op = "fopen"
          /\ t[m].op = "rename" /\ m > 1 => t[m - 1].op = "fwrite"
      BY <3>1 DEF Suffix
    <3> QED
      BY <3>1, <3>2, <3>3, <3>5, <3>7, <3>8, Zenon
  <2> QED
    BY <2>1, <2>2
<1>2. Suffix(u)
  BY <1>1 DEF Suffix
<1>3. Fresh(u)
  <2>1. CASE s # <<>>
    <3>1. 1 \in 1..k
      BY <2>1 DEF k
    <3> QED
      BY <1>0, <2>1, <3>1 DEF Fresh
  <2>2. CASE s = <<>>
    <3>1. k = 0
      BY <2>2 DEF k
    <3>2. ASSUME u # <<>> PROVE t # <<>> /\ u[1] = t[1]
      <4>1. t # <<>>
        BY <1>0, <2>2, <3>2
      <4>2. 1 \in 1..Len(t) /\ 1 + k = 1
        BY <3>1, <4>1
      <4> QED
        BY <1>0, <4>1, <4>2
    <3> QED
      BY <3>2 DEF Fresh
  <2> QED
    BY <2>1, <2>2
<1> QED
  BY <1>2, <1>3 DEF u

\* What the second part drops, the first may leave.
LEMMA CleansJoined ==
    ASSUME NEW S, NEW s \in Seq(S), NEW t \in Seq(S), NEW A, NEW B, Cleans(s, B), Cleans(t, A),
           \A x \in B : \/ x \in A
                       \/ \E m \in 1..Len(t) : t[m].op = "fail" \/ (t[m].op = "drop" /\ t[m].f = x)
    PROVE  Cleans(s \o t, A)
<1> DEFINE u == s \o t
           k == Len(s)
<1>0. /\ Len(u) = k + Len(t) /\ k \in Nat /\ Len(t) \in Nat
      /\ \A n \in 1..k : n \in 1..Len(u) /\ u[n] = s[n]
      /\ \A n \in 1..Len(t) : n + k \in 1..Len(u) /\ u[n + k] = t[n]
      /\ \A n \in 1..Len(u) : n \notin 1..k => n - k \in 1..Len(t) /\ u[n] = t[n - k]
  BY Joined
<1> HIDE DEF u, k
<1>1. ASSUME NEW n \in 1..Len(u), u[n].op \in Makers, u[n].f \notin A
      PROVE  \E m \in 1..Len(u) : n < m /\ (u[m].op = "fail" \/ (u[m].op = "drop" /\ u[m].f = u[n].f))
  <2>1. CASE n \in 1..k
    <3>1. u[n] = s[n]
      BY <1>0, <2>1
    <3>2. CASE s[n].f \in B
      <4>1. PICK m \in 1..Len(t) : t[m].op = "fail" \/ (t[m].op = "drop" /\ t[m].f = s[n].f)
        BY <1>1, <3>1, <3>2
      <4>2. m + k \in 1..Len(u) /\ u[m + k] = t[m] /\ n < m + k
        BY <1>0, <2>1
      <4> QED
        BY <3>1, <4>1, <4>2
    <3>3. CASE s[n].f \notin B
      <4>1. PICK m \in 1..k : n < m /\ (s[m].op = "fail" \/ (s[m].op = "drop" /\ s[m].f = s[n].f))
        BY <1>1, <2>1, <3>1, <3>3 DEF Cleans, k
      <4>2. m \in 1..Len(u) /\ u[m] = s[m]
        BY <1>0
      <4> QED
        BY <3>1, <4>1, <4>2
    <3> QED
      BY <3>2, <3>3
  <2>2. CASE n \notin 1..k
    <3>1. n - k \in 1..Len(t) /\ u[n] = t[n - k]
      BY <1>0, <2>2
    <3>2. PICK m \in 1..Len(t) : n - k < m /\ (t[m].op = "fail" \/ (t[m].op = "drop" /\ t[m].f = t[n - k].f))
      BY <1>1, <3>1 DEF Cleans
    <3>3. m + k \in 1..Len(u) /\ u[m + k] = t[m] /\ n < m + k
      BY <1>0, <3>2
    <3> QED
      BY <3>1, <3>2, <3>3
  <2> QED
    BY <2>1, <2>2
<1> QED
  BY <1>1 DEF Cleans, u

LEMMA NoExecJoined ==
    ASSUME NEW S, NEW s \in Seq(S), NEW t \in Seq(S), NoExec(s), NoExec(t)
    PROVE  NoExec(s \o t)
BY Joined DEF NoExec

-----------------------------------------------------------------------------
(* Putting plans together. *)

LEMMA SoundJoined ==
    ASSUME NEW i, NEW A, NEW B, NEW s, NEW t, Sound(s, i, B), Sound(t, i, A),
           \A x \in B : \/ x \in A
                       \/ \E m \in 1..Len(t) : t[m].op = "fail" \/ (t[m].op = "drop" /\ t[m].f = x)
    PROVE  Sound(s \o t, i, A)
<1>1. s \o t \in Seq(OpSet(i))
  BY Joined DEF Sound
<1>2. Suffix(s \o t) /\ Fresh(s \o t)
  BY SuffixJoined DEF Sound
<1>3. Cleans(s \o t, A)
  BY CleansJoined DEF Sound
<1> QED
  BY <1>1, <1>2, <1>3 DEF Sound

LEMMA GoodJoined ==
    ASSUME NEW i, NEW A, NEW s, NEW t, Good(s, i, A), Good(t, i, A)
    PROVE  Good(s \o t, i, A)
<1>1. Sound(s \o t, i, A)
  BY SoundJoined DEF Good
<1>2. NoExec(s \o t)
  BY NoExecJoined DEF Good, Sound
<1> QED
  BY <1>1, <1>2 DEF Good

LEMMA GoodNothing == \A i, A : Good(<<>>, i, A)
BY DEF Good, Sound, Suffix, Fresh, Cleans, NoExec

LEMMA GoodMore ==
    ASSUME NEW i, NEW A, NEW B, A \subseteq B, NEW s, Good(s, i, A)
    PROVE  Good(s, i, B)
BY DEF Good, Sound, Cleans

\* The steps that need no other beside them.
Single == BuildNames \ {"load", "unload"}

LEMMA OpOne ==
    \A o, f : Len(Op(o, f)) = 1 /\ 1 \in 1..Len(Op(o, f)) /\ Op(o, f)[1].op = o /\ Op(o, f)[1].f = f
BY DEF Op

LEMMA SoundOp ==
    ASSUME NEW i, NEW A, NEW o, NEW f,
           (o \in Single /\ f \in Built(i)) \/ (o = "parse" /\ f = i) \/ (o = "format" /\ f \in SourceSet),
           o \in Makers => f \in A
    PROVE  Sound(Op(o, f), i, A) /\ (o # "exec" => Good(Op(o, f), i, A))
<1> DEFINE x == [op |-> o, f |-> f]
<1>1. x.op = o /\ x.f = f
  OBVIOUS
<1>11. x \in OpSet(i)
  BY DEF OpSet, Single, FmtNames
<1>2. Op(o, f) = <<x>>
  BY DEF Op
<1>3. o \notin {"load", "unload", "fopen", "fwrite", "rename"}
  BY DEF Single, BuildNames, Makers
<1> HIDE DEF x
<1>4. Op(o, f) \in Seq(OpSet(i)) /\ Len(Op(o, f)) = 1 /\ Op(o, f)[1] = x
  BY <1>11, <1>2
<1>5. \A n \in 1..Len(Op(o, f)) : Op(o, f)[n].op = o /\ Op(o, f)[n].f = f
  BY <1>1, <1>4
<1> QED
  BY <1>1, <1>3, <1>4, <1>5 DEF Good, Sound, Suffix, Fresh, Cleans, NoExec

\* A step behind a plan: it may drop what the plan made, or fail for good.
LEMMA GoodThen ==
    ASSUME NEW i, NEW A, NEW B, NEW s, Good(s, i, B),
           NEW o \in Single \ {"exec"}, NEW f \in Built(i), o \in Makers => f \in A,
           \A x \in B : x \in A \/ o = "fail" \/ (o = "drop" /\ x = f)
    PROVE  Good(s \o Op(o, f), i, A)
<1>1. Good(Op(o, f), i, A)
  BY SoundOp
<1>2. Sound(s \o Op(o, f), i, A)
  BY <1>1, OpOne, SoundJoined DEF Good
<1>3. NoExec(s \o Op(o, f))
  BY <1>1, NoExecJoined DEF Good, Sound
<1> QED
  BY <1>2, <1>3 DEF Good

\* The files of a build.
LEMMA BuiltPaths ==
    ASSUME NEW i, NEW o \in {i, ".a.out", Out[i]}
    PROVE  /\ \A w \in Words : Temp(o, w) \in Built(i)
           /\ Path(o) \in Built(i)
BY DEF Built, Temp, Path, Words

-----------------------------------------------------------------------------
(* The plans of the modes. *)

LEMMA SingleNames ==
    /\ {"emit", "copy", "mkdtemp", "cmd", "cmdok", "drop", "unlink", "check", "fail"} = Single \ {"exec"}
    /\ "drop" \notin Makers /\ "unlink" \notin Makers /\ "check" \notin Makers /\ "fail" \notin Makers
BY DEF Single, BuildNames, Makers

\* A #exe block is loaded and unloaded, and leaves neither a file nor its
\* directory.
LEMMA GoodExe ==
    ASSUME NEW i
    PROVE  Good(ExeOps(i), i, {})
<1> DEFINE c == Temp(i, "block.c")
           so == Temp(i, "block.so")
           dir == Temp(i, "exe")
           pair == Op("load", so) \o Op("unload", so)
           front == Op("mkdtemp", dir) \o Op("emit", c) \o Op("cmd", so) \o Op("check", so)
<1>1. c \in Built(i) /\ so \in Built(i) /\ dir \in Built(i)
  BY BuiltPaths DEF Words
<1> HIDE DEF c, so, dir
<1>0. Good(Op("mkdtemp", dir), i, {c, so, dir})
  BY <1>1, SoundOp, SingleNames
<1>2. Good(Op("mkdtemp", dir) \o Op("emit", c), i, {c, so, dir})
  BY <1>0, <1>1, GoodThen, SingleNames
<1>3. Good(Op("mkdtemp", dir) \o Op("emit", c) \o Op("cmd", so), i, {c, so, dir})
  BY <1>1, <1>2, GoodThen, SingleNames
<1>4. Good(front, i, {c, so, dir})
  BY <1>1, <1>3, GoodThen, SingleNames
<1>5. Op("load", so) \in Seq(OpSet(i)) /\ Op("unload", so) \in Seq(OpSet(i))
  <2>1. [op |-> "load", f |-> so] \in OpSet(i) /\ [op |-> "unload", f |-> so] \in OpSet(i)
    BY <1>1 DEF OpSet, BuildNames
  <2> QED
    BY <2>1 DEF Op
<1>6. Good(pair, i, {c, so, dir})
  <2>1. /\ pair \in Seq(OpSet(i)) /\ Len(pair) = Len(Op("load", so)) + Len(Op("unload", so))
        /\ \A n \in 1..Len(Op("load", so)) : pair[n] = Op("load", so)[n]
        /\ \A n \in 1..Len(Op("unload", so)) : pair[n + Len(Op("load", so))] = Op("unload", so)[n]
    BY <1>5, Joined
  <2> HIDE DEF pair
  <2>2. pair \in Seq(OpSet(i)) /\ Len(pair) = 2 /\ pair[1] = Op("load", so)[1] /\ pair[2] = Op("unload", so)[1]
    <3>1. pair[1 + 1] = Op("unload", so)[1]
      BY <2>1, OpOne
    <3> QED
      BY <2>1, <3>1, OpOne
  <2>3. pair[1].op = "load" /\ pair[2].op = "unload" /\ pair[1].f = so /\ pair[2].f = so
    BY <2>2, OpOne
  <2>4. \A n \in 1..Len(pair) : n = 1 \/ n = 2
    BY <2>2
  <2>5. Suffix(pair)
    BY <2>2, <2>3, <2>4 DEF Suffix
  <2>6. Fresh(pair) /\ NoExec(pair) /\ Cleans(pair, {c, so, dir})
    BY <2>2, <2>3, <2>4 DEF Fresh, NoExec, Cleans, Makers
  <2> QED
    BY <2>2, <2>5, <2>6 DEF Good, Sound
<1>7. Good(front \o pair, i, {c, so, dir})
  BY <1>4, <1>6, GoodJoined
<1>8. (front \o Op("load", so)) \o Op("unload", so) = front \o pair
  <2>1. front \in Seq(OpSet(i))
    BY <1>4 DEF Good, Sound
  <2> HIDE DEF front
  <2> QED
    BY <1>5, <2>1, ConcatAssociative
<1> DEFINE all == (front \o Op("load", so)) \o Op("unload", so)
<1>9. Good(all, i, {c, so, dir})
  BY <1>7, <1>8
<1> HIDE DEF all
<1>10. Good(all \o Op("drop", c), i, {so, dir})
  BY <1>1, <1>9, GoodThen, SingleNames
<1>11. Good(all \o Op("drop", c) \o Op("drop", so), i, {dir})
  BY <1>1, <1>10, GoodThen, SingleNames
<1>12. Good(all \o Op("drop", c) \o Op("drop", so) \o Op("drop", dir), i, {})
  BY <1>1, <1>11, GoodThen, SingleNames
<1> QED
  BY <1>12 DEF ExeOps, all, c, so, dir

\* The last step that makes f: what follows are checks and drops of others.
Produces(x, f) == x.op \in {"cmd", "cmdok", "copy", "fail"} /\ x.f = f
Passes(x, f) == x.op = "check" \/ (x.op = "drop" /\ x.f # f)
Made(s, f) == \E m \in 1..Len(s) : /\ Produces(s[m], f)
                                  /\ \A k \in 1..Len(s) : k > m => Passes(s[k], f)

LEMMA MadeBehind ==
    ASSUME NEW S, NEW s \in Seq(S), NEW t \in Seq(S), NEW f, Made(t, f)
    PROVE  Made(s \o t, f)
<1> DEFINE u == s \o t
<1>0. /\ Len(u) = Len(s) + Len(t) /\ Len(s) \in Nat /\ Len(t) \in Nat
      /\ \A n \in 1..Len(t) : n + Len(s) \in 1..Len(u) /\ u[n + Len(s)] = t[n]
      /\ \A n \in 1..Len(u) : n \notin 1..Len(s) => n - Len(s) \in 1..Len(t) /\ u[n] = t[n - Len(s)]
  BY Joined
<1> HIDE DEF u
<1>1. PICK m \in 1..Len(t) : Produces(t[m], f) /\ \A k \in 1..Len(t) : k > m => Passes(t[k], f)
  BY DEF Made
<1>2. m + Len(s) \in 1..Len(u) /\ Produces(u[m + Len(s)], f)
  BY <1>0, <1>1
<1>3. ASSUME NEW k \in 1..Len(u), k > m + Len(s) PROVE Passes(u[k], f)
  <2>1. k \notin 1..Len(s) /\ k - Len(s) > m
    BY <1>0, <1>3
  <2> QED
    BY <1>0, <1>1, <2>1
<1> QED
  BY <1>2, <1>3 DEF Made, u

LEMMA MadeThen ==
    ASSUME NEW S, NEW s \in Seq(S), NEW t \in Seq(S), Len(t) = 1, NEW f,
           Produces(t[1], f) \/ (Made(s, f) /\ Passes(t[1], f))
    PROVE  Made(s \o t, f)
<1>1. CASE Produces(t[1], f)
  <2>1. Made(t, f)
    BY <1>1 DEF Made
  <2> QED
    BY <2>1, MadeBehind
<1>2. CASE Made(s, f) /\ Passes(t[1], f)
  <2> DEFINE u == s \o t
  <2>0. /\ Len(u) = Len(s) + Len(t) /\ Len(s) \in Nat
        /\ \A n \in 1..Len(s) : n \in 1..Len(u) /\ u[n] = s[n]
        /\ \A n \in 1..Len(u) : n \notin 1..Len(s) => n - Len(s) \in 1..Len(t) /\ u[n] = t[n - Len(s)]
    <3> HIDE DEF Made, Passes
    <3>1. s \in Seq(S) /\ t \in Seq(S)
      OBVIOUS
    <3> QED
      BY ONLY <3>1, Joined DEF u
  <2> HIDE DEF u
  <2>1. PICK m \in 1..Len(s) : Produces(s[m], f) /\ \A k \in 1..Len(s) : k > m => Passes(s[k], f)
    BY <1>2 DEF Made
  <2>2. m \in 1..Len(u) /\ Produces(u[m], f)
    BY <2>0, <2>1
  <2>3. ASSUME NEW k \in 1..Len(u), k > m PROVE Passes(u[k], f)
    <3>1. CASE k \in 1..Len(s) BY <2>0, <2>1, <2>3, <3>1
    <3>2. CASE k \notin 1..Len(s)
      <4>1. k - Len(s) \in 1..1 /\ u[k] = t[k - Len(s)]
        BY <2>0, <3>2
      <4>2. k - Len(s) = 1
        BY <2>0, <4>1
      <4> QED
        BY <1>2, <4>1, <4>2
    <3> QED BY <3>1, <3>2
  <2> QED
    BY <2>2, <2>3 DEF Made, u
<1> QED
  BY <1>1, <1>2

\* A plan that makes f, is sound and cleans up all but A.
Makes(s, i, A, f) == Good(s, i, A) /\ Made(s, f)

LEMMA MakesThen ==
    ASSUME NEW i, NEW A, NEW B, NEW s, Good(s, i, B),
           NEW o \in Single \ {"exec"}, NEW g \in Built(i), o \in Makers => g \in A,
           \A x \in B : x \in A \/ o = "fail" \/ (o = "drop" /\ x = g),
           NEW f,
           \/ o \in {"cmd", "cmdok", "copy", "fail"} /\ g = f
           \/ Made(s, f) /\ (o = "check" \/ (o = "drop" /\ g # f))
    PROVE  Makes(s \o Op(o, g), i, A, f)
<1>1. Good(s \o Op(o, g), i, A)
  BY GoodThen
<1>2. Op(o, g) \in Seq(OpSet(i)) /\ s \in Seq(OpSet(i))
  <2>1. Good(Op(o, g), i, A)
    BY SoundOp
  <2> QED
    BY <2>1 DEF Good, Sound
<1>3. Produces(Op(o, g)[1], f) \/ (Made(s, f) /\ Passes(Op(o, g)[1], f))
  BY OpOne DEF Produces, Passes
<1>4. Made(s \o Op(o, g), f)
  BY <1>2, <1>3, OpOne, MadeThen
<1> QED
  BY <1>1, <1>4 DEF Makes

LEMMA MakesBehind ==
    ASSUME NEW i, NEW A, NEW s, Good(s, i, A), NEW t, NEW f, Makes(t, i, A, f)
    PROVE  Makes(s \o t, i, A, f)
<1>1. Good(s \o t, i, A)
  BY GoodJoined DEF Makes
<1>2. Made(s \o t, f)
  BY MadeBehind DEF Makes, Good, Sound
<1> QED
  BY <1>1, <1>2 DEF Makes

LEMMA MakesOp ==
    ASSUME NEW i, NEW A, NEW o \in {"cmd", "cmdok", "copy", "fail"}, NEW f \in Built(i), o \in Makers => f \in A
    PROVE  Makes(Op(o, f), i, A, f)
<1>1. Good(Op(o, f), i, A)
  BY SoundOp, SingleNames
<1>2. Made(Op(o, f), f)
  BY OpOne DEF Made, Produces
<1> QED
  BY <1>1, <1>2 DEF Makes

\* Temporaries are not outputs.
LEMMA Apart ==
    ASSUME NEW o, NEW v, NEW w, v # w
    PROVE  Temp(o, v) # Temp(o, w) /\ (v # "out" => Temp(o, v) # Path(o))
BY DEF Temp, Path

LEMMA ObjectMakes ==
    ASSUME NEW i, NEW be, NEW target \in Built(i)
    PROVE  Makes(ObjectOps(be, target), i, {target}, target)
BY MakesOp DEF ObjectOps, Makers

LEMMA BuildMakes ==
    ASSUME NEW i, NEW o \in {i, ".a.out", Out[i]}, NEW be \in {"c", "clang", "llc", "none", "js"}
    PROVE  Makes(BuildOps(be, o, Path(o)), i, {Path(o)}, Path(o))
<1> DEFINE t == Path(o)
           rt == Temp(o, "rt.c")
           a == Temp(o, "s")
<1>1. t \in Built(i) /\ rt \in Built(i) /\ a \in Built(i)
  BY BuiltPaths DEF Words
<1>2. rt # t /\ a # t
  BY Apart
<1>3. BuildOps(be, o, t) =
        CASE be = "clang" -> Op("emit", rt) \o Op("cmd", t) \o Op("drop", rt)
          [] be = "llc"   -> Op("emit", rt) \o Op("cmd", a) \o Op("cmdok", t) \o Op("drop", a) \o Op("drop", rt)
          [] be = "none"  -> Op("emit", rt) \o Op("fail", t)
          [] be = "c"     -> Op("cmd", t)
          [] be = "js"    -> Op("copy", t)
  BY DEF BuildOps
<1> HIDE DEF t, rt, a
<1> USE SingleNames
<1>4. Good(Op("emit", rt), i, {t, rt, a}) /\ Good(Op("emit", rt), i, {t, rt})
  BY <1>1, SoundOp
<1>5. CASE be = "clang"
  <2>1. Makes(Op("emit", rt) \o Op("cmd", t), i, {t, rt}, t)
    BY <1>1, <1>4, MakesThen
  <2>2. Good(Op("emit", rt) \o Op("cmd", t), i, {t, rt}) /\ Made(Op("emit", rt) \o Op("cmd", t), t)
    BY <2>1 DEF Makes
  <2>3. \A x \in {t, rt} : x \in {t} \/ "drop" = "fail" \/ ("drop" = "drop" /\ x = rt)
    OBVIOUS
  <2>4. Makes((Op("emit", rt) \o Op("cmd", t)) \o Op("drop", rt), i, {t}, t)
    BY <1>1, <1>2, <2>2, <2>3, MakesThen DEF Makers
  <2>5. Makes(Op("emit", rt) \o Op("cmd", t) \o Op("drop", rt), i, {t}, t)
    BY <2>4
  <2> QED
    BY <1>3, <1>5, <2>5 DEF t
<1>6. CASE be = "llc"
  <2>1. Good(Op("emit", rt) \o Op("cmd", a), i, {t, rt, a})
    BY <1>1, <1>4, GoodThen
  <2>2. Makes(Op("emit", rt) \o Op("cmd", a) \o Op("cmdok", t), i, {t, rt, a}, t)
    BY <1>1, <2>1, MakesThen
  <2>3. Makes(Op("emit", rt) \o Op("cmd", a) \o Op("cmdok", t) \o Op("drop", a), i, {t, rt}, t)
    BY <1>1, <1>2, <2>2, MakesThen DEF Makes
  <2>4. Makes(Op("emit", rt) \o Op("cmd", a) \o Op("cmdok", t) \o Op("drop", a) \o Op("drop", rt), i, {t}, t)
    BY <1>1, <1>2, <2>3, MakesThen DEF Makes
  <2> QED
    BY <1>3, <1>6, <2>4 DEF t
<1>7. CASE be = "none"
  <2>1. Makes(Op("emit", rt) \o Op("fail", t), i, {t}, t)
    BY <1>1, <1>4, MakesThen
  <2> QED
    BY <1>3, <1>7, <2>1 DEF t
<1>8. CASE be = "c"
  <2>1. Makes(Op("cmd", t), i, {t}, t)
    BY <1>1, MakesOp
  <2> QED
    BY <1>3, <1>8, <2>1 DEF t
<1>9. CASE be = "js"
  <2>1. Makes(Op("copy", t), i, {t}, t)
    BY <1>1, MakesOp
  <2> QED
    BY <1>3, <1>9, <2>1 DEF t
<1> QED
  BY <1>5, <1>6, <1>7, <1>8, <1>9

LEMMA LastOf ==
    ASSUME NEW S, NEW v \in Seq(S), NEW w \in Seq(S), Len(w) = 1
    PROVE  Len(v \o w) \in Nat /\ Len(v \o w) >= 1 /\ (v \o w)[Len(v \o w)] = w[1]
<1>0. v \in Seq(S) /\ w \in Seq(S)
  OBVIOUS
<1>1. /\ Len(v \o w) = Len(v) + Len(w) /\ Len(v) \in Nat
      /\ \A n \in 1..Len(w) : (v \o w)[n + Len(v)] = w[n]
  BY ONLY <1>0, Joined
<1>2. (v \o w)[1 + Len(v)] = w[1]
  BY <1>1
<1>3. Len(v \o w) = 1 + Len(v)
  BY <1>1
<1> QED
  BY <1>1, <1>2, <1>3

Checked(s) == Len(s) >= 1 /\ s[Len(s)].op = "check"

LEMMA CheckedLast ==
    ASSUME NEW i, NEW v \in Seq(OpSet(i)), NEW f \in Built(i)
    PROVE  Checked(v \o Op("check", f))
<1> DEFINE w == Op("check", f)
<1>1. Good(w, i, {})
  BY SoundOp, SingleNames
<1>2. w \in Seq(OpSet(i)) /\ Len(w) = 1 /\ w[1].op = "check"
  BY <1>1, OpOne DEF Good, Sound
<1> HIDE DEF w
<1>3. Len(v \o w) >= 1 /\ (v \o w)[Len(v \o w)] = w[1]
  BY <1>2, LastOf
<1>4. Checked(v \o w)
  BY <1>2, <1>3 DEF Checked
<1> QED
  BY <1>4 DEF w

\* build_source leaves its target and ends in a check of the last command.
LEMMA SourceMakes ==
    ASSUME NEW i, NEW o \in {i, ".a.out", Out[i]}, NEW q \in Requests, NEW object \in BOOLEAN,
           NEW target, target = Path(o) \/ (object /\ target = Temp(o, "o"))
    PROVE  /\ Makes(build_source(q, o, target, object), i, {target}, target)
           /\ Checked(build_source(q, o, target, object))
<1> DEFINE art == Temp(o, "artifact")
           body == IF object THEN ObjectOps(q.be, target) ELSE BuildOps(q.be, o, target)
<1>1. target \in Built(i) /\ art \in Built(i) /\ art # target
  BY BuiltPaths, Apart DEF Words
<1>2. q.be \in {"c", "clang", "llc", "none", "js"}
  BY RequestsAssumption
<1>3. Makes(body, i, {target}, target)
  BY <1>1, <1>2, ObjectMakes, BuildMakes
<1> HIDE DEF body, art
<1> USE SingleNames
<1>4. Good(Op("emit", art), i, {target, art})
  BY <1>1, SoundOp
<1>5. Makes(body, i, {target, art}, target)
  BY <1>3, GoodMore DEF Makes
<1>6. Makes(Op("emit", art) \o body, i, {target, art}, target)
  BY <1>4, <1>5, MakesBehind
<1> DEFINE front == Op("emit", art) \o body \o Op("drop", art)
<1>7. Makes(front, i, {target}, target)
  BY <1>1, <1>6, MakesThen DEF Makes
<1>8. build_source(q, o, target, object) = front \o Op("check", target)
  BY DEF build_source, body, art
<1> HIDE DEF front
<1>9. Makes(front \o Op("check", target), i, {target}, target)
  BY <1>1, <1>7, MakesThen DEF Makes
<1>10. front \in Seq(OpSet(i))
  BY <1>7 DEF Makes, Good, Sound
<1> QED
  BY <1>1, <1>8, <1>9, <1>10, CheckedLast

\* What build_source is to link and archive: an object, if there are sources.
Objects(q, o) == IF q.src THEN build_source(q, o, Temp(o, "o"), TRUE) ELSE <<>>
Rest(q, o) == IF q.src THEN Op("drop", Temp(o, "o")) ELSE <<>>

LEMMA ObjectsGood ==
    ASSUME NEW i, NEW o \in {i, ".a.out", Out[i]}, NEW q \in Requests
    PROVE  Good(Objects(q, o), i, IF q.src THEN {Temp(o, "o")} ELSE {})
<1>1. CASE q.src
  <2>1. Makes(build_source(q, o, Temp(o, "o"), TRUE), i, {Temp(o, "o")}, Temp(o, "o"))
    BY SourceMakes
  <2> QED
    BY <1>1, <2>1 DEF Objects, Makes
<1>2. CASE ~q.src
  BY <1>2, GoodNothing DEF Objects
<1> QED
  BY <1>1, <1>2

LEMMA LinkMakes ==
    ASSUME NEW i, NEW o \in {i, ".a.out", Out[i]}, NEW q \in Requests
    PROVE  /\ Makes(LinkOps(q, o), i, {Path(o)}, Path(o))
           /\ Checked(LinkOps(q, o))
<1> DEFINE t == Path(o)
           rt == Temp(o, "aholycrt.c")
           obj == Temp(o, "o")
           B == IF q.src THEN {obj} ELSE {}
           s1 == Objects(q, o) \o Op("emit", rt)
           s2 == s1 \o Op("cmd", t)
           s3 == s2 \o Op("drop", rt)
           s4 == s3 \o Rest(q, o)
<1>1. t \in Built(i) /\ rt \in Built(i) /\ obj \in Built(i) /\ rt # t /\ obj # t
  BY BuiltPaths, Apart DEF Words
<1>2. LinkOps(q, o) = s4 \o Op("check", t)
  BY DEF LinkOps, Objects, Rest
<1>3. Good(Objects(q, o), i, B)
  BY ObjectsGood
<1> USE SingleNames
<1> HIDE DEF t, rt, obj
<1>4. Good(s1, i, B \cup {rt, t})
  <2> HIDE DEF B
  <2> QED BY <1>1, <1>3, GoodThen
<1> HIDE DEF s1
<1>5. Makes(s2, i, B \cup {rt, t}, t)
  <2> HIDE DEF B
  <2> QED BY <1>1, <1>4, MakesThen
<1> HIDE DEF s2
<1>6. Makes(s3, i, B \cup {t}, t)
  <2> DEFINE C == B \cup {rt, t}
             D == B \cup {t}
  <2>1. \A x \in C : x \in D \/ x = rt
    OBVIOUS
  <2>2. Good(s2, i, C) /\ Made(s2, t)
    BY <1>5 DEF Makes
  <2> HIDE DEF C, D
  <2>3. Makes(s2 \o Op("drop", rt), i, D, t)
    BY <1>1, <2>1, <2>2, MakesThen
  <2> QED
    BY <2>3 DEF D
<1> HIDE DEF s3
<1>7. Makes(s4, i, {t}, t)
  <2>1. CASE q.src
    <3>1. Makes(s3 \o Op("drop", obj), i, {t}, t)
      BY <1>1, <1>6, <2>1, MakesThen DEF Makes
    <3> QED
      BY <2>1, <3>1 DEF Rest, obj
  <2>2. CASE ~q.src
    <3>1. B \cup {t} = {t}
      BY <2>2
    <3>2. s3 \in Seq(OpSet(i)) /\ Rest(q, o) = <<>>
      BY <1>6, <2>2 DEF Makes, Good, Sound, Rest
    <3>3. s4 = s3
      BY <3>2, ConcatEmptySeq
    <3> QED
      BY <1>6, <3>1, <3>3
  <2> QED
    BY <2>1, <2>2
<1> HIDE DEF s4
<1>8. Makes(s4 \o Op("check", t), i, {t}, t)
  BY <1>1, <1>7, MakesThen DEF Makes
<1>9. s4 \in Seq(OpSet(i))
  BY <1>7 DEF Makes, Good, Sound
<1> QED
  BY <1>1, <1>2, <1>8, <1>9, CheckedLast DEF t

LEMMA ArchiveGood ==
    ASSUME NEW i, NEW o \in {i, ".a.out", Out[i]}, NEW q \in Requests
    PROVE  Good(ArchiveOps(q, o), i, {Path(o)})
<1> DEFINE t == Path(o)
           obj == Temp(o, "o")
           B == IF q.src THEN {obj} ELSE {}
           s1 == Objects(q, o) \o Op("unlink", t)
           s2 == s1 \o Op("cmd", t)
           s3 == s2 \o Op("check", t)
<1>1. t \in Built(i) /\ obj \in Built(i)
  BY BuiltPaths DEF Words
<1>2. ArchiveOps(q, o) = s3 \o Rest(q, o)
  BY DEF ArchiveOps, Objects, Rest
<1>3. Good(Objects(q, o), i, B)
  BY ObjectsGood
<1> USE SingleNames
<1> HIDE DEF t, obj
<1>4. Good(s1, i, B \cup {t})
  <2> HIDE DEF B
  <2> QED BY <1>1, <1>3, GoodThen
<1> HIDE DEF s1
<1>5. Good(s2, i, B \cup {t})
  <2> HIDE DEF B
  <2> QED BY <1>1, <1>4, GoodThen
<1> HIDE DEF s2
<1>6. Good(s3, i, B \cup {t})
  <2> HIDE DEF B
  <2> QED BY <1>1, <1>5, GoodThen
<1> HIDE DEF s3
<1>7. CASE q.src
  <2>1. Good(s3 \o Op("drop", obj), i, {t})
    BY <1>1, <1>6, <1>7, GoodThen
  <2> QED
    BY <1>2, <1>7, <2>1 DEF Rest, obj, t
<1>8. CASE ~q.src
  <2>1. B \cup {t} = {t}
    BY <1>8
  <2>2. s3 \in Seq(OpSet(i)) /\ Rest(q, o) = <<>>
    BY <1>6, <1>8 DEF Good, Sound, Rest
  <2>3. s3 \o Rest(q, o) = s3
    BY <2>2, ConcatEmptySeq
  <2> QED
    BY <1>2, <1>6, <2>1, <2>3 DEF t
<1> QED
  BY <1>7, <1>8

LEMMA ParseGood ==
    ASSUME NEW i, NEW q
    PROVE  Good(ParseOps(q, i), i, {})
<1>1. Good(Op("parse", i), i, {})
  BY SoundOp DEF Makers
<1>2. Good(Op("parse", i) \o ExeOps(i), i, {})
  BY <1>1, GoodExe, GoodJoined
<1>3. Good(Op("parse", i) \o ExeOps(i) \o Op("parse", i), i, {})
  BY <1>1, <1>2, GoodJoined
<1> QED
  BY <1>1, <1>3, GoodNothing DEF ParseOps

-----------------------------------------------------------------------------
(* fmt: the steps of a file are side by side. *)

Stage(j) == (j - 1) % 4
Which(j) == (j - 1) \div 4

LEMMA Stages ==
    ASSUME NEW L \in Nat, NEW j \in 1..(4 * L)
    PROVE  /\ Stage(j) \in 0..3 /\ Which(j) \in 0..(L - 1)
           /\ Stage(j) < 3 => /\ j + 1 \in 1..(4 * L)
                              /\ Stage(j + 1) = Stage(j) + 1 /\ Which(j + 1) = Which(j)
           /\ Stage(j) > 0 => j - 1 \in 1..(4 * L) /\ Stage(j - 1) = Stage(j) - 1
           /\ j = 1 => Stage(j) = 0
<1>1. Stage(j) \in 0..3 /\ Which(j) \in 0..(L - 1)
  BY DEF Stage, Which
<1>2. ASSUME Stage(j) < 3
      PROVE  j + 1 \in 1..(4 * L) /\ Stage(j + 1) = Stage(j) + 1 /\ Which(j + 1) = Which(j)
  BY <1>2 DEF Stage, Which
<1>3. ASSUME Stage(j) > 0
      PROVE  j - 1 \in 1..(4 * L) /\ Stage(j - 1) = Stage(j) - 1
  BY <1>3 DEF Stage, Which
<1>4. j = 1 => Stage(j) = 0
  BY DEF Stage
<1> QED
  BY <1>1, <1>2, <1>3, <1>4

\* A file that is formatted may be written and moved.
FmtShape(s) ==
    /\ NoExec(s)
    /\ \A n \in 1..Len(s) : s[n].op = "format" =>
          /\ n + 3 <= Len(s)
          /\ s[n + 1].op = "fopen" /\ s[n + 2].op = "fwrite" /\ s[n + 3].op = "rename"

LEMMA FmtWriteGood ==
    ASSUME NEW i
    PROVE  Good(fmt_main(TRUE), i, {}) /\ FmtShape(fmt_main(TRUE))
<1> DEFINE s == fmt_main(TRUE)
           L == Len(Sources)
           N == 4 * L
           names == <<"format", "fopen", "fwrite", "rename">>
<1>1. L \in Nat /\ DOMAIN Sources = 1..L
  BY SourcesAssumption
<1>2. s = [j \in 1..N |-> [op |-> names[Stage(j) + 1], f |-> Sources[Which(j) + 1]]]
  BY DEF fmt_main, Stage, Which
<1> HIDE DEF s, L
<1>3. \A j \in 1..N : s[j].op = names[Stage(j) + 1] /\ s[j].f = Sources[Which(j) + 1]
  BY <1>2
<1>4. N \in Nat
  BY <1>1
<1>5. ASSUME NEW j \in 1..N
      PROVE  /\ s[j] \in OpSet(i)
             /\ \/ Stage(j) = 0 /\ s[j].op = "format"
                \/ Stage(j) = 1 /\ s[j].op = "fopen"
                \/ Stage(j) = 2 /\ s[j].op = "fwrite"
                \/ Stage(j) = 3 /\ s[j].op = "rename"
  <2>1. Stage(j) \in 0..3 /\ Which(j) \in 0..(L - 1)
    BY <1>1, Stages
  <2>2. Which(j) + 1 \in DOMAIN Sources
    BY <1>1, <2>1
  <2>3. s[j] = [op |-> names[Stage(j) + 1], f |-> Sources[Which(j) + 1]]
    BY <1>2
  <2>4. \/ Stage(j) = 0 /\ names[Stage(j) + 1] = "format"
        \/ Stage(j) = 1 /\ names[Stage(j) + 1] = "fopen"
        \/ Stage(j) = 2 /\ names[Stage(j) + 1] = "fwrite"
        \/ Stage(j) = 3 /\ names[Stage(j) + 1] = "rename"
    <3>1. names[1] = "format" /\ names[2] = "fopen" /\ names[3] = "fwrite" /\ names[4] = "rename"
      OBVIOUS
    <3> HIDE DEF names
    <3> DEFINE e == Stage(j)
    <3>2. e \in 0..3
      BY <2>1
    <3> HIDE DEF e
    <3>3. (e = 0 /\ e + 1 = 1) \/ (e = 1 /\ e + 1 = 2) \/ (e = 2 /\ e + 1 = 3) \/ (e = 3 /\ e + 1 = 4)
      BY <3>2
    <3> QED
      BY <3>1, <3>3 DEF e
  <2>5. names[Stage(j) + 1] \in FmtNames /\ Sources[Which(j) + 1] \in SourceSet
    BY <2>2, <2>4 DEF FmtNames, SourceSet
  <2> HIDE DEF names
  <2>6. s[j].op = names[Stage(j) + 1]
    BY <2>3
  <2>7. s[j] \in OpSet(i)
    BY <2>3, <2>5 DEF OpSet
  <2> QED
    BY <2>4, <2>6, <2>7
<1>6. s \in Seq(OpSet(i)) /\ Len(s) = N
  BY <1>2, <1>4, <1>5
<1> HIDE DEF N, names
<1>7. ASSUME NEW j \in 1..N
      PROVE  /\ Stage(j) < 3 => j + 1 \in 1..N /\ Stage(j + 1) = Stage(j) + 1 /\ Which(j + 1) = Which(j)
             /\ Stage(j) > 0 => j - 1 \in 1..N /\ Stage(j - 1) = Stage(j) - 1
             /\ j = 1 => Stage(j) = 0
  BY <1>1, Stages DEF N
<1>8. Suffix(s)
  <2> SUFFICES ASSUME NEW n \in 1..N
      PROVE  /\ s[n].op # "load" /\ s[n].op # "unload"
             /\ s[n].op = "fopen" => n < N /\ s[n + 1].op = "fwrite" /\ s[n + 1].f = s[n].f
             /\ s[n].op = "fwrite" => n < N /\ s[n + 1].op = "rename" /\ s[n + 1].f = s[n].f
             /\ s[n].op = "fwrite" /\ n > 1 => s[n - 1].op = "fopen"
             /\ s[n].op = "rename" /\ n > 1 => s[n - 1].op = "fwrite"
    BY <1>6 DEF Suffix
  <2>1. s[n].op # "load" /\ s[n].op # "unload"
    BY <1>5
  <2>2. ASSUME s[n].op \in {"fopen", "fwrite"}
        PROVE  n + 1 \in 1..N /\ Stage(n + 1) = Stage(n) + 1 /\ s[n + 1].f = s[n].f
    <3>1. Stage(n) < 3
      BY <1>5, <2>2
    <3> QED
      BY <1>3, <1>7, <3>1
  <2>3. ASSUME s[n].op \in {"fwrite", "rename"}
        PROVE  n - 1 \in 1..N /\ Stage(n - 1) = Stage(n) - 1
    <3>1. Stage(n) > 0
      BY <1>5, <2>3
    <3> QED
      BY <1>7, <3>1
  <2>4. n + 1 \in 1..N => n < N
    BY <1>4 DEF N
  <2> QED
    BY <1>5, <2>1, <2>2, <2>3, <2>4
<1>9. Fresh(s)
  <2> SUFFICES ASSUME s # <<>> PROVE s[1].op \notin {"unload", "fwrite", "rename"}
    BY DEF Fresh
  <2>1. 1 \in 1..N
    BY <1>6
  <2>2. Stage(1) = 0
    BY <1>7, <2>1
  <2> QED
    BY <1>5, <2>1, <2>2
<1>10. Cleans(s, {}) /\ NoExec(s)
  BY <1>5, <1>6 DEF Cleans, NoExec, Makers
<1>11. ASSUME NEW n \in 1..N, s[n].op = "format"
       PROVE  /\ n + 3 <= N
              /\ s[n + 1].op = "fopen" /\ s[n + 2].op = "fwrite" /\ s[n + 3].op = "rename"
  <2>0. Stage(n) = 0
    BY <1>5, <1>11
  <2>1. n + 1 \in 1..N /\ Stage(n + 1) = 1
    BY <1>7, <2>0
  <2>2. (n + 1) + 1 \in 1..N /\ Stage((n + 1) + 1) = 2
    BY <1>7, <2>1
  <2>3. n + 2 \in 1..N /\ Stage(n + 2) = 2
    <3>1. (n + 1) + 1 = n + 2
      OBVIOUS
    <3> QED
      BY <2>2, <3>1
  <2>4. (n + 2) + 1 \in 1..N /\ Stage((n + 2) + 1) = 3
    BY <1>7, <2>3
  <2>5. n + 3 \in 1..N /\ Stage(n + 3) = 3
    <3>1. (n + 2) + 1 = n + 3
      OBVIOUS
    <3> QED
      BY <2>4, <3>1
  <2>6. n + 3 <= N
    BY <2>5
  <2> QED
    BY <1>5, <2>1, <2>3, <2>5, <2>6
<1> QED
  BY <1>6, <1>8, <1>9, <1>10, <1>11 DEF Good, Sound, FmtShape, s

LEMMA FmtShowGood ==
    ASSUME NEW i
    PROVE  Good(fmt_main(FALSE), i, {})
<1> DEFINE s == fmt_main(FALSE)
           L == Len(Sources)
<1>1. L \in Nat /\ DOMAIN Sources = 1..L
  BY SourcesAssumption
<1>2. s = [j \in 1..L |-> [op |-> "format", f |-> Sources[j]]]
  <2>1. s = [j \in 1..(1 * L) |-> [op |-> <<"format">>[((j - 1) % 1) + 1], f |-> Sources[((j - 1) \div 1) + 1]]]
    BY DEF fmt_main
  <2> HIDE DEF s, L
  <2>2. 1 * L = L
    BY <1>1
  <2>3. \A j \in 1..L : ((j - 1) % 1) + 1 = 1 /\ ((j - 1) \div 1) + 1 = j
    BY <1>1
  <2> QED
    BY <2>1, <2>2, <2>3
<1> HIDE DEF s, L
<1>3. \A j \in 1..L : s[j] \in OpSet(i) /\ s[j].op = "format"
  BY <1>1, <1>2 DEF OpSet, FmtNames, SourceSet
<1>4. s \in Seq(OpSet(i)) /\ Len(s) = L
  BY <1>1, <1>2, <1>3
<1>5. Suffix(s) /\ Fresh(s) /\ Cleans(s, {}) /\ NoExec(s)
  BY <1>3, <1>4 DEF Suffix, Fresh, Cleans, NoExec, Makers
<1> QED
  BY <1>4, <1>5 DEF Good, Sound, s

-----------------------------------------------------------------------------
(* The whole plan. *)

\* What is run was made by this plan, and the command that made it checked.
Runs(s) ==
    \A n \in 1..Len(s) : s[n].op = "exec" =>
       \E m \in 1..Len(s) :
          /\ m < n /\ Produces(s[m], s[n].f)
          /\ \A k \in 1..Len(s) : m < k /\ k < n => Passes(s[k], s[n].f)
          /\ \E k \in 1..Len(s) : m < k /\ k < n /\ s[k].op = "check"

LEMMA RunsBehind ==
    ASSUME NEW S, NEW s \in Seq(S), NEW t \in Seq(S), NoExec(s), Runs(t)
    PROVE  Runs(s \o t)
<1> DEFINE u == s \o t
           d == Len(s)
<1>0. /\ Len(u) = d + Len(t) /\ d \in Nat /\ Len(t) \in Nat
      /\ \A n \in 1..d : n \in 1..Len(u) /\ u[n] = s[n]
      /\ \A n \in 1..Len(t) : n + d \in 1..Len(u) /\ u[n + d] = t[n]
      /\ \A n \in 1..Len(u) : n \notin 1..d => n - d \in 1..Len(t) /\ u[n] = t[n - d]
  BY Joined
<1> HIDE DEF u
<1> SUFFICES ASSUME NEW n \in 1..Len(u), u[n].op = "exec"
             PROVE  \E m \in 1..Len(u) :
                       /\ m < n /\ Produces(u[m], u[n].f)
                       /\ \A k \in 1..Len(u) : m < k /\ k < n => Passes(u[k], u[n].f)
                       /\ \E k \in 1..Len(u) : m < k /\ k < n /\ u[k].op = "check"
  BY DEF Runs, u
<1>1. n \notin 1..d
  BY <1>0 DEF NoExec
<1> HIDE DEF d
<1>2. n - d \in 1..Len(t) /\ u[n] = t[n - d]
  BY <1>0, <1>1
<1>3. PICK m \in 1..Len(t) :
         /\ m < n - d /\ Produces(t[m], t[n - d].f)
         /\ \A k \in 1..Len(t) : m < k /\ k < n - d => Passes(t[k], t[n - d].f)
         /\ \E k \in 1..Len(t) : m < k /\ k < n - d /\ t[k].op = "check"
  BY <1>2 DEF Runs
<1>4. PICK c \in 1..Len(t) : m < c /\ c < n - d /\ t[c].op = "check"
  BY <1>3
<1>5. m + d \in 1..Len(u) /\ m + d < n /\ Produces(u[m + d], u[n].f)
  <2>1. u[m + d] = t[m] /\ m + d \in 1..Len(u)
    BY <1>0
  <2>2. m + d < n
    <3>1. d \in Nat /\ m \in Nat /\ n \in Nat /\ m < n - d
      BY <1>0, <1>3
    <3> QED
      BY <3>1
  <2> QED
    BY <1>2, <1>3, <2>1, <2>2
<1>6. c + d \in 1..Len(u) /\ m + d < c + d /\ c + d < n /\ u[c + d].op = "check"
  BY <1>0, <1>4
<1>7. ASSUME NEW k \in 1..Len(u), m + d < k, k < n PROVE Passes(u[k], u[n].f)
  <2>1. k \notin 1..d /\ m < k - d /\ k - d < n - d
    BY <1>0, <1>7
  <2>2. k - d \in 1..Len(t) /\ u[k] = t[k - d]
    BY <1>0, <2>1
  <2> QED
    BY <1>2, <1>3, <2>1, <2>2
<1> QED
  BY <1>5, <1>6, <1>7

LEMMA RunsMade ==
    ASSUME NEW S, NEW b \in Seq(S), NEW t \in Seq(S), NEW f,
           Made(b, f), NoExec(b), Len(b) >= 1, b[Len(b)].op = "check",
           Len(t) >= 1, t[1].f = f, \A n \in 1..Len(t) : n > 1 => t[n].op # "exec"
    PROVE  Runs(b \o t)
<1> DEFINE u == b \o t
           d == Len(b)
<1>0. /\ Len(u) = d + Len(t) /\ d \in Nat /\ Len(t) \in Nat
      /\ \A n \in 1..d : n \in 1..Len(u) /\ u[n] = b[n]
      /\ \A n \in 1..Len(u) : n \notin 1..d => n - d \in 1..Len(t) /\ u[n] = t[n - d]
  <2>1. b \in Seq(S) /\ t \in Seq(S)
    OBVIOUS
  <2> QED
    BY ONLY <2>1, Joined DEF u, d
<1>1. d >= 1 /\ b[d].op = "check"
  OBVIOUS
<1> HIDE DEF u
<1> SUFFICES ASSUME NEW n \in 1..Len(u), u[n].op = "exec"
             PROVE  \E m \in 1..Len(u) :
                       /\ m < n /\ Produces(u[m], u[n].f)
                       /\ \A k \in 1..Len(u) : m < k /\ k < n => Passes(u[k], u[n].f)
                       /\ \E k \in 1..Len(u) : m < k /\ k < n /\ u[k].op = "check"
  BY DEF Runs, u
<1>2. n \notin 1..d
  BY <1>0 DEF NoExec
<1>3. PICK m \in 1..d : Produces(b[m], f) /\ \A k \in 1..d : k > m => Passes(b[k], f)
  BY DEF Made
<1> HIDE DEF d
<1>4. n - d \in 1..Len(t) /\ u[n] = t[n - d]
  BY <1>0, <1>2
<1>5. n - d = 1
  BY <1>0, <1>4
<1>6. u[n].f = f /\ n = d + 1
  BY <1>0, <1>4, <1>5
<1>7. m # d
  BY <1>1, <1>3 DEF Produces
<1>8. m \in 1..Len(u) /\ m < n /\ Produces(u[m], u[n].f)
  <2>1. m \in 1..Len(u) /\ m < n
    BY <1>0, <1>6
  <2> QED
    BY <1>0, <1>3, <1>6, <2>1
<1>9. d \in 1..Len(u) /\ m < d /\ d < n /\ u[d].op = "check"
  BY <1>0, <1>1, <1>6, <1>7
<1>10. ASSUME NEW k \in 1..Len(u), m < k, k < n PROVE Passes(u[k], u[n].f)
  <2>1. k \in 1..d
    BY <1>0, <1>6, <1>10
  <2> QED
    BY <1>0, <1>3, <1>6, <1>10, <2>1
<1> QED
  BY <1>8, <1>9, <1>10

\* What a call may leave.
Allowed(q, i) == IF q.tmpout THEN {} ELSE {Path(Out[i])}

LEMMA RunSound ==
    ASSUME NEW i, NEW q \in Requests, NEW b, Checked(b),
           Makes(b, i, {Path(OutPath(q, i))}, Path(OutPath(q, i)))
    PROVE  /\ Sound(b \o RunOps(q, OutPath(q, i)), i, Allowed(q, i))
           /\ Runs(b \o RunOps(q, OutPath(q, i)))
<1> DEFINE o == OutPath(q, i)
           f == Path(o)
<1>1. o \in {i, ".a.out", Out[i]} /\ f \in Built(i)
  <2>1. o \in {i, ".a.out", Out[i]}
    BY DEF OutPath
  <2> QED
    BY <2>1, BuiltPaths
<1>2. q.tmpout => q.run
  BY RequestsAssumption
<1>3. ~q.tmpout => Allowed(q, i) = {f}
  BY DEF Allowed, OutPath
<1>4. q.tmpout => Allowed(q, i) = {}
  BY DEF Allowed
<1>5. b \in Seq(OpSet(i)) /\ Sound(b, i, {f}) /\ NoExec(b) /\ Made(b, f)
  BY DEF Makes, Good, Sound
<1>6. Len(b) >= 1 /\ b[Len(b)].op = "check"
  BY DEF Checked
<1>7. Sound(Op("exec", f), i, {f}) /\ Sound(Op("exec", f), i, {})
  BY <1>1, SoundOp DEF Single, BuildNames, Makers
<1> HIDE DEF f, o
<1>8. CASE ~q.run
  <2>1. RunOps(q, o) = <<>>
    BY <1>8 DEF RunOps
  <2>2. b \o RunOps(q, o) = b
    BY <1>5, <2>1, ConcatEmptySeq
  <2>3. Runs(b)
    BY <1>5 DEF Runs, NoExec
  <2> QED
    BY <1>2, <1>3, <1>5, <1>8, <2>2, <2>3 DEF o
<1>9. CASE q.run /\ ~q.tmpout
  <2>1. Op("exec", f) \in Seq(OpSet(i))
    BY <1>7 DEF Sound
  <2>2. RunOps(q, o) = Op("exec", f) \o <<>>
    BY <1>9 DEF RunOps, f
  <2>3. RunOps(q, o) = Op("exec", f)
    BY <2>1, <2>2, ConcatEmptySeq
  <2>4. Sound(b \o Op("exec", f), i, {f})
    BY <1>5, <1>7, SoundJoined
  <2>5. Runs(b \o Op("exec", f))
    <3> DEFINE t == Op("exec", f)
    <3>1. t \in Seq(OpSet(i)) /\ Len(t) = 1 /\ t[1].f = f
      BY <2>1, OpOne
    <3> HIDE DEF t
    <3>2. Len(t) >= 1 /\ \A n \in 1..Len(t) : n > 1 => t[n].op # "exec"
      BY <3>1
    <3>3. Runs(b \o t)
      BY <1>5, <1>6, <3>1, <3>2, RunsMade
    <3> QED
      BY <3>3 DEF t
  <2> QED
    BY <1>3, <1>9, <2>3, <2>4, <2>5 DEF o
<1>10. CASE q.tmpout
  <2> DEFINE t == Op("exec", f) \o Op("drop", f)
  <2>1. Sound(Op("drop", f), i, {})
    BY <1>1, SoundOp, SingleNames DEF Good
  <2>2. RunOps(q, o) = t
    BY <1>2, <1>10 DEF RunOps, f
  <2>3. Sound(t, i, {})
    BY <1>7, <2>1, SoundJoined
  <2>4. /\ t \in Seq(OpSet(i)) /\ Len(t) = Len(Op("exec", f)) + Len(Op("drop", f))
        /\ \A n \in 1..Len(Op("exec", f)) : t[n] = Op("exec", f)[n]
        /\ \A n \in 1..Len(Op("drop", f)) : t[n + Len(Op("exec", f))] = Op("drop", f)[n]
    BY <1>7, <2>1, Joined DEF Sound
  <2> HIDE DEF t
  <2>5. t[1 + 1] = Op("drop", f)[1]
    BY <2>4, OpOne
  <2>6. Len(t) = 2 /\ t[1].f = f /\ t[2].op = "drop" /\ t[2].f = f
    BY <2>4, <2>5, OpOne
  <2>7. 2 \in 1..Len(t) /\ Len(t) >= 1
    BY <2>6
  <2>8. Sound(b \o t, i, {})
    BY <1>5, <2>3, <2>6, <2>7, SoundJoined
  <2>9. \A n \in 1..Len(t) : n > 1 => t[n].op # "exec"
    <3>1. \A n \in 1..Len(t) : n > 1 => n = 2
      BY <2>6
    <3> QED
      BY <2>6, <3>1
  <2>10. Runs(b \o t)
    BY <1>5, <1>6, <2>4, <2>6, <2>7, <2>9, RunsMade
  <2> QED
    BY <1>4, <1>10, <2>2, <2>8, <2>10 DEF o
<1> QED
  BY <1>8, <1>9, <1>10

Body(q, i) == LET o == OutPath(q, i) IN
    CASE q.mode = "emit"    -> Op("emit", Path(o))
      [] q.mode = "fmt"     -> fmt_main(TRUE)
      [] q.mode = "fmtshow" -> fmt_main(FALSE)
      [] q.mode = "archive" -> ArchiveOps(q, o)
      [] q.mode = "object"  -> build_source(q, o, Path(o), TRUE)
      [] q.mode = "link"    -> LinkOps(q, o) \o RunOps(q, o)
      [] q.mode = "build"   -> build_source(q, o, Path(o), FALSE) \o RunOps(q, o)

LEMMA GoodIsSound ==
    ASSUME NEW s, NEW i, NEW A, NEW B, Good(s, i, A), A \subseteq B
    PROVE  Sound(s, i, B) /\ Runs(s)
BY GoodMore DEF Good, Runs, NoExec

LEMMA BodySound ==
    ASSUME NEW i, NEW q \in Requests
    PROVE  /\ Sound(Body(q, i), i, Allowed(q, i)) /\ Runs(Body(q, i))
           /\ q.mode = "fmt" => FmtShape(Body(q, i))
<1> DEFINE o == OutPath(q, i)
<1>1. q.mode \in {"emit", "archive", "object", "build", "link", "fmt", "fmtshow"}
  BY RequestsAssumption
<1>2. o \in {i, ".a.out", Out[i]}
  BY DEF OutPath
<1>3. q.mode \notin {"build", "link"} => Allowed(q, i) = {Path(o)}
  BY RequestsAssumption DEF Allowed, OutPath
<1>4. Path(o) \in Built(i)
  BY <1>2, BuiltPaths
<1> HIDE DEF o
<1>5. CASE q.mode = "emit"
  <2>1. Good(Op("emit", Path(o)), i, {Path(o)})
    BY <1>4, SoundOp, SingleNames
  <2>2. Body(q, i) = Op("emit", Path(o))
    BY <1>5 DEF Body, o
  <2> QED
    BY <1>3, <1>5, <2>1, <2>2, GoodIsSound
<1>6. CASE q.mode = "fmt"
  <2>1. Body(q, i) = fmt_main(TRUE)
    BY <1>6 DEF Body, o
  <2> QED
    <3>1. Good(fmt_main(TRUE), i, {}) /\ FmtShape(fmt_main(TRUE))
      BY FmtWriteGood
    <3>2. Sound(fmt_main(TRUE), i, Allowed(q, i)) /\ Runs(fmt_main(TRUE))
      <4> DEFINE s == fmt_main(TRUE)
      <4>1. Good(s, i, {}) /\ {} \subseteq Allowed(q, i)
        BY <3>1
      <4> HIDE DEF s
      <4>2. Sound(s, i, Allowed(q, i)) /\ Runs(s)
        BY <4>1, GoodIsSound
      <4> QED
        BY <4>2 DEF s
    <3> QED
      BY <2>1, <3>1, <3>2
<1>7. CASE q.mode = "fmtshow"
  <2>1. Body(q, i) = fmt_main(FALSE)
    BY <1>7 DEF Body, o
  <2> QED
    <3>1. Good(fmt_main(FALSE), i, {})
      BY FmtShowGood
    <3>2. Sound(fmt_main(FALSE), i, Allowed(q, i)) /\ Runs(fmt_main(FALSE))
      <4> DEFINE s == fmt_main(FALSE)
      <4>1. Good(s, i, {}) /\ {} \subseteq Allowed(q, i)
        BY <3>1
      <4> HIDE DEF s
      <4>2. Sound(s, i, Allowed(q, i)) /\ Runs(s)
        BY <4>1, GoodIsSound
      <4> QED
        BY <4>2 DEF s
    <3> QED
      BY <1>7, <2>1, <3>1, <3>2
<1>8. CASE q.mode = "archive"
  <2>1. Body(q, i) = ArchiveOps(q, o)
    BY <1>8 DEF Body, o
  <2> QED
    <3>1. Good(ArchiveOps(q, o), i, {Path(o)})
      BY <1>2, ArchiveGood
    <3>2. Sound(ArchiveOps(q, o), i, Allowed(q, i)) /\ Runs(ArchiveOps(q, o))
      BY <1>3, <1>8, <3>1, GoodIsSound
    <3> QED
      BY <1>8, <2>1, <3>1, <3>2
<1>9. CASE q.mode = "object"
  <2>1. Body(q, i) = build_source(q, o, Path(o), TRUE)
    BY <1>9 DEF Body, o
  <2>2. Good(build_source(q, o, Path(o), TRUE), i, {Path(o)})
    BY <1>2, SourceMakes DEF Makes
  <2> QED
    BY <1>3, <1>9, <2>1, <2>2, GoodIsSound
<1>10. CASE q.mode = "link"
  <2>1. Body(q, i) = LinkOps(q, o) \o RunOps(q, o)
    BY <1>10 DEF Body, o
  <2>2. Makes(LinkOps(q, o), i, {Path(o)}, Path(o)) /\ Checked(LinkOps(q, o))
    BY <1>2, LinkMakes
  <2> QED
    BY <1>10, <2>1, <2>2, RunSound DEF o
<1>11. CASE q.mode = "build"
  <2> DEFINE no == FALSE
             b == build_source(q, o, Path(o), no)
  <2>1. Body(q, i) = b \o RunOps(q, o)
    BY <1>11 DEF Body, o
  <2>2. no \in BOOLEAN
    OBVIOUS
  <2> HIDE DEF no
  <2>3. Makes(b, i, {Path(o)}, Path(o)) /\ Checked(b)
    BY <1>2, <2>2, SourceMakes
  <2> HIDE DEF b
  <2> QED
    BY <1>11, <2>1, <2>3, RunSound DEF o
<1> QED
  BY <1>1, <1>5, <1>6, <1>7, <1>8, <1>9, <1>10, <1>11

LEMMA FmtShapeBehind ==
    ASSUME NEW i, NEW s \in Seq(OpSet(i)), NEW t \in Seq(OpSet(i)), NoExec(s),
           \A n \in 1..Len(s) : s[n].op # "format", FmtShape(t)
    PROVE  FmtShape(s \o t)
<1> DEFINE u == s \o t
           d == Len(s)
<1>0. /\ Len(u) = d + Len(t) /\ d \in Nat /\ Len(t) \in Nat
      /\ \A n \in 1..d : n \in 1..Len(u) /\ u[n] = s[n]
      /\ \A n \in 1..Len(t) : n + d \in 1..Len(u) /\ u[n + d] = t[n]
      /\ \A n \in 1..Len(u) : n \notin 1..d => n - d \in 1..Len(t) /\ u[n] = t[n - d]
  BY Joined
<1>1. NoExec(u)
  BY NoExecJoined DEF FmtShape
<1> HIDE DEF u
<1>2. ASSUME NEW n \in 1..Len(u), u[n].op = "format"
      PROVE  /\ n + 3 <= Len(u)
             /\ u[n + 1].op = "fopen" /\ u[n + 2].op = "fwrite" /\ u[n + 3].op = "rename"
  <2>1. n \notin 1..d
    BY <1>0, <1>2
  <2> HIDE DEF d
  <2> DEFINE m == n - d
  <2>2. m \in 1..Len(t) /\ u[n] = t[m]
    BY <1>0, <2>1
  <2>3. m + 3 <= Len(t) /\ t[m + 1].op = "fopen" /\ t[m + 2].op = "fwrite" /\ t[m + 3].op = "rename"
    BY <1>2, <2>2 DEF FmtShape
  <2>4. m + 1 \in 1..Len(t) /\ m + 2 \in 1..Len(t) /\ m + 3 \in 1..Len(t)
    BY <1>0, <2>2, <2>3
  <2>5. (m + 1) + d = n + 1 /\ (m + 2) + d = n + 2 /\ (m + 3) + d = n + 3
    BY <1>0
  <2>6. n + 3 <= Len(u)
    BY <1>0, <2>3
  <2> HIDE DEF m
  <2> QED
    BY <1>0, <2>3, <2>4, <2>5, <2>6
<1> QED
  BY <1>1, <1>2 DEF FmtShape, u

NoFormat(s) == \A n \in 1..Len(s) : s[n].op # "format"

LEMMA ParseNoFormat ==
    ASSUME NEW i, NEW q
    PROVE  NoFormat(ParseOps(q, i))
<1>1. ASSUME NEW s \in Seq(OpSet(i)), NEW t \in Seq(OpSet(i)), NoFormat(s), NoFormat(t)
      PROVE  NoFormat(s \o t)
  BY <1>1, Joined DEF NoFormat
<1> DEFINE c == Temp(i, "block.c")
           so == Temp(i, "block.so")
           dir == Temp(i, "exe")
<1>2. ASSUME NEW o \in BuildNames, NEW f \in Built(i)
      PROVE  Op(o, f) \in Seq(OpSet(i)) /\ NoFormat(Op(o, f))
  <2>1. [op |-> o, f |-> f] \in OpSet(i)
    BY DEF OpSet
  <2>2. Op(o, f) \in Seq(OpSet(i))
    BY <2>1 DEF Op
  <2>3. o # "format"
    BY DEF BuildNames, Makers
  <2> QED
    BY <2>2, <2>3, OpOne DEF NoFormat
<1>3. Op("parse", i) \in Seq(OpSet(i)) /\ NoFormat(Op("parse", i))
  <2>1. Sound(Op("parse", i), i, {})
    BY SoundOp DEF Makers
  <2>2. \A n \in 1..Len(Op("parse", i)) : n = 1
    BY OpOne
  <2> QED
    BY <2>1, <2>2, OpOne DEF NoFormat, Sound
<1>4. c \in Built(i) /\ so \in Built(i) /\ dir \in Built(i)
  BY BuiltPaths DEF Words
<1>5. {"mkdtemp", "emit", "cmd", "check", "load", "unload", "drop"} \subseteq BuildNames
  BY DEF BuildNames, Makers
<1> HIDE DEF c, so, dir
<1> DEFINE e0 == Op("mkdtemp", dir) \o Op("emit", c)
           e1 == e0 \o Op("cmd", so)
           e2 == e1 \o Op("check", so)
           e3 == e2 \o Op("load", so)
           e4 == e3 \o Op("unload", so)
           e5 == e4 \o Op("drop", c)
           e6 == e5 \o Op("drop", so)
           e7 == e6 \o Op("drop", dir)
<1>0. e0 \in Seq(OpSet(i)) /\ NoFormat(e0) BY <1>1, <1>2, <1>4, <1>5, Joined
<1> HIDE DEF e0
<1>6. e1 \in Seq(OpSet(i)) /\ NoFormat(e1) BY <1>0, <1>1, <1>2, <1>4, <1>5, Joined
<1> HIDE DEF e1
<1>7. e2 \in Seq(OpSet(i)) /\ NoFormat(e2) BY <1>1, <1>2, <1>4, <1>5, <1>6, Joined
<1> HIDE DEF e2
<1>8. e3 \in Seq(OpSet(i)) /\ NoFormat(e3) BY <1>1, <1>2, <1>4, <1>5, <1>7, Joined
<1> HIDE DEF e3
<1>9. e4 \in Seq(OpSet(i)) /\ NoFormat(e4) BY <1>1, <1>2, <1>4, <1>5, <1>8, Joined
<1> HIDE DEF e4
<1>10. e5 \in Seq(OpSet(i)) /\ NoFormat(e5) BY <1>1, <1>2, <1>4, <1>5, <1>9, Joined
<1> HIDE DEF e5
<1>11. e6 \in Seq(OpSet(i)) /\ NoFormat(e6) BY <1>1, <1>2, <1>4, <1>5, <1>10, Joined
<1> HIDE DEF e6
<1>16. e7 \in Seq(OpSet(i)) /\ NoFormat(e7) BY <1>1, <1>2, <1>4, <1>5, <1>11, Joined
<1>12. ExeOps(i) = e7
  BY DEF ExeOps, e0, e1, e2, e3, e4, e5, e6, e7, c, so, dir
<1> HIDE DEF e7
<1> DEFINE p == Op("parse", i) \o ExeOps(i)
<1>13. p \in Seq(OpSet(i)) /\ NoFormat(p)
  BY <1>1, <1>3, <1>12, <1>16, Joined
<1> HIDE DEF p
<1>14. NoFormat(p \o Op("parse", i))
  BY <1>1, <1>3, <1>13
<1>15. NoFormat(<<>>)
  BY DEF NoFormat
<1> QED
  BY <1>3, <1>14, <1>15 DEF ParseOps, p

\* Every plan is sound: what it opens it closes, what it makes it drops but
\* for its output, what it runs it has made; fmt's steps are side by side.
LEMMA PlanSound ==
    ASSUME NEW i, NEW q \in Requests
    PROVE  /\ Sound(Plan(q, i), i, Allowed(q, i)) /\ Runs(Plan(q, i))
           /\ q.mode = "fmt" => FmtShape(Plan(q, i))
<1>1. Plan(q, i) = ParseOps(q, i) \o Body(q, i)
  BY DEF Plan, Body
<1>2. Good(ParseOps(q, i), i, {})
  BY ParseGood
<1>3. /\ Sound(Body(q, i), i, Allowed(q, i)) /\ Runs(Body(q, i))
      /\ q.mode = "fmt" => FmtShape(Body(q, i))
  BY BodySound
<1>4. Sound(ParseOps(q, i) \o Body(q, i), i, Allowed(q, i))
  BY <1>2, <1>3, SoundJoined DEF Good
<1>5. ParseOps(q, i) \in Seq(OpSet(i)) /\ Body(q, i) \in Seq(OpSet(i)) /\ NoExec(ParseOps(q, i))
  BY <1>2, <1>3 DEF Good, Sound
<1>6. Runs(ParseOps(q, i) \o Body(q, i))
  BY <1>3, <1>5, RunsBehind
<1>7. q.mode = "fmt" => FmtShape(ParseOps(q, i) \o Body(q, i))
  BY <1>3, <1>5, ParseNoFormat, FmtShapeBehind DEF NoFormat
<1> QED
  BY <1>1, <1>4, <1>6, <1>7

-----------------------------------------------------------------------------
(* Steps taken off the front of a plan keep what is known of the rest. *)

Off(s, t, k) == Len(t) = Len(s) - k /\ \A n \in 1..Len(t) : t[n] = s[n + k]

LEMMA TailOff ==
    ASSUME NEW S, NEW s \in Seq(S), s # <<>>
    PROVE  /\ Tail(s) \in Seq(S) /\ Off(s, Tail(s), 1) /\ 1 \in 0..Len(s)
           /\ Head(s) = s[1] /\ 1 \in 1..Len(s)
<1>1. /\ Head(s) = s[1] /\ Tail(s) \in Seq(S) /\ Len(Tail(s)) = Len(s) - 1
      /\ \A n \in 1..Len(Tail(s)) : Tail(s)[n] = s[n + 1]
  BY HeadTailProperties
<1>2. 1 \in 0..Len(s) /\ 1 \in 1..Len(s)
  BY EmptySeq
<1> QED
  BY <1>1, <1>2 DEF Off

LEMMA SkipOff ==
    ASSUME NEW S, NEW s \in Seq(S), 4 \in 0..Len(s)
    PROVE  SubSeq(s, 5, Len(s)) \in Seq(S) /\ Off(s, SubSeq(s, 5, Len(s)), 4)
<1> DEFINE t == SubSeq(s, 5, Len(s))
<1>0. Len(s) \in Nat
  OBVIOUS
<1>1. t \in Seq(S)
  <2>1. \A n \in 5..Len(s) : s[n] \in S
    BY <1>0
  <2> QED
    BY <2>1, <1>0, SubSeqProperties
<1>2. Len(t) = Len(s) - 4 /\ \A n \in 1..Len(t) : t[n] = s[n + 4]
  <2>1. 5 \in 1..(Len(s) + 1) /\ Len(s) \in 4..Len(s)
    BY <1>0
  <2>2. /\ Len(t) = IF 5 <= Len(s) THEN Len(s) - 5 + 1 ELSE 0
        /\ \A n \in 1..(Len(s) - 5 + 1) : t[n] = s[5 + n - 1]
    BY <1>0, <2>1, SubSeqProperties
  <2> HIDE DEF t
  <2>3. Len(t) = Len(s) - 4 /\ Len(s) - 5 + 1 = Len(s) - 4
    <3>1. Len(s) >= 4
      BY <1>0
    <3>2. CASE 5 <= Len(s)
      BY <1>0, <2>2, <3>2
    <3>3. CASE ~(5 <= Len(s))
      <4>1. Len(s) = 4
        <5> DEFINE N == Len(s)
        <5>1. N \in Nat /\ N >= 4 /\ ~(5 <= N)
          BY <1>0, <3>1, <3>3
        <5> HIDE DEF N
        <5>2. N = 4
          BY ONLY <5>1
        <5> QED
          BY <5>2 DEF N
      <4> QED
        BY <2>2, <3>3, <4>1
    <3> QED
      BY <3>2, <3>3
  <2>4. \A n \in 1..Len(t) : 5 + n - 1 = n + 4
    BY <1>0, <2>3
  <2> QED
    BY <2>2, <2>3, <2>4
<1> QED
  BY <1>1, <1>2 DEF Off

LEMMA SuffixOff ==
    ASSUME NEW S, NEW s \in Seq(S), NEW t \in Seq(S), NEW k \in 0..Len(s), Off(s, t, k), Suffix(s)
    PROVE  Suffix(t)
<1>0. Len(s) \in Nat /\ Len(t) \in Nat /\ k \in Nat /\ Len(t) = Len(s) - k
  BY DEF Off
<1> SUFFICES ASSUME NEW n \in 1..Len(t)
             PROVE  /\ t[n].op = "load" => n < Len(t) /\ t[n + 1].op = "unload" /\ t[n + 1].f = t[n].f
                    /\ t[n].op = "fopen" => n < Len(t) /\ t[n + 1].op = "fwrite" /\ t[n + 1].f = t[n].f
                    /\ t[n].op = "fwrite" => n < Len(t) /\ t[n + 1].op = "rename" /\ t[n + 1].f = t[n].f
                    /\ t[n].op = "unload" /\ n > 1 => t[n - 1].op = "load"
                    /\ t[n].op = "fwrite" /\ n > 1 => t[n - 1].op = "fopen"
                    /\ t[n].op = "rename" /\ n > 1 => t[n - 1].op = "fwrite"
  BY DEF Suffix
<1> DEFINE m == n + k
<1>1. m \in 1..Len(s) /\ t[n] = s[m] /\ (n < Len(t) <=> m < Len(s)) /\ (n > 1 => m > 1)
  BY <1>0 DEF Off
<1>2. n < Len(t) => t[n + 1] = s[m + 1]
  <2>1. n < Len(t) => n + 1 \in 1..Len(t) /\ (n + 1) + k = m + 1
    BY <1>0
  <2> QED
    BY <2>1 DEF Off
<1>3. n > 1 => t[n - 1] = s[m - 1]
  <2>1. n > 1 => n - 1 \in 1..Len(t) /\ (n - 1) + k = m - 1
    BY <1>0
  <2> QED
    BY <2>1 DEF Off
<1> HIDE DEF m
<1> QED
  BY <1>1, <1>2, <1>3 DEF Suffix

LEMMA FmtShapeOff ==
    ASSUME NEW S, NEW s \in Seq(S), NEW t \in Seq(S), NEW k \in 0..Len(s), Off(s, t, k), FmtShape(s)
    PROVE  FmtShape(t)
<1>0. Len(s) \in Nat /\ Len(t) \in Nat /\ k \in Nat /\ Len(t) = Len(s) - k
  BY DEF Off
<1>1. \A n \in 1..Len(t) : n + k \in 1..Len(s) /\ t[n] = s[n + k]
  BY <1>0 DEF Off
<1>2. NoExec(t)
  BY <1>1 DEF NoExec, FmtShape
<1>3. ASSUME NEW n \in 1..Len(t), t[n].op = "format"
      PROVE  /\ n + 3 <= Len(t)
             /\ t[n + 1].op = "fopen" /\ t[n + 2].op = "fwrite" /\ t[n + 3].op = "rename"
  <2> DEFINE m == n + k
  <2>1. m \in 1..Len(s) /\ s[m].op = "format"
    BY <1>1, <1>3
  <2>2. m + 3 <= Len(s) /\ s[m + 1].op = "fopen" /\ s[m + 2].op = "fwrite" /\ s[m + 3].op = "rename"
    <3> HIDE DEF m
    <3> QED BY <2>1 DEF FmtShape
  <2>3. n + 3 <= Len(t)
    BY <1>0, <2>2
  <2>4. n + 1 \in 1..Len(t) /\ n + 2 \in 1..Len(t) /\ n + 3 \in 1..Len(t)
    BY <1>0, <2>3
  <2>5. (n + 1) + k = m + 1 /\ (n + 2) + k = m + 2 /\ (n + 3) + k = m + 3
    BY <1>0
  <2>6. t[n + 1] = s[m + 1] /\ t[n + 2] = s[m + 2] /\ t[n + 3] = s[m + 3]
    <3> HIDE DEF m
    <3> QED BY <1>1, <2>4, <2>5
  <2> QED
    BY <2>2, <2>3, <2>6
<1> QED
  BY <1>2, <1>3 DEF FmtShape

\* What the first step says of the second.
LEMMA Behind ==
    ASSUME NEW S, NEW s \in Seq(S), s # <<>>, Suffix(s)
    PROVE  /\ Head(s).op = "load" => Tail(s) # <<>> /\ Head(Tail(s)).op = "unload" /\ Head(Tail(s)).f = Head(s).f
           /\ Head(s).op = "fopen" => Tail(s) # <<>> /\ Head(Tail(s)).op = "fwrite" /\ Head(Tail(s)).f = Head(s).f
           /\ Head(s).op = "fwrite" => Tail(s) # <<>> /\ Head(Tail(s)).op = "rename" /\ Head(Tail(s)).f = Head(s).f
           /\ Tail(s) # <<>> => /\ Head(Tail(s)).op = "unload" => Head(s).op = "load"
                                /\ Head(Tail(s)).op = "fwrite" => Head(s).op = "fopen"
                                /\ Head(Tail(s)).op = "rename" => Head(s).op = "fwrite"
<1> DEFINE t == Tail(s)
<1>1. t \in Seq(S) /\ Len(t) = Len(s) - 1 /\ Head(s) = s[1] /\ 1 \in 1..Len(s) /\ Len(s) \in Nat
  BY TailOff DEF Off
<1>2. \A n \in 1..Len(t) : t[n] = s[n + 1]
  BY TailOff DEF Off
<1> HIDE DEF t
<1>3. 1 < Len(s) => t # <<>>
  BY <1>1
<1>4. t # <<>> => Head(t) = t[1] /\ 1 \in 1..Len(t)
  BY <1>1, TailOff
<1>5. t # <<>> => Head(t) = s[2] /\ 2 \in 1..Len(s)
  <2>1. t # <<>> => t[1] = s[1 + 1]
    BY <1>2, <1>4
  <2> QED
    BY <1>1, <1>4, <2>1
<1>6. /\ s[1].op = "load" => 1 < Len(s) /\ s[1 + 1].op = "unload" /\ s[1 + 1].f = s[1].f
      /\ s[1].op = "fopen" => 1 < Len(s) /\ s[1 + 1].op = "fwrite" /\ s[1 + 1].f = s[1].f
      /\ s[1].op = "fwrite" => 1 < Len(s) /\ s[1 + 1].op = "rename" /\ s[1 + 1].f = s[1].f
  BY <1>1 DEF Suffix
<1>7. 2 \in 1..Len(s) => /\ s[2].op = "unload" => s[2 - 1].op = "load"
                         /\ s[2].op = "fwrite" => s[2 - 1].op = "fopen"
                         /\ s[2].op = "rename" => s[2 - 1].op = "fwrite"
  BY DEF Suffix
<1>8. 1 + 1 = 2 /\ 2 - 1 = 1
  OBVIOUS
<1> QED
  BY <1>1, <1>3, <1>5, <1>6, <1>7, <1>8 DEF t

-----------------------------------------------------------------------------
(* What every instance keeps, whatever the others do: the types, a plan    *)
(* that is the rest of a sound one, and the handles its step says are open.*)

Functions ==
    /\ DOMAIN pc = Instances /\ DOMAIN req = Instances /\ DOMAIN ops = Instances
    /\ DOMAIN r = Instances /\ DOMAIN res = Instances /\ DOMAIN cleanups = Instances
    /\ DOMAIN held = Instances /\ DOMAIN saved = Instances /\ DOMAIN calls = Instances
    /\ DOMAIN before = Instances /\ DOMAIN stuck = Instances

\* A step of one instance leaves the others' part of the state alone.
Frame(i) ==
    \A j \in Instances : j # i =>
       /\ pc'[j] = pc[j] /\ req'[j] = req[j] /\ ops'[j] = ops[j] /\ r'[j] = r[j] /\ res'[j] = res[j]
       /\ cleanups'[j] = cleanups[j] /\ held'[j] = held[j] /\ saved'[j] = saved[j]
       /\ calls'[j] = calls[j] /\ before'[j] = before[j] /\ stuck'[j] = stuck[j]

LEMMA StepFrame ==
    ASSUME Functions, NEW i \in Instances, InstanceStep(i)
    PROVE  Functions' /\ Frame(i) /\ host' = host /\ killed' = killed
<1> USE DEF Functions, Frame, Set, history
<1>1. CASE Start(i) BY <1>1 DEF Start
<1>2. CASE Parse(i) BY <1>2 DEF Parse, halt, Done
<1>3. CASE Open(i) BY <1>3 DEF Open, halt, cleanup_push
<1>4. CASE Close(i) BY <1>4 DEF Close, cleanup_pop, Done
<1>5. CASE Copy(i) BY <1>5 DEF Copy, halt, Done
<1>6. CASE Load(i) BY <1>6 DEF Load, halt, cleanup_push, Done
<1>7. CASE Unload(i) BY <1>7 DEF Unload, halt, cleanup_pop, Done
<1>8. CASE FmtRead(i) BY <1>8 DEF FmtRead, halt, Done
<1>9. CASE FmtOpen(i) BY <1>9 DEF FmtOpen, halt, Done
<1>10. CASE FmtWrite(i) BY <1>10 DEF FmtWrite, Done
<1>11. CASE FmtRename(i) BY <1>11 DEF FmtRename, halt, Done
<1>12. CASE Unlink(i) BY <1>12 DEF Unlink, Done
<1>13. CASE Check(i) BY <1>13 DEF Check, halt, Done
<1>14. CASE SkipCmd(i) BY <1>14 DEF SkipCmd, Done
<1>15. CASE Ignore(i) BY <1>15 DEF Ignore
<1>16. CASE SpawnFails(i) BY <1>16 DEF SpawnFails, halt
<1>17. CASE Spawn(i) BY <1>17 DEF Spawn
<1>18. CASE Reap(i) BY <1>18 DEF Reap
<1>19. CASE WaitFails(i) BY <1>19 DEF WaitFails, halt
<1>20. CASE Restore(i) BY <1>20 DEF Restore, Done
<1>21. CASE Finish(i) BY <1>21 DEF Finish
<1> QED
  BY <1>1, <1>2, <1>3, <1>4, <1>5, <1>6, <1>7, <1>8, <1>9, <1>10, <1>11, <1>12, <1>13, <1>14, <1>15, <1>16, <1>17, <1>18, <1>19, <1>20, <1>21 DEF InstanceStep

InstanceTypes(i) ==
    /\ pc[i] \in {"idle", "op", "ignored", "child", "reaped"}
    /\ req[i] \in Requests
    /\ r[i] \in {0, 1}
    /\ res[i] \in {"none", "ok", "fail"}
    /\ saved[i] \in Dispositions \cup {"unset"}
    /\ InCmd(i) => saved[i] \in Dispositions
    /\ calls[i] \in 0..MaxCalls

\* The rest of a plan; inside run_cmd it begins with a command.
PlanLeft(i) ==
    /\ ops[i] \in Seq(OpSet(i)) /\ Suffix(ops[i])
    /\ req[i].mode = "fmt" => FmtShape(ops[i])
    /\ pc[i] = "idle" => ops[i] = <<>>
    /\ InCmd(i) => ops[i] # <<>> /\ Cur(i).op \in {"cmd", "cmdok", "exec"}

\* What is open: nothing, unless a file is being written or a block runs.
Handles(i) ==
    \/ /\ held[i] = {} /\ cleanups[i] = <<>>
       /\ ops[i] # <<>> => Cur(i).op \notin {"unload", "fwrite"}
    \/ /\ pc[i] = "op" /\ ops[i] # <<>> /\ Cur(i).op \in {"emit", "unload"}
       /\ held[i] = {Cur(i).f} /\ cleanups[i] = <<Cur(i).f>>
    \/ /\ pc[i] = "op" /\ ops[i] # <<>> /\ Cur(i).op = "fwrite"
       /\ held[i] = {FmtTmp(Cur(i).f)} /\ cleanups[i] = <<>>

Instance(i) == InstanceTypes(i) /\ PlanLeft(i) /\ Handles(i)

DriverInv == /\ Functions /\ sigint \in Dispositions /\ killed \in BOOLEAN
             /\ \A i \in Instances : Instance(i)

\* The effects a step has on its instance.
Begins(i) == /\ pc[i] = "idle" /\ pc'[i] = "op"
             /\ req'[i] \in Requests /\ ops'[i] = Plan(req'[i], i)
             /\ held'[i] = held[i] /\ cleanups'[i] = cleanups[i]
Ends(i) == /\ pc[i] # "idle" /\ pc'[i] = "idle" /\ ops'[i] = <<>>
           /\ held'[i] = {} /\ cleanups'[i] = <<>> /\ req'[i] = req[i]
Goes(i) == /\ pc[i] # "idle" /\ ops[i] # <<>> /\ pc'[i] = "op" /\ ops'[i] = Tail(ops[i]) /\ req'[i] = req[i]
           /\ CASE Cur(i).op = "load" -> held'[i] = {Cur(i).f} /\ cleanups'[i] = <<Cur(i).f>>
                [] Cur(i).op = "fopen" -> held'[i] = {FmtTmp(Cur(i).f)} /\ cleanups'[i] = <<>>
                [] OTHER -> held'[i] = {} /\ cleanups'[i] = <<>>
Writes(i) == /\ pc[i] = "op" /\ ops[i] # <<>> /\ Cur(i).op = "emit" /\ UNCHANGED <<pc, ops, req>>
             /\ held'[i] = {Cur(i).f} /\ cleanups'[i] = <<Cur(i).f>>
Skips(i) == /\ pc[i] = "op" /\ ops[i] # <<>> /\ Cur(i).op = "format" /\ req[i].mode = "fmt"
            /\ ops'[i] = SubSeq(ops[i], 5, Len(ops[i])) /\ UNCHANGED <<pc, req, held, cleanups>>
Commands(i) == /\ pc[i] # "idle" /\ ops[i] # <<>> /\ Cur(i).op \in {"cmd", "cmdok", "exec"}
               /\ pc'[i] \in {"ignored", "child", "reaped"} /\ UNCHANGED <<ops, req, held, cleanups>>

LEMMA HaltEffect ==
    ASSUME DriverInv, NEW i \in Instances, halt(i), req' = req, pc[i] # "idle",
           ops[i] # <<>> => Cur(i).op # "fwrite"
    PROVE  Ends(i)
<1>1. pc'[i] = "idle" /\ ops'[i] = <<>> /\ cleanups'[i] = <<>>
      /\ held'[i] = held[i] \ {cleanups[i][n] : n \in DOMAIN cleanups[i]}
  BY DEF halt, Set, DriverInv, Functions
<1>2. held[i] \ {cleanups[i][n] : n \in DOMAIN cleanups[i]} = {}
  <2>1. CASE held[i] = {}
    BY <2>1
  <2>2. CASE held[i] = {Cur(i).f} /\ cleanups[i] = <<Cur(i).f>>
    <3>1. 1 \in DOMAIN cleanups[i] /\ cleanups[i][1] = Cur(i).f
      BY <2>2
    <3> QED
      BY <2>2, <3>1
  <2> QED
    BY <2>1, <2>2 DEF DriverInv, Instance, Handles
<1> QED
  BY <1>1, <1>2 DEF Ends

\* Pushing on nothing and popping what there is.
LEMMA PushEffect ==
    ASSUME DriverInv, NEW i \in Instances, NEW f, held[i] = {}, cleanups[i] = <<>>, cleanup_push(i, f)
    PROVE  held'[i] = {f} /\ cleanups'[i] = <<f>>
BY DEF cleanup_push, Set, DriverInv, Functions

LEMMA PopEffect ==
    ASSUME DriverInv, NEW i \in Instances, NEW f, held[i] = {f}, cleanups[i] = <<f>>, cleanup_pop(i)
    PROVE  held'[i] = {} /\ cleanups'[i] = <<>>
<1>1. Len(cleanups[i]) = 1 /\ cleanups[i][1] = f
  OBVIOUS
<1>2. SubSeq(cleanups[i], 1, 0) = <<>>
  BY SubSeqEmpty
<1> QED
  BY <1>1, <1>2 DEF cleanup_pop, Set, DriverInv, Functions

LEMMA StepEffect ==
    ASSUME DriverInv, NEW i \in Instances, InstanceStep(i)
    PROVE  Begins(i) \/ Ends(i) \/ Goes(i) \/ Writes(i) \/ Skips(i) \/ Commands(i)
<1>0. Functions /\ InstanceTypes(i) /\ PlanLeft(i) /\ Handles(i)
  BY DEF DriverInv, Instance
<1>1. CASE Start(i)
  BY <1>0, <1>1 DEF Start, Begins, Set, Functions
<1>2. CASE Parse(i)
  <2>1. CASE halt(i)
    BY <1>0, <1>2, <2>1, HaltEffect DEF Parse, At
  <2>2. CASE ~halt(i)
    BY <1>0, <1>2, <2>2 DEF Parse, At, Done, Set, Functions, Handles, Goes
  <2> QED BY <2>1, <2>2
<1>3. CASE Open(i)
  <2>1. CASE halt(i)
    BY <1>0, <1>3, <2>1, HaltEffect DEF Open, At
  <2>2. CASE ~halt(i)
    <3>1. held[i] = {} /\ cleanups[i] = <<>> /\ cleanup_push(i, Cur(i).f)
      BY <1>0, <1>3, <2>2 DEF Open, Handles
    <3>2. held'[i] = {Cur(i).f} /\ cleanups'[i] = <<Cur(i).f>>
      BY <3>1, PushEffect
    <3> QED
      BY <1>3, <2>2, <3>2 DEF Open, At, Writes
  <2> QED BY <2>1, <2>2
<1>4. CASE Close(i)
  <2>1. held[i] = {Cur(i).f} /\ cleanups[i] = <<Cur(i).f>> /\ cleanup_pop(i)
    BY <1>0, <1>4 DEF Close, Handles, At
  <2>2. held'[i] = {} /\ cleanups'[i] = <<>>
    BY <2>1, PopEffect
  <2>3. CASE Done(i)
    BY <1>0, <1>4, <2>2, <2>3 DEF Close, At, Done, Set, Functions, Goes, Ends
  <2>4. CASE ~Done(i)
    BY <1>0, <1>4, <2>2, <2>4 DEF Close, At, Set, Functions, Ends
  <2> QED BY <2>3, <2>4
<1>5. CASE Copy(i)
  <2>1. CASE halt(i)
    BY <1>0, <1>5, <2>1, HaltEffect DEF Copy, At
  <2>2. CASE ~halt(i)
    BY <1>0, <1>5, <2>2 DEF Copy, At, Done, Set, Functions, Handles, Goes
  <2> QED BY <2>1, <2>2
<1>6. CASE Load(i)
  <2>1. CASE halt(i)
    BY <1>0, <1>6, <2>1, HaltEffect DEF Load, At
  <2>2. CASE ~halt(i)
    <3>1. held[i] = {} /\ cleanups[i] = <<>> /\ cleanup_push(i, Cur(i).f)
      BY <1>0, <1>6, <2>2 DEF Load, Handles, At
    <3>2. held'[i] = {Cur(i).f} /\ cleanups'[i] = <<Cur(i).f>>
      BY <3>1, PushEffect
    <3> QED
      BY <1>0, <1>6, <2>2, <3>2 DEF Load, At, Done, Set, Functions, Goes
  <2> QED BY <2>1, <2>2
<1>7. CASE Unload(i)
  <2>1. CASE halt(i)
    BY <1>0, <1>7, <2>1, HaltEffect DEF Unload, At
  <2>2. CASE ~halt(i)
    <3>1. held[i] = {Cur(i).f} /\ cleanups[i] = <<Cur(i).f>> /\ cleanup_pop(i)
      BY <1>0, <1>7, <2>2 DEF Unload, Handles, At
    <3>2. held'[i] = {} /\ cleanups'[i] = <<>>
      BY <3>1, PopEffect
    <3> QED
      BY <1>0, <1>7, <2>2, <3>2 DEF Unload, At, Done, Set, Functions, Goes
  <2> QED BY <2>1, <2>2
<1>8. CASE FmtRead(i)
  <2>1. CASE halt(i)
    BY <1>0, <1>8, <2>1, HaltEffect DEF FmtRead, At
  <2>2. CASE Done(i)
    <3>1. held[i] = {} /\ cleanups[i] = <<>>
      BY <1>0, <1>8 DEF FmtRead, At, Handles
    <3>2. CASE ~halt(i)
      <4>1. held' = held /\ cleanups' = cleanups /\ pc' = pc /\ req' = req
        BY <1>8, <3>2 DEF FmtRead
      <4> QED
        BY <1>0, <1>8, <2>2, <3>1, <4>1 DEF FmtRead, At, Done, Set, Functions, Goes
    <3> QED
      BY <2>1, <3>2
  <2>3. CASE ~halt(i) /\ ~Done(i)
    BY <1>0, <1>8, <2>3 DEF FmtRead, At, Set, Functions, Skips
  <2> QED BY <2>1, <2>2, <2>3
<1>9. CASE FmtOpen(i)
  <2>1. CASE halt(i)
    BY <1>0, <1>9, <2>1, HaltEffect DEF FmtOpen, At
  <2>2. CASE ~halt(i)
    <3>1. held[i] = {} /\ cleanups[i] = <<>>
      BY <1>0, <1>9 DEF FmtOpen, At, Handles
    <3> QED
      BY <1>0, <1>9, <2>2, <3>1 DEF FmtOpen, At, Done, Set, Functions, Goes
  <2> QED BY <2>1, <2>2
<1>10. CASE FmtWrite(i)
  <2>1. held[i] = {FmtTmp(Cur(i).f)} /\ cleanups[i] = <<>>
    BY <1>0, <1>10 DEF FmtWrite, At, Handles
  <2>2. held'[i] = {} /\ cleanups'[i] = <<>>
    BY <1>0, <1>10, <2>1 DEF FmtWrite, Set, Functions
  <2>3. CASE Done(i)
    BY <1>0, <1>10, <2>2, <2>3 DEF FmtWrite, At, Done, Set, Functions, Goes, Ends
  <2>4. CASE ~Done(i)
    BY <1>0, <1>10, <2>2, <2>4 DEF FmtWrite, At, Set, Functions, Ends
  <2> QED BY <2>3, <2>4
<1>11. CASE FmtRename(i)
  <2>1. CASE halt(i)
    BY <1>0, <1>11, <2>1, HaltEffect DEF FmtRename, At
  <2>2. CASE ~halt(i)
    BY <1>0, <1>11, <2>2 DEF FmtRename, At, Done, Set, Functions, Handles, Goes
  <2> QED BY <2>1, <2>2
<1>12. CASE Unlink(i)
  BY <1>0, <1>12 DEF Unlink, At, Done, Set, Functions, Handles, Goes
<1>13. CASE Check(i)
  <2>1. CASE halt(i)
    BY <1>0, <1>13, <2>1, HaltEffect DEF Check, At
  <2>2. CASE ~halt(i)
    BY <1>0, <1>13, <2>2 DEF Check, At, Done, Set, Functions, Handles, Goes
  <2> QED BY <2>1, <2>2
<1>14. CASE SkipCmd(i)
  BY <1>0, <1>14 DEF SkipCmd, At, Done, Set, Functions, Handles, Goes
<1>15. CASE Ignore(i)
  BY <1>0, <1>15 DEF Ignore, At, Set, Functions, Commands
<1>16. CASE SpawnFails(i)
  BY <1>0, <1>16, HaltEffect DEF SpawnFails, PlanLeft, InCmd
<1>17. CASE Spawn(i)
  BY <1>0, <1>17 DEF Spawn, Set, Functions, Commands, PlanLeft, InCmd
<1>18. CASE Reap(i)
  BY <1>0, <1>18 DEF Reap, Set, Functions, Commands, PlanLeft, InCmd
<1>19. CASE WaitFails(i)
  BY <1>0, <1>19, HaltEffect DEF WaitFails, PlanLeft, InCmd
<1>20. CASE Restore(i)
  BY <1>0, <1>20 DEF Restore, Done, Set, Functions, Handles, Goes, PlanLeft, InCmd
<1>21. CASE Finish(i)
  BY <1>0, <1>21 DEF Finish, Set, Functions, Handles, Ends
<1> QED
  BY <1>1, <1>2, <1>3, <1>4, <1>5, <1>6, <1>7, <1>8, <1>9, <1>10, <1>11, <1>12, <1>13, <1>14, <1>15,
     <1>16, <1>17, <1>18, <1>19, <1>20, <1>21 DEF InstanceStep

LEMMA StepTypes ==
    ASSUME DriverInv, NEW i \in Instances, InstanceStep(i)
    PROVE  InstanceTypes(i)' /\ sigint' \in Dispositions /\ killed' \in BOOLEAN
<1>0. Functions /\ InstanceTypes(i) /\ sigint \in Dispositions /\ killed \in BOOLEAN
  BY DEF DriverInv, Instance
<1>a. MaxCalls \in Nat
  BY BoundAssumption
<1> USE DEF Functions, InstanceTypes, InCmd, Set, history
<1>1. CASE Start(i) BY <1>0, <1>a, <1>1 DEF Start, At
<1>2. CASE Parse(i) BY <1>0, <1>a, <1>2 DEF Parse, halt, At
<1>3. CASE Open(i) BY <1>0, <1>a, <1>3 DEF Open, halt, At
<1>4. CASE Close(i) BY <1>0, <1>a, <1>4 DEF Close, At
<1>5. CASE Copy(i) BY <1>0, <1>a, <1>5 DEF Copy, halt, At
<1>6. CASE Load(i) BY <1>0, <1>a, <1>6 DEF Load, halt, At
<1>7. CASE Unload(i) BY <1>0, <1>a, <1>7 DEF Unload, halt, At
<1>8. CASE FmtRead(i) BY <1>0, <1>a, <1>8 DEF FmtRead, halt, At
<1>9. CASE FmtOpen(i) BY <1>0, <1>a, <1>9 DEF FmtOpen, halt, At
<1>10. CASE FmtWrite(i) BY <1>0, <1>a, <1>10 DEF FmtWrite, At
<1>11. CASE FmtRename(i) BY <1>0, <1>a, <1>11 DEF FmtRename, halt, At
<1>12. CASE Unlink(i) BY <1>0, <1>a, <1>12 DEF Unlink, At
<1>13. CASE Check(i) BY <1>0, <1>a, <1>13 DEF Check, halt, At
<1>14. CASE SkipCmd(i) BY <1>0, <1>a, <1>14 DEF SkipCmd, At
<1>15. CASE Ignore(i)
  <2>1. saved' = [saved EXCEPT ![i] = sigint] /\ sigint' = "ignore" /\ pc' = [pc EXCEPT ![i] = "ignored"]
    BY <1>15 DEF Ignore
  <2>2. UNCHANGED <<req, r, res, calls, killed>>
    BY <1>15 DEF Ignore
  <2> QED
    BY <1>0, <2>1, <2>2 DEF Dispositions
<1>16. CASE SpawnFails(i)
  <2>1. InCmd(i) /\ sigint' = saved[i]
    BY <1>16 DEF SpawnFails
  <2> QED
    BY <1>0, <1>16, <2>1 DEF SpawnFails, halt
<1>17. CASE Spawn(i) BY <1>0, <1>a, <1>17 DEF Spawn, At
<1>18. CASE Reap(i) BY <1>0, <1>a, <1>18 DEF Reap, At
<1>19. CASE WaitFails(i)
  <2>1. InCmd(i) /\ sigint' = saved[i]
    BY <1>19 DEF WaitFails
  <2> QED
    BY <1>0, <1>19, <2>1 DEF WaitFails, halt
<1>20. CASE Restore(i)
  <2>1. InCmd(i) /\ sigint' = saved[i]
    BY <1>20 DEF Restore
  <2> QED
    BY <1>0, <1>20, <2>1 DEF Restore
<1>21. CASE Finish(i) BY <1>0, <1>a, <1>21 DEF Finish, At
<1> QED
  BY <1>1, <1>2, <1>3, <1>4, <1>5, <1>6, <1>7, <1>8, <1>9, <1>10, <1>11, <1>12, <1>13, <1>14, <1>15, <1>16, <1>17, <1>18, <1>19, <1>20, <1>21 DEF InstanceStep

LEMMA EffectKeepsPlan ==
    ASSUME DriverInv, NEW i \in Instances, InstanceTypes(i)',
           Begins(i) \/ Ends(i) \/ Goes(i) \/ Writes(i) \/ Skips(i) \/ Commands(i)
    PROVE  PlanLeft(i)' /\ Handles(i)'
<1>0. Functions /\ InstanceTypes(i) /\ PlanLeft(i) /\ Handles(i)
  BY DEF DriverInv, Instance
<1> DEFINE S == OpSet(i)
           s == ops[i]
           t == ops'[i]
<1>s. s \in Seq(S) /\ Suffix(s)
  BY <1>0 DEF PlanLeft
<1>c. Cur(i) = Head(s) /\ Cur(i)' = Head(t)
  BY DEF Cur
<1> HIDE DEF S, s, t
<1>p. ASSUME t \in Seq(S), Suffix(t), req'[i].mode = "fmt" => FmtShape(t), pc'[i] \in {"op", "idle"},
             pc'[i] = "idle" => t = <<>>
      PROVE  PlanLeft(i)'
  BY <1>p DEF PlanLeft, InCmd, S, t
<1>1. CASE Begins(i)
  <2>1. t = Plan(req'[i], i) /\ req'[i] \in Requests /\ pc'[i] = "op"
    BY <1>1 DEF Begins, t
  <2>2. Sound(t, i, Allowed(req'[i], i)) /\ (req'[i].mode = "fmt" => FmtShape(t))
    BY <2>1, PlanSound
  <2>3. t \in Seq(S) /\ Suffix(t) /\ Fresh(t)
    BY <2>2 DEF Sound, S
  <2>4. PlanLeft(i)'
    BY <1>p, <2>1, <2>2, <2>3
  <2>5. t # <<>> => Head(t).op \notin {"unload", "fwrite"}
    BY <2>3, TailOff DEF Fresh
  <2>6. held[i] = {} /\ cleanups[i] = <<>>
    BY <1>0, <1>1 DEF Begins, Handles
  <2> QED
    BY <1>1, <1>c, <2>4, <2>5, <2>6 DEF Begins, Handles, t
<1>2. CASE Ends(i)
  <2>1. t = <<>> /\ pc'[i] = "idle" /\ held'[i] = {} /\ cleanups'[i] = <<>>
    BY <1>2 DEF Ends, t
  <2>2. t \in Seq(S) /\ Suffix(t) /\ FmtShape(t)
    BY <2>1 DEF Suffix, FmtShape, NoExec
  <2>3. PlanLeft(i)'
    BY <1>p, <2>1, <2>2
  <2> QED
    BY <2>1, <2>3 DEF Handles, t
<1>3. CASE Goes(i)
  <2>1. s # <<>> /\ t = Tail(s) /\ pc'[i] = "op" /\ req'[i] = req[i]
    BY <1>3 DEF Goes, s, t
  <2>2. t \in Seq(S) /\ Off(s, t, 1) /\ 1 \in 0..Len(s)
    BY <1>s, <2>1, TailOff
  <2>3. Suffix(t)
    BY <1>s, <2>2, SuffixOff
  <2>4. req[i].mode = "fmt" => FmtShape(s)
    BY <1>0 DEF PlanLeft, s
  <2>5. req'[i].mode = "fmt" => FmtShape(t)
    BY <1>s, <2>1, <2>2, <2>4, FmtShapeOff
  <2>6. PlanLeft(i)'
    BY <1>p, <2>1, <2>2, <2>3, <2>5
  <2>7. /\ Head(s).op = "load" => t # <<>> /\ Head(t).op = "unload" /\ Head(t).f = Head(s).f
        /\ Head(s).op = "fopen" => t # <<>> /\ Head(t).op = "fwrite" /\ Head(t).f = Head(s).f
        /\ t # <<>> => /\ Head(t).op = "unload" => Head(s).op = "load"
                       /\ Head(t).op = "fwrite" => Head(s).op = "fopen"
    BY <1>s, <2>1, Behind
  <2>8. CASE Head(s).op = "load"
    <3>1. held'[i] = {Head(s).f} /\ cleanups'[i] = <<Head(s).f>>
      BY <1>3, <1>c, <2>8 DEF Goes
    <3>2. t # <<>> /\ Head(t).op = "unload" /\ Head(t).f = Head(s).f
      BY <2>7, <2>8
    <3> QED
      BY <1>c, <2>1, <2>6, <3>1, <3>2 DEF Handles, t
  <2>9. CASE Head(s).op = "fopen"
    <3>1. held'[i] = {FmtTmp(Head(s).f)} /\ cleanups'[i] = <<>>
      BY <1>3, <1>c, <2>9 DEF Goes
    <3>2. t # <<>> /\ Head(t).op = "fwrite" /\ Head(t).f = Head(s).f
      BY <2>7, <2>9
    <3> QED
      BY <1>c, <2>1, <2>6, <3>1, <3>2 DEF Handles, t
  <2>10. CASE Head(s).op \notin {"load", "fopen"}
    <3>1. held'[i] = {} /\ cleanups'[i] = <<>>
      BY <1>3, <1>c, <2>10 DEF Goes
    <3>2. t # <<>> => Head(t).op \notin {"unload", "fwrite"}
      BY <2>7, <2>10
    <3> QED
      BY <1>c, <2>6, <3>1, <3>2 DEF Handles, t
  <2> QED
    BY <2>8, <2>9, <2>10
<1>4. CASE Writes(i)
  <2>1. t = s /\ pc'[i] = "op" /\ req'[i] = req[i]
    BY <1>4 DEF Writes, s, t
  <2>2. PlanLeft(i)'
    BY <1>0, <1>4 DEF Writes, PlanLeft, InCmd
  <2> QED
    BY <1>4, <1>c, <2>1, <2>2 DEF Writes, Handles, s, t
<1>5. CASE Skips(i)
  <2>1. /\ t = SubSeq(s, 5, Len(s)) /\ pc'[i] = "op" /\ pc[i] = "op" /\ req'[i] = req[i] /\ s # <<>>
        /\ Head(s).op = "format" /\ req[i].mode = "fmt"
    BY <1>5, <1>c DEF Skips, s, t
  <2>2. FmtShape(s) /\ Head(s) = s[1] /\ 1 \in 1..Len(s)
    BY <1>0, <1>s, <2>1, TailOff DEF PlanLeft, s
  <2>3. 1 + 3 <= Len(s) /\ s[1 + 3].op = "rename"
    BY <2>1, <2>2 DEF FmtShape
  <2>4. 4 \in 0..Len(s) /\ 4 \in 1..Len(s) /\ s[4].op = "rename"
    <3>1. 1 + 3 = 4 /\ Len(s) \in Nat
      BY <1>s
    <3> QED
      BY <2>3, <3>1
  <2>5. t \in Seq(S) /\ Off(s, t, 4)
    BY <1>s, <2>1, <2>4, SkipOff
  <2>6. Suffix(t) /\ FmtShape(t)
    BY <1>s, <2>2, <2>4, <2>5, SuffixOff, FmtShapeOff
  <2>7. PlanLeft(i)'
    BY <1>p, <2>1, <2>5, <2>6
  <2>8. t # <<>> => Head(t).op \notin {"unload", "fwrite"}
    <3> SUFFICES ASSUME t # <<>> PROVE Head(t).op \notin {"unload", "fwrite"}
      OBVIOUS
    <3>1. Head(t) = t[1] /\ 1 \in 1..Len(t)
      BY <2>5, TailOff
    <3>2. t[1] = s[1 + 4] /\ Len(t) = Len(s) - 4
      BY <2>5, <3>1 DEF Off
    <3>3. 5 \in 1..Len(s) /\ 5 > 1 /\ 1 + 4 = 5 /\ 5 - 1 = 4
      <4>1. Len(s) \in Nat
        BY <1>s
      <4> QED
        BY <3>1, <3>2, <4>1
    <3>4. /\ s[5].op = "unload" => s[5 - 1].op = "load"
          /\ s[5].op = "fwrite" => s[5 - 1].op = "fopen"
      BY <1>s, <3>3 DEF Suffix
    <3> QED
      BY <2>4, <3>1, <3>2, <3>3, <3>4
  <2>9. held[i] = {} /\ cleanups[i] = <<>> /\ held' = held /\ cleanups' = cleanups
    BY <1>0, <1>5 DEF Skips, Handles
  <2> QED
    BY <1>c, <2>7, <2>8, <2>9 DEF Handles, t
<1>6. CASE Commands(i)
  <2>1. held[i] = {} /\ cleanups[i] = <<>>
    BY <1>0, <1>6 DEF Commands, Handles
  <2>2. Cur(i)' = Cur(i)
    BY <1>6 DEF Commands, Cur
  <2> QED
    BY <1>0, <1>6, <2>1, <2>2 DEF Commands, Handles, PlanLeft, InCmd
<1> QED
  BY <1>1, <1>2, <1>3, <1>4, <1>5, <1>6

\* The other instances keep what they had.
LEMMA FrameKeeps ==
    ASSUME NEW i \in Instances, NEW j \in Instances, j # i, Frame(i), Instance(j)
    PROVE  Instance(j)'
<1>1. /\ pc'[j] = pc[j] /\ req'[j] = req[j] /\ ops'[j] = ops[j] /\ r'[j] = r[j] /\ res'[j] = res[j]
      /\ cleanups'[j] = cleanups[j] /\ held'[j] = held[j] /\ saved'[j] = saved[j]
      /\ calls'[j] = calls[j] /\ before'[j] = before[j]
  BY DEF Frame
<1> QED
  BY <1>1 DEF Instance, InstanceTypes, PlanLeft, Handles, InCmd, Cur

LEMMA StepKeepsDriver ==
    ASSUME DriverInv, NEW i \in Instances, InstanceStep(i)
    PROVE  DriverInv'
<1>1. Functions' /\ Frame(i)
  BY StepFrame DEF DriverInv
<1>2. InstanceTypes(i)' /\ sigint' \in Dispositions /\ killed' \in BOOLEAN
  BY StepTypes
<1>3. PlanLeft(i)' /\ Handles(i)'
  BY <1>2, StepEffect, EffectKeepsPlan
<1>4. Instance(i)'
  BY <1>2, <1>3 DEF Instance
<1>5. \A j \in Instances : j # i => Instance(j)'
  BY <1>1, FrameKeeps DEF DriverInv
<1> QED
  BY <1>1, <1>2, <1>4, <1>5 DEF DriverInv

\* A step that is no instance's changes neither plans nor handles.
LEMMA NextKeepsDriver ==
    ASSUME DriverInv, [Next]_vars
    PROVE  DriverInv'
<1>1. CASE \E i \in Instances : InstanceStep(i)
  BY <1>1, StepKeepsDriver
<1>2. CASE UNCHANGED <<local, sigint>> /\ killed' \in BOOLEAN
  BY <1>2 DEF local, DriverInv, Functions, Instance, InstanceTypes, PlanLeft, Handles, InCmd, Cur
<1>3. CASE Interrupt
  BY <1>2, <1>3 DEF Interrupt
<1>4. CASE UNCHANGED vars
  BY <1>2, <1>4 DEF vars, DriverInv
<1> QED
  BY <1>1, <1>3, <1>4 DEF Next, Ended

LEMMA InitDriver == Init => DriverInv
<1> SUFFICES ASSUME Init PROVE DriverInv
  OBVIOUS
<1> DEFINE q0 == CHOOSE q \in Requests : TRUE
<1>1. q0 \in Requests
  BY RequestsAssumption
<1> HIDE DEF q0
<1>2. req \in [Instances -> {q0}]
  BY DEF Init, q0
<1>3. Functions
  BY <1>2 DEF Init, Functions
<1>4. ASSUME NEW i \in Instances PROVE Instance(i)
  <2>1. pc[i] = "idle" /\ ops[i] = <<>> /\ held[i] = {} /\ cleanups[i] = <<>>
    BY DEF Init
  <2>2. InstanceTypes(i)
    BY <1>1, <1>2, BoundAssumption DEF Init, InstanceTypes, InCmd
  <2>3. PlanLeft(i)
    BY <2>1 DEF PlanLeft, Suffix, FmtShape, NoExec, InCmd
  <2> QED
    BY <2>1, <2>2, <2>3 DEF Instance, Handles
<1> QED
  BY <1>3, <1>4 DEF DriverInv, Init, Dispositions

LEMMA DriverAlways == Spec => []DriverInv
<1>1. DriverInv /\ [Next]_vars => DriverInv'
  BY NextKeepsDriver
<1> QED
  BY InitDriver, <1>1, PTL DEF Spec

\* Every variable of every instance has its type, and no more cleanups are
\* pending than cleanups[8] holds: at most one.
THEOREM DriverTypes == Spec => []TypeOK
<1>1. DriverInv => TypeOK
  <2> SUFFICES ASSUME DriverInv PROVE TypeOK
    OBVIOUS
  <2>1. ASSUME NEW i \in Instances
        PROVE  /\ pc[i] \in {"idle", "op"} \/ InCmd(i)
               /\ req[i] \in Requests
               /\ \A n \in DOMAIN ops[i] : DOMAIN ops[i][n] = {"op", "f"}
               /\ r[i] \in {0, 1}
               /\ res[i] \in {"none", "ok", "fail"}
               /\ Len(cleanups[i]) <= 8
               /\ saved[i] \in Dispositions \cup {"unset"}
               /\ calls[i] \in 0..MaxCalls
    <3>1. InstanceTypes(i) /\ PlanLeft(i) /\ Handles(i)
      BY DEF DriverInv, Instance
    <3>2. \A x \in OpSet(i) : DOMAIN x = {"op", "f"}
      BY DEF OpSet
    <3>3. \A n \in DOMAIN ops[i] : ops[i][n] \in OpSet(i)
      BY <3>1 DEF PlanLeft
    <3>4. Len(cleanups[i]) <= 8
      <4>1. CASE cleanups[i] = <<>>
        BY <4>1
      <4>2. CASE cleanups[i] = <<Cur(i).f>>
        BY <4>2
      <4> QED
        BY <3>1, <4>1, <4>2 DEF Handles
    <3> QED
      BY <3>1, <3>2, <3>3, <3>4 DEF InstanceTypes, InCmd
  <2> QED
    BY <2>1 DEF TypeOK, DriverInv
<1> QED
  BY DriverAlways, <1>1, PTL

\* However a call ends, and whatever the other instances do meanwhile, it has
\* closed all it opened and left no cleanup behind.
THEOREM CallsCloseAll == Spec => []HandlesClosed
<1>1. DriverInv => HandlesClosed
  BY DEF DriverInv, Instance, Handles, HandlesClosed
<1> QED
  BY DriverAlways, <1>1, PTL

-----------------------------------------------------------------------------
(* The files.  Instances share them, so what follows is about one.         *)

IsTmp(p) == \E f \in SourceSet : p = FmtTmp(f)

\* A built file is no source and no temporary of fmt, a source no temporary.
LEMMA PathKinds ==
    ASSUME NEW i
    PROVE  /\ \A p \in Built(i) : p \notin SourceSet /\ ~IsTmp(p)
           /\ \A p \in SourceSet : ~IsTmp(p) /\ IsTmp(FmtTmp(p)) /\ FmtTmp(p) \notin SourceSet
<1>1. \A p \in SourceSet : p = <<p[1], "HC">>
  BY SourcesAssumption DEF SourceSet
<1>2. \A p \in SourceSet : p[2] = "HC"
  BY <1>1
<1>3. \A f : FmtTmp(f)[2] = "fmt.tmp"
  BY DEF FmtTmp, Temp
<1>4. \A p : IsTmp(p) => p[2] = "fmt.tmp"
  BY <1>3 DEF IsTmp
<1>5. \A p \in Built(i) : p[2] \in Words
  BY DEF Built
<1> QED
  BY <1>2, <1>3, <1>4, <1>5 DEF IsTmp, Words

LEMMA OpKinds ==
    ASSUME NEW i, NEW x \in OpSet(i)
    PROVE  /\ x.op \in BuildNames => x.f \in Built(i)
           /\ x.op \in FmtNames => x.f \in SourceSet
BY DEF OpSet, BuildNames, Makers, FmtNames

LEMMA WithFacts ==
    ASSUME NEW f, NEW p, NEW v, NEW g, g = With(f, p, v)
    PROVE  /\ \A x : x \in DOMAIN g <=> x \in DOMAIN f \/ x = p
           /\ g[p] = v /\ \A x \in DOMAIN f : x # p => g[x] = f[x]
BY DEF With

LEMMA WithoutFacts ==
    ASSUME NEW f, NEW p
    PROVE  /\ DOMAIN Without(f, p) = DOMAIN f \ {p}
           /\ \A x \in DOMAIN f : x # p => Without(f, p)[x] = f[x]
BY DEF Without

\* What a step does to the files, the status and the history of its instance.
Kept(i) == /\ before'[i] = before[i] /\ calls'[i] = calls[i] /\ req'[i] = req[i]
           /\ stuck[i] \subseteq stuck'[i]
FBegins(i) == /\ pc[i] = "idle" /\ pc'[i] = "op" /\ req'[i] \in Requests /\ ops'[i] = Plan(req'[i], i)
              /\ files' = files /\ before'[i] = DOMAIN files /\ r'[i] = 0 /\ res'[i] = "none"
FFails(i) == /\ pc[i] # "idle" /\ pc'[i] = "idle" /\ ops[i] # <<>> /\ ops'[i] = <<>> /\ res'[i] = "fail"
             /\ files' = IF Cur(i).op \in {"fwrite", "rename"} THEN Without(files, FmtTmp(Cur(i).f)) ELSE files
             /\ Kept(i)
FFinishes(i) == /\ pc[i] = "op" /\ pc'[i] = "idle" /\ ops[i] = <<>> /\ ops'[i] = <<>> /\ res'[i] = "ok"
                /\ files' = files /\ Kept(i)
FilesNext(i) ==
    LET f == Cur(i).f tmp == FmtTmp(f) IN
    CASE Cur(i).op \in {"copy", "mkdtemp"} -> With(files, f, <<i, calls[i]>>)
      [] Cur(i).op = "fopen" -> With(files, tmp, "partial")
      [] Cur(i).op = "fwrite" -> With(files, tmp, "formatted")
      [] Cur(i).op = "rename" -> With(Without(files, tmp), f, files[tmp])
      [] Cur(i).op \in {"drop", "unlink"} ->
            IF Cur(i).op = "drop" /\ req[i].keep THEN files ELSE Without(files, f)
      [] OTHER -> files
FGoes(i) == /\ pc[i] \in {"op", "reaped"} /\ pc'[i] = "op" /\ ops[i] # <<>> /\ ops'[i] = Tail(ops[i])
            /\ \/ files' = FilesNext(i)
               \/ Cur(i).op \in {"drop", "unlink"} /\ files' = files /\ Cur(i).f \in stuck'[i]
            /\ Cur(i).op = "rename" => FmtTmp(Cur(i).f) \in DOMAIN files
            /\ Cur(i).op = "check" => r[i] = 0
            /\ Cur(i).op = "cmdok" /\ pc[i] = "op" => r[i] # 0
            /\ Cur(i).op \in {"cmd", "exec"} => pc[i] = "reaped"
            /\ Cur(i).op # "fail"
            /\ r'[i] = r[i] /\ res'[i] = res[i] /\ Kept(i)
FWrites(i) == /\ pc[i] = "op" /\ pc'[i] = "op" /\ ops[i] # <<>> /\ Cur(i).op = "emit" /\ ops'[i] = ops[i]
              /\ files' = With(files, Cur(i).f, <<i, calls[i]>>)
              /\ r'[i] = r[i] /\ res'[i] = res[i] /\ Kept(i)
FSkips(i) == /\ pc[i] = "op" /\ pc'[i] = "op" /\ ops[i] # <<>> /\ Cur(i).op = "format" /\ req[i].mode = "fmt"
             /\ ops'[i] = SubSeq(ops[i], 5, Len(ops[i])) /\ files' = files
             /\ r'[i] = r[i] /\ res'[i] = res[i] /\ Kept(i)
FStarts(i) == /\ pc[i] \in {"op", "ignored"} /\ pc'[i] \in {"ignored", "child"} /\ ops'[i] = ops[i]
              /\ ops[i] # <<>> /\ Cur(i).op \in {"cmd", "cmdok", "exec"}
              /\ files' = files /\ r'[i] = r[i] /\ res'[i] = res[i] /\ Kept(i)
FReaps(i) == /\ pc[i] = "child" /\ pc'[i] = "reaped" /\ ops'[i] = ops[i]
             /\ ops[i] # <<>> /\ Cur(i).op \in {"cmd", "cmdok", "exec"}
             /\ \/ Cur(i).op # "exec" /\ files' = With(files, Cur(i).f, <<i, calls[i]>>)
                \/ files' = files /\ (Cur(i).op # "exec" => r'[i] # 0)
             /\ res'[i] = res[i] /\ Kept(i)

LEMMA FileEffect ==
    ASSUME DriverInv, NEW i \in Instances, InstanceStep(i)
    PROVE  \/ FBegins(i) \/ FFails(i) \/ FFinishes(i) \/ FGoes(i) \/ FWrites(i) \/ FSkips(i)
           \/ FStarts(i) \/ FReaps(i)
<1>0. Functions /\ InstanceTypes(i) /\ PlanLeft(i) /\ Handles(i)
  BY DEF DriverInv, Instance
<1> USE DEF Functions, Set, history, Kept
<1>1. CASE Start(i) BY <1>0, <1>1 DEF Start, FBegins
<1>2. CASE Parse(i)
  <2>1. CASE halt(i) BY <1>0, <1>2, <2>1 DEF Parse, At, halt, FFails
  <2>2. CASE ~halt(i) BY <1>0, <1>2, <2>2 DEF Parse, At, FGoes, Done, FilesNext
  <2> QED BY <2>1, <2>2
<1>3. CASE Open(i)
  <2>1. CASE halt(i) BY <1>0, <1>3, <2>1 DEF Open, At, halt, FFails
  <2>2. CASE ~halt(i) BY <1>0, <1>3, <2>2 DEF Open, At, FWrites
  <2> QED BY <2>1, <2>2
<1>4. CASE Close(i)
  <2>1. CASE Done(i) BY <1>0, <1>4, <2>1 DEF Close, At, Done, FGoes, FFails, FilesNext
  <2>2. CASE ~Done(i) BY <1>0, <1>4, <2>2 DEF Close, At, FFails
  <2> QED BY <2>1, <2>2
<1>5. CASE Copy(i)
  <2>1. CASE halt(i) BY <1>0, <1>5, <2>1 DEF Copy, At, halt, FFails
  <2>2. CASE ~halt(i) BY <1>0, <1>5, <2>2 DEF Copy, At, FGoes, Done, FilesNext
  <2> QED BY <2>1, <2>2
<1>6. CASE Load(i)
  <2>1. CASE halt(i) BY <1>0, <1>6, <2>1 DEF Load, At, halt, FFails
  <2>2. CASE ~halt(i) BY <1>0, <1>6, <2>2 DEF Load, At, FGoes, Done, FilesNext
  <2> QED BY <2>1, <2>2
<1>7. CASE Unload(i)
  <2>1. CASE halt(i) BY <1>0, <1>7, <2>1 DEF Unload, At, halt, FFails
  <2>2. CASE ~halt(i) BY <1>0, <1>7, <2>2 DEF Unload, At, FGoes, Done, FilesNext
  <2> QED BY <2>1, <2>2
<1>8. CASE FmtRead(i)
  <2>1. CASE halt(i) BY <1>0, <1>8, <2>1 DEF FmtRead, At, halt, FFails
  <2>2. CASE ~halt(i) BY <1>0, <1>8, <2>2 DEF FmtRead, At, FGoes, FSkips, Done, FilesNext
  <2> QED BY <2>1, <2>2
<1>9. CASE FmtOpen(i)
  <2>1. CASE halt(i) BY <1>0, <1>9, <2>1 DEF FmtOpen, At, halt, FFails
  <2>2. CASE ~halt(i) BY <1>0, <1>9, <2>2 DEF FmtOpen, At, FGoes, Done, FilesNext
  <2> QED BY <2>1, <2>2
<1>10. CASE FmtWrite(i)
  <2>1. CASE Done(i) /\ pc' = pc BY <1>0, <1>10, <2>1 DEF FmtWrite, At, Done, FGoes, FFails, FilesNext
  <2>2. CASE ~(Done(i) /\ pc' = pc) BY <1>0, <1>10, <2>2 DEF FmtWrite, At, FFails
  <2> QED BY <2>1, <2>2
<1>11. CASE FmtRename(i)
  <2>1. CASE halt(i) BY <1>0, <1>11, <2>1 DEF FmtRename, At, halt, FFails
  <2>2. CASE ~halt(i) BY <1>0, <1>11, <2>2 DEF FmtRename, At, FGoes, Done, FilesNext
  <2> QED BY <2>1, <2>2
<1>12. CASE Unlink(i) BY <1>0, <1>12 DEF Unlink, At, Done, FGoes, FilesNext
<1>13. CASE Check(i)
  <2>1. CASE halt(i) BY <1>0, <1>13, <2>1 DEF Check, At, halt, FFails
  <2>2. CASE ~halt(i) BY <1>0, <1>13, <2>2 DEF Check, At, FGoes, Done, FilesNext
  <2> QED BY <2>1, <2>2
<1>14. CASE SkipCmd(i) BY <1>0, <1>14 DEF SkipCmd, At, Done, FGoes, FilesNext
<1>15. CASE Ignore(i) BY <1>0, <1>15 DEF Ignore, At, FStarts
<1>16. CASE SpawnFails(i) BY <1>0, <1>16 DEF SpawnFails, halt, FFails, PlanLeft, InCmd
<1>17. CASE Spawn(i) BY <1>0, <1>17 DEF Spawn, FStarts, PlanLeft, InCmd
<1>18. CASE Reap(i) BY <1>0, <1>18 DEF Reap, FReaps, PlanLeft, InCmd
<1>19. CASE WaitFails(i) BY <1>0, <1>19 DEF WaitFails, halt, FFails, PlanLeft, InCmd
<1>20. CASE Restore(i) BY <1>0, <1>20 DEF Restore, Done, FGoes, FilesNext, PlanLeft, InCmd
<1>21. CASE Finish(i) BY <1>0, <1>21 DEF Finish, FFinishes
<1> QED
  BY <1>1, <1>2, <1>3, <1>4, <1>5, <1>6, <1>7, <1>8, <1>9, <1>10, <1>11, <1>12, <1>13, <1>14, <1>15,
     <1>16, <1>17, <1>18, <1>19, <1>20, <1>21 DEF InstanceStep

\* Every source is whole; a temporary is there while its file is written and
\* moved, and what is moved is written.
Owns(i, p) == /\ pc[i] = "op" /\ ops[i] # <<>> /\ Cur(i).op \in {"fwrite", "rename"}
              /\ p = FmtTmp(Cur(i).f)
SourcesKept == \A p \in SourceSet : p \in DOMAIN files /\ files[p] \in {"original", "formatted"}
TmpOwned == \A p \in DOMAIN files : IsTmp(p) => \E i \in Instances : Owns(i, p)
TmpWritten ==
    \A i \in Instances :
       pc[i] = "op" /\ ops[i] # <<>> /\ Cur(i).op = "rename" /\ FmtTmp(Cur(i).f) \in DOMAIN files =>
          files[FmtTmp(Cur(i).f)] = "formatted"
FmtInv == SourcesKept /\ TmpOwned /\ TmpWritten

\* The head of a plan and its file.
LEMMA HeadKind ==
    ASSUME NEW i, NEW s \in Seq(OpSet(i)), s # <<>>
    PROVE  /\ Head(s).op \in BuildNames => Head(s).f \in Built(i)
           /\ Head(s).op \in FmtNames => Head(s).f \in SourceSet
<1>1. s[1] \in OpSet(i) /\ Head(s) = s[1]
  BY TailOff
<1> QED
  BY <1>1, OpKinds

LEMMA FilesKeepFmt ==
    ASSUME One, DriverInv, FmtInv, NEW i \in Instances, InstanceStep(i)
    PROVE  FmtInv'
<1> DEFINE f == Cur(i).f
           tmp == FmtTmp(f)
<1>0. \A j \in Instances : j = i
  BY DEF One
<1>k. /\ \A p \in Built(i) : p \notin SourceSet /\ ~IsTmp(p)
      /\ \A p \in SourceSet : ~IsTmp(p) /\ IsTmp(FmtTmp(p)) /\ FmtTmp(p) \notin SourceSet
  BY PathKinds
<1>c. ops[i] # <<>> => /\ Cur(i).op \in BuildNames => f \in Built(i)
                       /\ Cur(i).op \in FmtNames => f \in SourceSet
  <2>1. ops[i] \in Seq(OpSet(i)) /\ Cur(i) = Head(ops[i])
    BY DEF DriverInv, Instance, PlanLeft, Cur
  <2> QED
    BY <2>1, HeadKind
<1>n. /\ {"emit", "copy", "mkdtemp", "cmd", "cmdok", "drop", "unlink", "exec"} \subseteq BuildNames
      /\ {"fopen", "fwrite", "rename"} \subseteq FmtNames
  BY DEF BuildNames, FmtNames, Makers
\* No temporary is there unless it is this step's.
<1>t. \A p \in DOMAIN files : IsTmp(p) => Owns(i, p)
  BY <1>0 DEF FmtInv, TmpOwned
<1>q. ASSUME \A p \in DOMAIN files' : ~IsTmp(p), SourcesKept', ops'[i] # <<>> /\ Cur(i)'.op = "rename" => Cur(i)'.f \in SourceSet
      PROVE  FmtInv'
  <2>1. TmpOwned'
    BY <1>q DEF TmpOwned, IsTmp, SourceSet, FmtTmp, Temp
  <2>2. TmpWritten'
    BY <1>0, <1>k, <1>q DEF TmpWritten
  <2> QED
    BY <1>q, <2>1, <2>2 DEF FmtInv
<1>d. DriverInv'
  BY StepKeepsDriver
<1>e. ops'[i] # <<>> /\ Cur(i)'.op = "rename" => Cur(i)'.f \in SourceSet
  <2>1. ops'[i] \in Seq(OpSet(i)) /\ Cur(i)' = Head(ops'[i])
    BY <1>d DEF DriverInv, Instance, PlanLeft, Cur, OpSet, Built, SourceSet
  <2> QED
    BY <1>n, <2>1, HeadKind
<1>s. ASSUME \A p \in SourceSet : p \in DOMAIN files /\ p \in DOMAIN files' /\ files'[p] = files[p]
      PROVE  SourcesKept'
  BY <1>s DEF FmtInv, SourcesKept, SourceSet
<1> HIDE DEF f, tmp
<1>u. ASSUME pc[i] # "op" \/ ops[i] = <<>> \/ Cur(i).op \notin {"fwrite", "rename"}, files' = files
      PROVE  FmtInv'
  <2>1. \A p \in DOMAIN files' : ~IsTmp(p)
    BY <1>t, <1>u DEF Owns
  <2> QED
    BY <1>e, <1>q, <1>s, <1>u, <2>1 DEF FmtInv, SourcesKept
<1>w. ASSUME ops[i] # <<>>, Cur(i).op \in {"emit", "copy", "mkdtemp", "cmd", "cmdok"}, NEW v, files' = With(files, f, v)
      PROVE  FmtInv'
  <2>1. f \in Built(i)
    BY <1>c, <1>n, <1>w
  <2>2. DOMAIN files' = DOMAIN files \cup {f} /\ \A p \in DOMAIN files : p # f => files'[p] = files[p]
    <3>1. files' = With(files, f, v)
      BY <1>w
    <3>2. /\ \A x : x \in DOMAIN files' <=> x \in DOMAIN files \/ x = f
          /\ \A x \in DOMAIN files : x # f => files'[x] = files[x]
      BY ONLY <3>1, WithFacts
    <3> QED
      BY ONLY <3>2
  <2>3. \A p \in DOMAIN files' : ~IsTmp(p)
    BY <1>k, <1>t, <1>w, <2>1, <2>2 DEF Owns
  <2>4. SourcesKept'
    BY <1>k, <1>s, <2>1, <2>2 DEF FmtInv, SourcesKept
  <2> QED
    BY <1>e, <1>q, <2>3, <2>4
<1>x. ASSUME ops[i] # <<>>, Cur(i).op \in {"fwrite", "rename"}, files' = Without(files, tmp)
      PROVE  FmtInv'
  <2>1. f \in SourceSet
    BY <1>c, <1>n, <1>x
  <2>2. DOMAIN files' = DOMAIN files \ {tmp} /\ \A p \in DOMAIN files : p # tmp => files'[p] = files[p]
    BY <1>x, WithoutFacts
  <2>3. \A p \in DOMAIN files' : ~IsTmp(p)
    BY <1>t, <2>2 DEF Owns, tmp, f
  <2>4. SourcesKept'
    BY <1>k, <1>s, <2>1, <2>2 DEF FmtInv, SourcesKept, tmp
  <2> QED
    BY <1>e, <1>q, <2>3, <2>4
<1>1. CASE FBegins(i)
  BY <1>1, <1>u DEF FBegins
<1>2. CASE FFails(i)
  <2>1. CASE Cur(i).op \in {"fwrite", "rename"}
    BY <1>2, <1>x, <2>1 DEF FFails, f, tmp
  <2>2. CASE Cur(i).op \notin {"fwrite", "rename"}
    BY <1>2, <1>u, <2>2 DEF FFails
  <2> QED BY <2>1, <2>2
<1>3. CASE FFinishes(i)
  BY <1>3, <1>u DEF FFinishes
<1>4. CASE FGoes(i)
  <2>0. ops[i] # <<>> /\ ops'[i] = Tail(ops[i]) /\ pc'[i] = "op" /\ Cur(i)' = Head(ops'[i])
      /\ (Cur(i).op \notin {"drop", "unlink"} => files' = FilesNext(i))
      /\ (files' = FilesNext(i) \/ files' = files)
    BY <1>4 DEF FGoes, Cur
  <2>b. /\ Cur(i).op = "fopen" => ops'[i] # <<>> /\ Cur(i)'.op = "fwrite" /\ Cur(i)'.f = f
        /\ Cur(i).op = "fwrite" => ops'[i] # <<>> /\ Cur(i)'.op = "rename" /\ Cur(i)'.f = f
    <3>1. ops[i] \in Seq(OpSet(i)) /\ Suffix(ops[i])
      BY DEF DriverInv, Instance, PlanLeft
    <3>2. Cur(i) = Head(ops[i])
      BY DEF Cur
    <3> QED
      BY <2>0, <3>1, <3>2, Behind DEF f
  <2>1. CASE Cur(i).op \in {"copy", "mkdtemp"}
    BY <1>w, <2>0, <2>1 DEF FilesNext, f
  <2>2. CASE Cur(i).op = "fopen"
    <3>1. f \in SourceSet /\ files' = With(files, tmp, "partial")
      BY <1>c, <1>n, <2>0, <2>2 DEF FilesNext, f, tmp
    <3>2. DOMAIN files' = DOMAIN files \cup {tmp} /\ \A p \in DOMAIN files : p # tmp => files'[p] = files[p]
      BY <3>1, WithFacts
    <3>3. SourcesKept'
      BY <1>k, <1>s, <3>1, <3>2 DEF FmtInv, SourcesKept, tmp
    <3>4. \A p : p = tmp => Owns(i, p)'
      BY <2>0, <2>b, <2>2 DEF Owns, tmp
    <3>5. \A p \in DOMAIN files' : IsTmp(p) => p = tmp
      BY <1>t, <2>2, <3>2 DEF Owns
    <3>6. TmpOwned'
      BY <3>4, <3>5 DEF TmpOwned, IsTmp, SourceSet
    <3>7. TmpWritten'
      BY <1>0, <2>b, <2>2 DEF TmpWritten
    <3> QED
      BY <3>3, <3>6, <3>7 DEF FmtInv
  <2>3. CASE Cur(i).op = "fwrite"
    <3>1. f \in SourceSet /\ files' = With(files, tmp, "formatted")
      BY <1>c, <1>n, <2>0, <2>3 DEF FilesNext, f, tmp
    <3>2. /\ DOMAIN files' = DOMAIN files \cup {tmp} /\ \A p \in DOMAIN files : p # tmp => files'[p] = files[p]
          /\ files'[tmp] = "formatted"
      <4>1. files' = With(files, tmp, "formatted")
        BY <3>1
      <4>2. /\ \A x : x \in DOMAIN files' <=> x \in DOMAIN files \/ x = tmp
            /\ files'[tmp] = "formatted" /\ \A x \in DOMAIN files : x # tmp => files'[x] = files[x]
        BY ONLY <4>1, WithFacts
      <4> QED
        BY ONLY <4>2
    <3>3. SourcesKept'
      BY <1>k, <1>s, <3>1, <3>2 DEF FmtInv, SourcesKept, tmp
    <3>4. \A p : p = tmp => Owns(i, p)'
      BY <2>0, <2>b, <2>3 DEF Owns, tmp
    <3>5. \A p \in DOMAIN files' : IsTmp(p) => p = tmp
      BY <1>t, <2>3, <3>2 DEF Owns, tmp, f
    <3>6. TmpOwned'
      BY <3>4, <3>5 DEF TmpOwned, IsTmp, SourceSet
    <3>7. TmpWritten'
      BY <1>0, <2>b, <2>3, <3>2 DEF TmpWritten, tmp, FmtTmp, Temp
    <3> QED
      BY <3>3, <3>6, <3>7 DEF FmtInv
  <2>4. CASE Cur(i).op = "rename"
    <3>1. f \in SourceSet /\ tmp \in DOMAIN files /\ files' = With(Without(files, tmp), f, files[tmp])
      BY <1>4, <1>c, <1>n, <2>0, <2>4 DEF FGoes, FilesNext, f, tmp
    <3>2. DOMAIN Without(files, tmp) = DOMAIN files \ {tmp}
          /\ \A p \in DOMAIN files : p # tmp => Without(files, tmp)[p] = files[p]
      BY WithoutFacts
    <3>3. /\ DOMAIN files' = (DOMAIN files \ {tmp}) \cup {f} /\ files'[f] = files[tmp]
          /\ \A p \in DOMAIN Without(files, tmp) : p # f => files'[p] = Without(files, tmp)[p]
      BY <3>1, <3>2, WithFacts
    <3>4. pc[i] = "op"
      BY <1>t, <1>k, <3>1 DEF Owns, tmp
    <3>5. files[tmp] = "formatted"
      BY <2>0, <2>4, <3>1, <3>4 DEF FmtInv, TmpWritten, tmp, f
    <3>6. SourcesKept'
      <4>1. ASSUME NEW p \in SourceSet PROVE p \in DOMAIN files' /\ files'[p] \in {"original", "formatted"}
        <5>1. p # tmp /\ p \in DOMAIN files /\ files[p] \in {"original", "formatted"}
          BY <1>k, <3>1 DEF FmtInv, SourcesKept, tmp
        <5> QED
          BY <3>2, <3>3, <3>5, <5>1
      <4> QED
        BY <4>1 DEF SourcesKept, SourceSet
    <3>7. \A p \in DOMAIN files' : ~IsTmp(p)
      BY <1>k, <1>t, <3>1, <3>3 DEF Owns, tmp, f
    <3> QED
      BY <1>e, <1>q, <3>6, <3>7
  <2>5. CASE Cur(i).op \in {"drop", "unlink"}
    <3>1. CASE files' = files
      BY <1>u, <2>5, <3>1
    <3>2. CASE files' # files
      <4>1. files' = Without(files, f) /\ f \in Built(i)
        BY <1>c, <1>n, <2>0, <2>5, <3>2 DEF FilesNext, f
      <4>2. DOMAIN files' = DOMAIN files \ {f} /\ \A p \in DOMAIN files : p # f => files'[p] = files[p]
        BY <4>1, WithoutFacts
      <4>3. SourcesKept'
        BY <1>k, <1>s, <4>1, <4>2 DEF FmtInv, SourcesKept
      <4>4. \A p \in DOMAIN files' : ~IsTmp(p)
        BY <1>t, <2>5, <4>2 DEF Owns
      <4> QED
        BY <1>e, <1>q, <4>3, <4>4
    <3> QED BY <3>1, <3>2
  <2>6. CASE Cur(i).op \notin {"copy", "mkdtemp", "fopen", "fwrite", "rename", "drop", "unlink"}
    <3>1. files' = files
      BY <2>0, <2>6 DEF FilesNext
    <3> QED
      BY <1>u, <2>6, <3>1
  <2> QED
    BY <2>1, <2>2, <2>3, <2>4, <2>5, <2>6
<1>5. CASE FWrites(i)
  BY <1>5, <1>w DEF FWrites, f
<1>6. CASE FSkips(i)
  BY <1>6, <1>u DEF FSkips
<1>7. CASE FStarts(i)
  BY <1>7, <1>u DEF FStarts
<1>8. CASE FReaps(i)
  <2>1. CASE files' = files
    BY <1>8, <1>u, <2>1 DEF FReaps
  <2>2. CASE files' # files
    BY <1>8, <1>w, <2>2 DEF FReaps, f
  <2> QED BY <2>1, <2>2
<1> QED
  BY <1>1, <1>2, <1>3, <1>4, <1>5, <1>6, <1>7, <1>8, FileEffect

LEMMA FmtAlways ==
    ASSUME One PROVE Spec => []FmtInv
<1>1. Init => FmtInv
  <2> SUFFICES ASSUME Init PROVE FmtInv
    OBVIOUS
  <2>1. DOMAIN files = SourceSet /\ \A p \in SourceSet : files[p] = "original"
    BY DEF Init, SourceSet
  <2>2. \A p \in SourceSet : ~IsTmp(p)
    BY PathKinds
  <2>3. \A i \in Instances : pc[i] = "idle"
    BY DEF Init
  <2> QED
    BY <2>1, <2>2, <2>3 DEF FmtInv, SourcesKept, TmpOwned, TmpWritten
<1>2. DriverInv /\ FmtInv /\ [Next]_vars => FmtInv'
  <2> SUFFICES ASSUME DriverInv, FmtInv, [Next]_vars PROVE FmtInv'
    OBVIOUS
  <2>1. CASE \E i \in Instances : InstanceStep(i)
    BY <2>1, FilesKeepFmt
  <2>2. CASE UNCHANGED <<local, files>>
    BY <2>2 DEF local, FmtInv, SourcesKept, TmpOwned, TmpWritten, Owns, Cur, IsTmp, SourceSet, FmtTmp, Temp
  <2> QED
    BY <2>1, <2>2 DEF Next, Ended, Interrupt, vars
<1> QED
  BY <1>1, <1>2, DriverAlways, PTL DEF Spec

\* With one instance, no failure of fmt's steps and no ^C between them leaves
\* a source that is not whole, and no ended call a temporary.
THEOREM SourcesStayWhole ==
    ASSUME One PROVE Spec => []SourcesWhole
<1>1. FmtInv => SourcesWhole
  <2> SUFFICES ASSUME FmtInv, NEW n \in DOMAIN Sources
               PROVE  /\ Sources[n] \in DOMAIN files /\ files[Sources[n]] \in {"original", "formatted"}
                      /\ (\A i \in Instances : pc[i] = "idle") => Temp(Sources[n][1], "fmt.tmp") \notin DOMAIN files
    BY DEF SourcesWhole
  <2>1. Sources[n] \in SourceSet /\ IsTmp(Temp(Sources[n][1], "fmt.tmp"))
    BY DEF SourceSet, IsTmp, FmtTmp
  <2> QED
    BY <2>1 DEF FmtInv, SourcesKept, TmpOwned, Owns
<1> QED
  BY <1>1, FmtAlways, PTL

-----------------------------------------------------------------------------
(* What a call leaves.                                                     *)

Removes(x, p) == x.op = "fail" \/ (x.op = "drop" /\ x.f = p)
Later(s, p) == \E m \in 1..Len(s) : Removes(s[m], p)

LEMMA LaterOff ==
    ASSUME NEW S, NEW s \in Seq(S), NEW t \in Seq(S), NEW k \in 0..Len(s), Off(s, t, k), NEW p, Later(s, p),
           \A m \in 1..k : ~Removes(s[m], p)
    PROVE  Later(t, p)
<1>0. Len(s) \in Nat /\ Len(t) \in Nat /\ k \in Nat /\ Len(t) = Len(s) - k
  BY DEF Off
<1>1. PICK m \in 1..Len(s) : Removes(s[m], p)
  BY DEF Later
<1>2. m \notin 1..k
  BY <1>1
<1>3. m - k \in 1..Len(t) /\ (m - k) + k = m
  BY <1>0, <1>2
<1>4. t[m - k] = s[m]
  BY <1>3 DEF Off
<1> QED
  BY <1>1, <1>3, <1>4 DEF Later

LEMMA CleansOff ==
    ASSUME NEW S, NEW s \in Seq(S), NEW t \in Seq(S), NEW k \in 0..Len(s), Off(s, t, k), NEW A, Cleans(s, A)
    PROVE  Cleans(t, A)
<1>0. Len(s) \in Nat /\ Len(t) \in Nat /\ k \in Nat /\ Len(t) = Len(s) - k
  BY DEF Off
<1> SUFFICES ASSUME NEW n \in 1..Len(t), t[n].op \in Makers, t[n].f \notin A
             PROVE  \E m \in 1..Len(t) : n < m /\ (t[m].op = "fail" \/ (t[m].op = "drop" /\ t[m].f = t[n].f))
  BY DEF Cleans
<1> DEFINE j == n + k
<1>1. j \in 1..Len(s) /\ t[n] = s[j]
  BY <1>0 DEF Off
<1> HIDE DEF j
<1>2. PICK m \in 1..Len(s) : j < m /\ (s[m].op = "fail" \/ (s[m].op = "drop" /\ s[m].f = s[j].f))
  BY <1>1 DEF Cleans
<1>3. m - k \in 1..Len(t) /\ (m - k) + k = m /\ n < m - k
  BY <1>0, <1>2 DEF j
<1>4. t[m - k] = s[m]
  BY <1>3 DEF Off
<1> QED
  BY <1>1, <1>2, <1>3, <1>4

\* What the first step makes is dropped by a later one.
LEMMA CleansHead ==
    ASSUME NEW S, NEW s \in Seq(S), s # <<>>, NEW A, Cleans(s, A), Head(s).op \in Makers, Head(s).f \notin A
    PROVE  Later(s, Head(s).f) /\ Later(Tail(s), Head(s).f)
<1>1. /\ Tail(s) \in Seq(S) /\ Off(s, Tail(s), 1) /\ 1 \in 0..Len(s) /\ Head(s) = s[1] /\ 1 \in 1..Len(s)
  BY TailOff
<1>2. \E m \in 1..Len(s) : 1 < m /\ (s[m].op = "fail" \/ (s[m].op = "drop" /\ s[m].f = s[1].f))
  BY <1>1 DEF Cleans
<1>3. Later(s, s[1].f)
  BY <1>2 DEF Later, Removes
<1>4. \A m \in 1..1 : ~Removes(s[m], s[1].f)
  <2>1. \A m \in 1..1 : m = 1
    OBVIOUS
  <2> QED
    BY <1>1, <2>1 DEF Removes, Makers
<1> QED
  BY <1>1, <1>3, <1>4, LaterOff

Accounted(i, p) == \/ p \in before[i] \cup stuck[i] \/ p \in Allowed(req[i], i) \/ IsTmp(p)
                   \/ Later(ops[i], p)
Left(i) ==
    /\ pc[i] # "idle" =>
          /\ SourceSet \subseteq before[i] /\ Cleans(ops[i], Allowed(req[i], i)) /\ res[i] = "none"
          /\ ~req[i].keep => \A p \in DOMAIN files : Accounted(i, p)
    /\ pc[i] = "idle" /\ res[i] = "ok" /\ ~req[i].keep =>
          \A p \in DOMAIN files : p \in before[i] \cup stuck[i] \/ p \in Allowed(req[i], i)

LEMMA StepKeepsLeft ==
    ASSUME One, DriverInv, FmtInv, NEW i \in Instances, Left(i), InstanceStep(i)
    PROVE  Left(i)'
<1> DEFINE S == OpSet(i)
           s == ops[i]
           t == ops'[i]
           f == Cur(i).f
           A == Allowed(req[i], i)
<1>0. \A j \in Instances : j = i
  BY DEF One
<1>s. s \in Seq(S)
  BY DEF DriverInv, Instance, PlanLeft
<1>c. Cur(i) = Head(s)
  BY DEF Cur
<1>f. req[i].mode = "fmt" => FmtShape(s)
  BY DEF DriverInv, Instance, PlanLeft
<1>t. \A p \in DOMAIN files : IsTmp(p) => Owns(i, p)
  BY <1>0 DEF FmtInv, TmpOwned
<1> HIDE DEF S, s, t, f, A
\* A step inside the call: the plan is still clean, every file accounted for.
<1>g. ASSUME pc[i] # "idle", pc'[i] # "idle", Kept(i), res'[i] = res[i], Cleans(t, A),
             ~req[i].keep => \A p \in DOMAIN files' : p \in before[i] \cup stuck'[i] \/ p \in A \/ IsTmp(p) \/ Later(t, p)
      PROVE  Left(i)'
  <2>1. before'[i] = before[i] /\ req'[i] = req[i]
    BY <1>g DEF Kept
  <2>2. SourceSet \subseteq before[i] /\ res[i] = "none"
    BY <1>g DEF Left
  <2>3. Allowed(req'[i], i) = A
    BY <2>1 DEF A
  <2> QED
    BY <1>g, <2>1, <2>2, <2>3 DEF Left, Accounted, A, t, IsTmp, SourceSet, FmtTmp, Temp, Allowed
<1>h. ASSUME pc[i] # "idle"
      PROVE  /\ SourceSet \subseteq before[i] /\ Cleans(s, A)
             /\ ~req[i].keep => \A p \in DOMAIN files : p \in before[i] \cup stuck[i] \/ p \in A \/ IsTmp(p) \/ Later(s, p)
  BY <1>h DEF Left, Accounted, A, s
<1>m. ASSUME pc[i] # "idle", s # <<>>, Cur(i).op \in Makers, f \notin A
      PROVE  Later(s, f) /\ Later(Tail(s), f)
  BY <1>c, <1>h, <1>m, <1>s, CleansHead DEF f
<1>1. CASE FBegins(i)
  <2>1. /\ t = Plan(req'[i], i) /\ req'[i] \in Requests /\ pc'[i] = "op" /\ res'[i] = "none"
        /\ before'[i] = DOMAIN files /\ files' = files
    BY <1>1 DEF FBegins, t
  <2>2. Cleans(t, Allowed(req'[i], i))
    BY <2>1, PlanSound DEF Sound
  <2>3. SourceSet \subseteq DOMAIN files
    BY DEF FmtInv, SourcesKept
  <2>4. \A p \in DOMAIN files' : p \in before'[i]
    BY <2>1
  <2> QED
    BY <2>1, <2>2, <2>3, <2>4 DEF Left, Accounted, Allowed, t, SourceSet
<1>2. CASE FFails(i)
  BY <1>2 DEF FFails, Left
<1>3. CASE FFinishes(i)
  <2>1. pc[i] = "op" /\ pc'[i] = "idle" /\ s = <<>> /\ files' = files /\ before'[i] = before[i] /\ req'[i] = req[i]
        /\ stuck[i] \subseteq stuck'[i]
    BY <1>3 DEF FFinishes, Kept, s
  <2>2. \A p \in DOMAIN files : ~IsTmp(p)
    BY <1>t, <2>1 DEF Owns, s
  <2>3. \A p : ~Later(s, p)
    BY <2>1 DEF Later
  <2>4. ~req[i].keep => \A p \in DOMAIN files : p \in before[i] \cup stuck'[i] \/ p \in A
    BY <1>h, <2>1, <2>2, <2>3
  <2> QED
    BY <2>1, <2>4 DEF Left, A
<1>4. CASE FGoes(i)
  <2>1. pc[i] # "idle" /\ pc'[i] # "idle" /\ Kept(i) /\ res'[i] = res[i] /\ s # <<>> /\ t = Tail(s)
        /\ stuck[i] \subseteq stuck'[i]
    BY <1>4 DEF FGoes, Kept, s, t
  <2>2. /\ t \in Seq(S) /\ Off(s, t, 1) /\ 1 \in 0..Len(s) /\ Head(s) = s[1] /\ 1 \in 1..Len(s)
    BY <1>s, <2>1, TailOff
  <2>3. Cleans(t, A)
    BY <1>h, <1>s, <2>1, <2>2, CleansOff
  <2>4. ASSUME NEW p, ~req[i].keep, p \in DOMAIN files, ~(Cur(i).op = "drop" /\ p = f)
        PROVE  p \in before[i] \cup stuck'[i] \/ p \in A \/ IsTmp(p) \/ Later(t, p)
    <3>1. CASE Later(s, p)
      <4>1. ~Removes(s[1], p)
        BY <1>4, <1>c, <2>2, <2>4 DEF Removes, FGoes, f
      <4>2. \A m \in 1..1 : ~Removes(s[m], p)
        <5>1. \A m \in 1..1 : m = 1
          OBVIOUS
        <5> QED
          BY <4>1, <5>1
      <4> QED
        BY <1>s, <2>2, <3>1, <4>2, LaterOff
    <3> QED
      BY <1>h, <2>1, <2>4, <3>1
  <2>5. ASSUME NEW p \in DOMAIN files', ~req[i].keep
        PROVE  p \in before[i] \cup stuck'[i] \/ p \in A \/ IsTmp(p) \/ Later(t, p)
    <3> DEFINE tmp == FmtTmp(f)
    <3>0. ops[i] \in Seq(OpSet(i)) /\ ops[i] # <<>> /\ Cur(i) = Head(ops[i])
      BY <1>c, <1>s, <2>1 DEF s, S
    <3>k. Cur(i).op \in FmtNames => f \in SourceSet
      BY <3>0, HeadKind DEF f
    <3>7. CASE Cur(i).op \in {"drop", "unlink"} /\ files' = files /\ f \in stuck'[i]
      BY <2>4, <2>5, <3>7
    <3>8. ~(Cur(i).op \in {"drop", "unlink"} /\ files' = files /\ f \in stuck'[i]) => files' = FilesNext(i)
      BY <1>4 DEF FGoes, f
    <3>1. CASE Cur(i).op \in {"copy", "mkdtemp"}
      <4>1. files' = With(files, f, <<i, calls[i]>>)
        BY <3>1, <3>8 DEF FilesNext, f
      <4>2. p \in DOMAIN files \/ p = f
        BY <4>1, WithFacts
      <4>3. f \in A \/ Later(t, f)
        BY <1>m, <2>1, <3>1 DEF Makers
      <4> QED
        BY <2>4, <2>5, <3>1, <4>2, <4>3
    <3>2. CASE Cur(i).op \in {"fopen", "fwrite"}
      <4>1. files' = With(files, tmp, IF Cur(i).op = "fopen" THEN "partial" ELSE "formatted")
        BY <3>2, <3>8 DEF FilesNext, f
      <4>2. p \in DOMAIN files \/ p = tmp
        BY <4>1, WithFacts
      <4>3. IsTmp(tmp)
        BY <3>2, <3>k DEF IsTmp, FmtNames
      <4> QED
        BY <2>4, <2>5, <3>2, <4>2, <4>3
    <3>3. CASE Cur(i).op = "rename"
      <4>1. files' = With(Without(files, tmp), f, files[tmp])
        BY <3>3, <3>8 DEF FilesNext, f
      <4>2. p \in DOMAIN Without(files, tmp) \/ p = f
        BY <4>1, WithFacts
      <4>3. DOMAIN Without(files, tmp) = DOMAIN files \ {tmp}
        BY WithoutFacts
      <4>4. f \in before[i]
        BY <1>h, <2>1, <3>3, <3>k DEF FmtNames
      <4> QED
        BY <2>4, <2>5, <3>3, <4>2, <4>3, <4>4
    <3>4. CASE Cur(i).op = "drop" /\ files' = FilesNext(i)
      <4>1. files' = Without(files, f)
        BY <2>5, <3>4 DEF FilesNext, f
      <4>2. DOMAIN files' = DOMAIN files \ {f}
        BY <4>1, WithoutFacts
      <4> QED
        BY <2>4, <2>5, <4>2
    <3>5. CASE Cur(i).op = "unlink" /\ files' = FilesNext(i)
      <4>1. files' = Without(files, f)
        BY <3>5 DEF FilesNext, f
      <4>2. DOMAIN files' = DOMAIN files \ {f}
        BY <4>1, WithoutFacts
      <4> QED
        BY <2>4, <2>5, <3>5, <4>2
    <3>6. CASE Cur(i).op \notin {"copy", "mkdtemp", "fopen", "fwrite", "rename", "drop", "unlink"}
      <4>1. files' = files
        BY <3>6, <3>8 DEF FilesNext
      <4> QED
        BY <2>4, <2>5, <3>6, <4>1
    <3> QED
      BY <3>1, <3>2, <3>3, <3>4, <3>5, <3>6, <3>7, <3>8
  <2> QED
    BY <1>g, <2>1, <2>3, <2>5
\* A command or a file being written: the plan is not moved on.
<1>5. CASE FWrites(i) \/ FStarts(i) \/ FReaps(i)
  <2>1. pc[i] # "idle" /\ pc'[i] # "idle" /\ Kept(i) /\ res'[i] = res[i] /\ s # <<>> /\ t = s
        /\ stuck[i] \subseteq stuck'[i]
    BY <1>5 DEF FWrites, FStarts, FReaps, Kept, s, t
  <2>2. files' = files \/ (Cur(i).op \in Makers /\ files' = With(files, f, <<i, calls[i]>>))
    BY <1>5 DEF FWrites, FStarts, FReaps, f, Makers
  <2>3. ASSUME NEW p \in DOMAIN files', ~req[i].keep
        PROVE  p \in before[i] \cup stuck'[i] \/ p \in A \/ IsTmp(p) \/ Later(t, p)
    <3>1. CASE p \in DOMAIN files
      BY <1>h, <2>1, <2>3, <3>1
    <3>2. CASE p \notin DOMAIN files
      <4>1. Cur(i).op \in Makers /\ p = f
        BY <2>2, <2>3, <3>2, WithFacts
      <4> QED
        BY <1>m, <2>1, <4>1
    <3> QED
      BY <3>1, <3>2
  <2> QED
    BY <1>g, <1>h, <2>1, <2>3
<1>6. CASE FSkips(i)
  <2>1. /\ pc[i] # "idle" /\ pc'[i] # "idle" /\ Kept(i) /\ res'[i] = res[i] /\ s # <<>> /\ t = SubSeq(s, 5, Len(s))
        /\ files' = files /\ FmtShape(s) /\ Head(s).op = "format" /\ stuck[i] \subseteq stuck'[i]
    BY <1>6, <1>c, <1>f DEF FSkips, Kept, s, t
  <2>2. Head(s) = s[1] /\ 1 \in 1..Len(s) /\ Len(s) \in Nat
    BY <1>s, <2>1, TailOff
  <2>3. 1 + 3 <= Len(s) /\ s[1 + 1].op = "fopen" /\ s[1 + 2].op = "fwrite" /\ s[1 + 3].op = "rename"
    BY <2>1, <2>2 DEF FmtShape
  <2>4. 4 \in 0..Len(s) /\ s[2].op = "fopen" /\ s[3].op = "fwrite" /\ s[4].op = "rename"
    <3>1. 1 + 1 = 2 /\ 1 + 2 = 3 /\ 1 + 3 = 4
      OBVIOUS
    <3> QED
      BY <2>2, <2>3, <3>1
  <2>5. t \in Seq(S) /\ Off(s, t, 4)
    BY <1>s, <2>1, <2>4, SkipOff
  <2>6. Cleans(t, A)
    <3>1. Cleans(s, A)
      BY <1>h, <2>1
    <3> QED
      BY ONLY <1>s, <2>4, <2>5, <3>1, CleansOff
  <2>7. ASSUME NEW p PROVE \A m \in 1..4 : ~Removes(s[m], p)
    <3>1. \A m \in 1..4 : m = 1 \/ m = 2 \/ m = 3 \/ m = 4
      OBVIOUS
    <3>2. s[1].op = "format"
      BY <2>1, <2>2
    <3> QED
      BY <2>4, <3>1, <3>2 DEF Removes
  <2>8. \A p : Later(s, p) => Later(t, p)
    BY <1>s, <2>4, <2>5, <2>7, LaterOff
  <2> QED
    BY <1>g, <1>h, <2>1, <2>6, <2>8
<1> QED
  BY <1>1, <1>2, <1>3, <1>4, <1>5, <1>6, FileEffect

LEMMA LeftAlways ==
    ASSUME One PROVE Spec => [](\A i \in Instances : Left(i))
<1>1. Init => \A i \in Instances : Left(i)
  BY DEF Init, Left
<1>2. /\ DriverInv /\ FmtInv /\ (\A i \in Instances : Left(i)) /\ [Next]_vars
      => (\A i \in Instances : Left(i))'
  <2> SUFFICES ASSUME DriverInv, FmtInv, \A j \in Instances : Left(j), [Next]_vars, NEW i \in Instances
               PROVE  Left(i)'
    OBVIOUS
  <2>1. CASE \E j \in Instances : InstanceStep(j)
    <3>1. InstanceStep(i)
      BY <2>1 DEF One
    <3> QED
      BY <3>1, StepKeepsLeft
  <2>2. CASE UNCHANGED <<local, files>>
    BY <2>2 DEF local, Left, Accounted
  <2> QED
    BY <2>1, <2>2 DEF Next, Ended, Interrupt, vars
<1> QED
  BY <1>1, <1>2, DriverAlways, FmtAlways, PTL DEF Spec

\* With one instance, a call that succeeds without -k has removed every file
\* it made but its output, and run without -o its output too.
THEOREM NothingIsLeft ==
    ASSUME One PROVE Spec => []NothingLeft
<1>1. (\A i \in Instances : Left(i)) => NothingLeft
  <2> SUFFICES ASSUME NEW i \in Instances, Left(i), Finished(i), res[i] = "ok", ~req[i].keep
               PROVE  DOMAIN files \subseteq before[i] \cup stuck[i] \cup (IF req[i].tmpout THEN {} ELSE {Path(Out[i])})
    BY DEF NothingLeft
  <2> QED
    BY DEF Left, Finished, Allowed
<1> QED
  BY <1>1, LeftAlways, PTL

-----------------------------------------------------------------------------
(* What 'run' runs.                                                        *)

\* The program is made by a step still ahead, or was made by this call; then
\* its command succeeded, or its failure is still to be checked.
Ahead(s, n) ==
    \E m \in 1..Len(s) :
       /\ m < n /\ Produces(s[m], s[n].f)
       /\ \A k \in 1..Len(s) : m < k /\ k < n => Passes(s[k], s[n].f)
       /\ \E k \in 1..Len(s) : m < k /\ k < n /\ s[k].op = "check"
Mine(i, p) == p \in DOMAIN files /\ files[p] = <<i, calls[i]>>
Past(s, n) == \A k \in 1..Len(s) : k < n => Passes(s[k], s[n].f)
ToCheck(s, n) == \E k \in 1..Len(s) : k < n /\ s[k].op = "check"
OwnRun(i) ==
    pc[i] # "idle" =>
       /\ \A n \in 1..Len(ops[i]) : ops[i][n].op = "exec" =>
             \/ Ahead(ops[i], n)
             \/ /\ Past(ops[i], n) /\ (r[i] = 0 \/ ToCheck(ops[i], n))
                /\ (r[i] = 0 => Mine(i, ops[i][n].f))
             \/ n = 1 /\ pc[i] = "reaped"
       /\ pc[i] = "reaped" /\ Cur(i).op # "exec" /\ r[i] = 0 => Mine(i, Cur(i).f)

\* One step off the front: what was ahead still is, or was this step.
LEMMA AheadOff ==
    ASSUME NEW S, NEW s \in Seq(S), NEW t \in Seq(S), Off(s, t, 1), 1 \in 1..Len(s),
           NEW n \in 1..Len(t), Ahead(s, n + 1)
    PROVE  /\ t[n] = s[n + 1] /\ n + 1 \in 1..Len(s)
           /\ Ahead(t, n) \/ (Produces(s[1], t[n].f) /\ Past(t, n) /\ ToCheck(t, n))
<1>0. Len(s) \in Nat /\ Len(t) \in Nat /\ Len(t) = Len(s) - 1 /\ n + 1 \in 1..Len(s) /\ t[n] = s[n + 1]
  BY DEF Off
<1>1. PICK m \in 1..Len(s) :
         /\ m < n + 1 /\ Produces(s[m], s[n + 1].f)
         /\ \A k \in 1..Len(s) : m < k /\ k < n + 1 => Passes(s[k], s[n + 1].f)
         /\ \E k \in 1..Len(s) : m < k /\ k < n + 1 /\ s[k].op = "check"
  BY DEF Ahead
<1>2. PICK c \in 1..Len(s) : m < c /\ c < n + 1 /\ s[c].op = "check"
  BY <1>1
<1>3. \A k \in 1..Len(t) : k + 1 \in 1..Len(s) /\ t[k] = s[k + 1] /\ (k < n => k + 1 < n + 1)
                            /\ (m < k + 1 <=> m - 1 < k)
  BY <1>0 DEF Off
<1>4. \A k \in 1..Len(t) : m - 1 < k /\ k < n => Passes(t[k], t[n].f)
  BY <1>0, <1>1, <1>3
<1>5. c - 1 \in 1..Len(t) /\ m - 1 < c - 1 /\ c - 1 < n /\ (c - 1) + 1 = c
  BY <1>0, <1>2
<1>6. t[c - 1].op = "check"
  BY <1>2, <1>3, <1>5
<1>7. CASE m = 1
  <2>1. Past(t, n)
    <3>1. \A k \in 1..Len(t) : m - 1 < k
      BY <1>7
    <3> QED
      BY <1>4, <3>1 DEF Past
  <2>2. ToCheck(t, n)
    BY <1>5, <1>6 DEF ToCheck
  <2> QED
    BY <1>0, <1>1, <1>7, <2>1, <2>2
<1>8. CASE m # 1
  <2>1. m - 1 \in 1..Len(t) /\ m - 1 < n /\ (m - 1) + 1 = m
    BY <1>0, <1>1, <1>8
  <2>2. Produces(t[m - 1], t[n].f)
    BY <1>0, <1>1, <1>3, <2>1
  <2>3. Ahead(t, n)
    BY <1>4, <1>5, <1>6, <2>1, <2>2 DEF Ahead
  <2> QED
    BY <1>0, <2>3
<1> QED
  BY <1>7, <1>8

LEMMA PastOff ==
    ASSUME NEW S, NEW s \in Seq(S), NEW t \in Seq(S), Off(s, t, 1), 1 \in 1..Len(s),
           NEW n \in 1..Len(t), Past(s, n + 1)
    PROVE  /\ t[n] = s[n + 1] /\ n + 1 \in 1..Len(s)
           /\ Past(t, n) /\ Passes(s[1], t[n].f)
           /\ ToCheck(s, n + 1) => s[1].op = "check" \/ ToCheck(t, n)
<1>0. Len(s) \in Nat /\ Len(t) \in Nat /\ Len(t) = Len(s) - 1 /\ n + 1 \in 1..Len(s) /\ t[n] = s[n + 1]
  BY DEF Off
<1>1. \A k \in 1..Len(t) : k + 1 \in 1..Len(s) /\ t[k] = s[k + 1] /\ (k < n => k + 1 < n + 1)
  BY <1>0 DEF Off
<1>2. Past(t, n)
  BY <1>0, <1>1 DEF Past
<1>3. Passes(s[1], t[n].f)
  BY <1>0 DEF Past
<1>4. ASSUME ToCheck(s, n + 1), s[1].op # "check" PROVE ToCheck(t, n)
  <2>1. PICK k \in 1..Len(s) : k < n + 1 /\ s[k].op = "check"
    BY <1>4 DEF ToCheck
  <2>2. k # 1
    BY <1>4, <2>1
  <2>3. k - 1 \in 1..Len(t) /\ k - 1 < n /\ (k - 1) + 1 = k
    BY <1>0, <2>1, <2>2
  <2>4. t[k - 1].op = "check"
    BY <1>1, <2>1, <2>3
  <2> QED
    BY <2>3, <2>4 DEF ToCheck
<1> QED
  BY <1>0, <1>2, <1>3, <1>4

LEMMA StepKeepsRun ==
    ASSUME DriverInv, NEW i \in Instances, OwnRun(i), InstanceStep(i)
    PROVE  OwnRun(i)'
<1> DEFINE S == OpSet(i)
           s == ops[i]
           t == ops'[i]
           f == Cur(i).f
<1>s. s \in Seq(S)
  BY DEF DriverInv, Instance, PlanLeft
<1>c. Cur(i) = Head(s)
  BY DEF Cur
<1>f. req[i].mode = "fmt" => FmtShape(s)
  BY DEF DriverInv, Instance, PlanLeft
<1>o. pc[i] # "idle" =>
         /\ \A n \in 1..Len(s) : s[n].op = "exec" =>
               \/ Ahead(s, n)
               \/ /\ Past(s, n) /\ (r[i] = 0 \/ ToCheck(s, n))
                  /\ (r[i] = 0 => Mine(i, s[n].f))
               \/ n = 1 /\ pc[i] = "reaped"
         /\ pc[i] = "reaped" /\ Cur(i).op # "exec" /\ r[i] = 0 => Mine(i, f)
  BY DEF OwnRun
<1>p. ASSUME \A n \in 1..Len(t) : t[n].op = "exec" =>
               \/ Ahead(t, n)
               \/ /\ Past(t, n) /\ (r'[i] = 0 \/ ToCheck(t, n))
                  /\ (r'[i] = 0 => t[n].f \in DOMAIN files' /\ files'[t[n].f] = <<i, calls'[i]>>)
               \/ n = 1 /\ pc'[i] = "reaped",
             pc'[i] = "reaped" /\ Cur(i)'.op # "exec" /\ r'[i] = 0 =>
               Cur(i)'.f \in DOMAIN files' /\ files'[Cur(i)'.f] = <<i, calls'[i]>>
      PROVE  OwnRun(i)'
  BY <1>p DEF OwnRun, Mine, Ahead, Past, ToCheck, Produces, Passes
<1>h. s # <<>> => Head(s) = s[1] /\ 1 \in 1..Len(s) /\ Len(s) \in Nat
  BY <1>s, TailOff
<1> HIDE DEF S, s, t, f
<1>1. CASE FBegins(i)
  <2>1. t = Plan(req'[i], i) /\ req'[i] \in Requests /\ pc'[i] = "op"
    BY <1>1 DEF FBegins, t
  <2>2. Runs(t)
    BY <2>1, PlanSound
  <2>3. \A n \in 1..Len(t) : t[n].op = "exec" => Ahead(t, n)
    BY <2>2 DEF Runs, Ahead
  <2> QED
    BY <1>p, <2>1, <2>3
<1>2. CASE FFails(i) \/ FFinishes(i)
  BY <1>2 DEF FFails, FFinishes, OwnRun
<1>3. CASE FSkips(i)
  <2>1. FmtShape(s) /\ t = SubSeq(s, 5, Len(s)) /\ pc'[i] = "op" /\ Head(s).op = "format" /\ s # <<>>
    BY <1>3, <1>c, <1>f DEF FSkips, s, t
  <2>2. 1 + 3 <= Len(s)
    BY <1>h, <2>1 DEF FmtShape
  <2>3. 4 \in 0..Len(s)
    BY <1>h, <2>1, <2>2
  <2>4. t \in Seq(S) /\ Off(s, t, 4)
    BY <1>s, <2>1, <2>3, SkipOff
  <2>5. FmtShape(t)
    BY <1>s, <2>1, <2>3, <2>4, FmtShapeOff
  <2>6. \A n \in 1..Len(t) : t[n].op # "exec"
    BY <2>5 DEF FmtShape, NoExec
  <2> QED
    BY <1>p, <2>1, <2>6
<1>4. CASE FWrites(i) \/ FStarts(i)
  <2>1. /\ pc[i] # "idle" /\ pc[i] # "reaped" /\ pc'[i] # "reaped" /\ s # <<>> /\ t = s /\ r'[i] = r[i]
        /\ calls'[i] = calls[i]
    BY <1>4 DEF FWrites, FStarts, Kept, s, t
  <2>2. ASSUME NEW n \in 1..Len(s), s[n].op = "exec", ~Ahead(s, n)
        PROVE  /\ Past(s, n) /\ (r[i] = 0 \/ ToCheck(s, n))
               /\ (r[i] = 0 => s[n].f \in DOMAIN files' /\ files'[s[n].f] = <<i, calls[i]>>)
    <3>1. Past(s, n) /\ (r[i] = 0 \/ ToCheck(s, n)) /\ (r[i] = 0 => Mine(i, s[n].f))
      BY <1>o, <2>1, <2>2
    <3>2. CASE FStarts(i)
      BY <3>1, <3>2 DEF FStarts, Mine
    <3>3. CASE FWrites(i)
      <4>1. s[1].op = "emit" /\ 1 \in 1..Len(s)
        BY <1>c, <1>h, <2>1, <3>3 DEF FWrites
      <4>2. n = 1
        <5>1. ~Passes(s[1], s[n].f)
          BY <4>1 DEF Passes
        <5>2. ~(1 < n)
          BY <3>1, <4>1, <5>1 DEF Past
        <5> QED
          BY <5>2
      <4> QED
        BY <2>2, <4>1, <4>2
    <3> QED
      BY <1>4, <3>2, <3>3
  <2> QED
    BY <1>p, <2>1, <2>2
<1>5. CASE FReaps(i)
  <2>1. /\ pc[i] = "child" /\ pc'[i] = "reaped" /\ s # <<>> /\ t = s /\ calls'[i] = calls[i]
        /\ Cur(i).op \in {"cmd", "cmdok", "exec"} /\ Cur(i)' = Cur(i)
    BY <1>5 DEF FReaps, Kept, s, t, Cur
  <2>2. ASSUME NEW n \in 1..Len(s), s[n].op = "exec", n # 1
        PROVE  Ahead(s, n)
    <3>1. s[1].op \in {"cmd", "cmdok", "exec"} /\ 1 \in 1..Len(s) /\ 1 < n
      BY <1>c, <1>h, <2>1, <2>2
    <3>2. ~Past(s, n)
      BY <3>1 DEF Past, Passes
    <3> QED
      BY <1>o, <2>1, <2>2, <3>2
  <2>3. ASSUME Cur(i).op # "exec", r'[i] = 0
        PROVE  f \in DOMAIN files' /\ files'[f] = <<i, calls[i]>>
    <3>1. files' = With(files, f, <<i, calls[i]>>)
      BY <1>5, <2>3 DEF FReaps, f
    <3> QED
      BY ONLY <3>1, WithFacts
  <2> QED
    BY <1>p, <2>1, <2>2, <2>3 DEF f
<1>6. CASE FGoes(i)
  <2>1. /\ pc[i] # "idle" /\ pc'[i] = "op" /\ s # <<>> /\ t = Tail(s) /\ r'[i] = r[i] /\ calls'[i] = calls[i]
        /\ (Cur(i).op \notin {"drop", "unlink"} => files' = FilesNext(i))
        /\ (files' = FilesNext(i) \/ files' = files)
        /\ Cur(i).op # "fail" /\ (Cur(i).op = "check" => r[i] = 0)
    BY <1>6 DEF FGoes, Kept, s, t
  <2>2. t \in Seq(S) /\ Off(s, t, 1) /\ 1 \in 1..Len(s) /\ Cur(i) = s[1] /\ f = s[1].f
    BY <1>c, <1>h, <1>s, <2>1, TailOff DEF f
  <2>3. ASSUME NEW n \in 1..Len(t), t[n].op = "exec", ~Ahead(t, n)
        PROVE  /\ Past(t, n) /\ (r[i] = 0 \/ ToCheck(t, n))
               /\ (r[i] = 0 => t[n].f \in DOMAIN files' /\ files'[t[n].f] = <<i, calls[i]>>)
    <3>1. t[n] = s[n + 1] /\ n + 1 \in 1..Len(s) /\ n + 1 # 1
      BY <1>s, <2>2 DEF Off
    <3>2. CASE Ahead(s, n + 1)
      <4>1. Produces(s[1], t[n].f) /\ Past(t, n) /\ ToCheck(t, n)
        BY <1>s, <2>2, <2>3, <3>2, AheadOff
      <4>2. ASSUME r[i] = 0 PROVE t[n].f \in DOMAIN files' /\ files'[t[n].f] = <<i, calls[i]>>
        <5>1. Cur(i).op \in {"cmd", "cmdok", "copy"} /\ f = t[n].f
          BY <2>1, <2>2, <4>1 DEF Produces
        <5>2. CASE Cur(i).op = "copy"
          <6>1. files' = With(files, f, <<i, calls[i]>>)
            BY <2>1, <5>2 DEF FilesNext, f
          <6>2. f \in DOMAIN files' /\ files'[f] = <<i, calls[i]>>
            BY ONLY <6>1, WithFacts
          <6> QED
            BY <5>1, <6>2
        <5>3. CASE Cur(i).op \in {"cmd", "cmdok"}
          <6>1. pc[i] = "reaped" /\ files' = files
            BY <1>6, <2>1, <4>2, <5>3 DEF FGoes, FilesNext
          <6>2. Mine(i, f)
            BY <1>o, <2>1, <4>2, <5>3, <6>1
          <6> QED
            BY <5>1, <6>1, <6>2 DEF Mine
        <5> QED
          BY <5>1, <5>2, <5>3
      <4> QED
        BY <4>1, <4>2
    <3>3. CASE ~Ahead(s, n + 1)
      <4>1. Past(s, n + 1) /\ (r[i] = 0 \/ ToCheck(s, n + 1)) /\ (r[i] = 0 => Mine(i, t[n].f))
        BY <1>o, <2>1, <2>3, <3>1, <3>3
      <4>2. /\ Past(t, n) /\ Passes(s[1], t[n].f)
            /\ ToCheck(s, n + 1) => s[1].op = "check" \/ ToCheck(t, n)
        BY <1>s, <2>2, <4>1, PastOff
      <4>3. r[i] = 0 \/ ToCheck(t, n)
        BY <2>1, <2>2, <4>1, <4>2
      <4>4. ASSUME r[i] = 0 PROVE t[n].f \in DOMAIN files' /\ files'[t[n].f] = <<i, calls[i]>>
        <5>1. Mine(i, t[n].f)
          BY <4>1, <4>4
        <5>2. CASE files' = files
          BY <5>1, <5>2 DEF Mine
        <5>3. CASE files' # files
          <6>1. Cur(i).op = "drop" /\ f # t[n].f
            BY <2>1, <2>2, <4>2, <5>3 DEF Passes, FilesNext
          <6>2. files' = Without(files, f)
            BY <2>1, <5>3, <6>1 DEF FilesNext, f
          <6>3. DOMAIN files' = DOMAIN files \ {f} /\ \A x \in DOMAIN files : x # f => files'[x] = files[x]
            BY <6>2, WithoutFacts
          <6> QED
            BY <5>1, <6>1, <6>3 DEF Mine
        <5> QED
          BY <5>2, <5>3
      <4> QED
        BY <4>2, <4>3, <4>4
    <3> QED
      BY <3>2, <3>3
  <2> QED
    BY <1>p, <2>1, <2>3
<1> QED
  BY <1>1, <1>2, <1>3, <1>4, <1>5, <1>6, FileEffect

\* With one instance, the program 'run' starts was made by this call, by a
\* command that succeeded.
THEOREM RunsWhatItBuilt ==
    ASSUME One PROVE Spec => []RunsOwnBuild
<1>1. Init => \A i \in Instances : OwnRun(i)
  BY DEF Init, OwnRun
<1>2. DriverInv /\ (\A i \in Instances : OwnRun(i)) /\ [Next]_vars => (\A i \in Instances : OwnRun(i))'
  <2> SUFFICES ASSUME DriverInv, \A j \in Instances : OwnRun(j), [Next]_vars, NEW i \in Instances
               PROVE  OwnRun(i)'
    OBVIOUS
  <2>1. CASE \E j \in Instances : InstanceStep(j)
    <3>1. InstanceStep(i)
      BY <2>1 DEF One
    <3> QED
      BY <3>1, StepKeepsRun
  <2>2. CASE UNCHANGED <<local, files>>
    <3>1. ops' = ops /\ pc' = pc /\ r' = r /\ calls' = calls /\ files' = files
      BY <2>2 DEF local
    <3>2. Cur(i)' = Cur(i) /\ \A f : Mine(i, f)' <=> Mine(i, f)
      BY <3>1 DEF Cur, Mine
    <3>3. \A n : /\ Ahead(ops[i], n)' <=> Ahead(ops[i], n)
                 /\ Past(ops[i], n)' <=> Past(ops[i], n)
                 /\ ToCheck(ops[i], n)' <=> ToCheck(ops[i], n)
      BY <3>1 DEF Ahead, Past, ToCheck, Produces, Passes
    <3> QED
      BY <3>1, <3>2, <3>3 DEF OwnRun
  <2> QED
    BY <2>1, <2>2 DEF Next, Ended, Interrupt, vars
<1>3. DriverInv /\ (\A i \in Instances : OwnRun(i)) => RunsOwnBuild
  <2> SUFFICES ASSUME DriverInv, NEW i \in Instances, OwnRun(i), pc[i] = "child", Cur(i).op = "exec"
               PROVE  Cur(i).f \in DOMAIN files /\ files[Cur(i).f] = <<i, calls[i]>>
    BY DEF RunsOwnBuild
  <2> DEFINE s == ops[i]
  <2>1. s # <<>> /\ s \in Seq(OpSet(i)) /\ Cur(i) = Head(s)
    BY DEF DriverInv, Instance, PlanLeft, InCmd, Cur
  <2>2. Cur(i) = s[1] /\ 1 \in 1..Len(s)
    BY <2>1, TailOff
  <2>3. ~Ahead(s, 1)
    BY DEF Ahead
  <2>4. ~ToCheck(s, 1)
    BY DEF ToCheck
  <2>5. r[i] = 0 /\ Mine(i, s[1].f)
    BY <2>2, <2>3, <2>4 DEF OwnRun
  <2> QED
    BY <2>2, <2>5 DEF Mine
<1> QED
  BY <1>1, <1>2, <1>3, DriverAlways, PTL DEF Spec
=============================================================================
