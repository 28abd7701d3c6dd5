-------------------------- MODULE ExceptionsProofs --------------------------
(***************************************************************************)
(* The frame stack of the runtime mirrors the C stack, for every program,  *)
(* every TryMax and a stack of any size.                                   *)
(***************************************************************************)
EXTENDS Exceptions, TLAPS, SequenceTheorems, WellFoundedInduction

-----------------------------------------------------------------------------
(* The inductive invariant. *)

\* Each entry belongs to the activation of the call entry at its cp, and td
\* counts the frames armed since that call.
Activations(ks) ==
    \A i \in 1..Len(ks) :
       /\ ks[i].cp \in 1..i
       /\ ks[ks[i].cp].k = "call"
       /\ ks[i].lv = ks[ks[i].cp].lv + ks[i].td
       /\ \A j \in ks[i].cp..i : ks[j].cp = ks[i].cp

\* lv counts the armed frames: it grows by one at a dtry and only there.
Levels(ks) ==
    /\ ks[1].k = "call"
    /\ ks[1].lv = 0
    /\ \A i \in 2..Len(ks) :
          ks[i].lv = (IF ks[i].k = "dtry" THEN ks[i-1].lv + 1 ELSE ks[i-1].lv)
    /\ \A i, j \in 1..Len(ks) : i <= j => ks[i].lv <= ks[j].lv

\* A try or loop entry holds its statement; under a ret no frame is left.
Nodes(ks) ==
    \A i \in 1..Len(ks) :
       /\ ks[i].k \in Bodies => ks[i].node.op = "try"
       /\ ks[i].k = "loop" => ks[i].node.op = "loop"
       /\ ks[i].k = "ret" => ks[i].td = 0

Stack(ks) == /\ ks \in Seq(StackEntry)
             /\ Len(ks) >= 1
             /\ Activations(ks)
             /\ Levels(ks)
             /\ Nodes(ks)

\* n frames are armed, and frame m is the dtry entry that raised lv to m.
Frames(ks, fr, n) ==
    /\ n = ks[Len(ks)].lv
    /\ \A m \in 1..n : /\ fr[m] \in 1..Len(ks)
                       /\ ks[fr[m]].k = "dtry"
                       /\ ks[fr[m]].lv = m

IInv == /\ TypeOK
        /\ Stack(konts)
        /\ Frames(konts, hc_frames, hc_ntry)
        /\ status # "wild"

\* The statement about to run is a break that leaves a dynamic try block.
BreakLeavesTry == /\ status = "run"
                  /\ cur.op = "break"
                  /\ Loops # {}
                  /\ konts[Topmost(Loops) - 1].lv # Top.lv

-----------------------------------------------------------------------------
(* Lemmas. *)

\* A nonempty set of positions up to a bound has a topmost element.
LEMMA TopmostExists ==
    ASSUME NEW N \in Nat, NEW P \in SUBSET (1..N), P # {}
    PROVE  /\ Topmost(P) \in P
           /\ \A j \in P : j <= Topmost(P)
<1> DEFINE T == {x \in Nat : \E i \in P : x = N - i}
<1>1. T \subseteq Nat /\ T # {}
  <2>1. PICK i \in P : TRUE
    OBVIOUS
  <2>2. N - i \in T
    OBVIOUS
  <2> QED
    BY <2>2
<1>2. PICK x \in T : \A y \in T : ~ (<<y, x>> \in OpToRel(<, Nat))
  BY <1>1, WFMin, NatLessThanWellFounded
<1>3. \A y \in T : ~(y < x)
  BY <1>1, <1>2 DEF OpToRel
<1>4. PICK i \in P : x = N - i
  OBVIOUS
<1>5. ASSUME NEW j \in P PROVE j <= i
  <2>1. N - j \in T
    OBVIOUS
  <2>2. ~(N - j < N - i)
    BY <1>3, <1>4, <2>1
  <2> QED
    BY <2>2
<1> QED
  BY <1>5 DEF Topmost

\* The fields of a stack entry.
LEMMA EntryIs ==
    ASSUME NEW ks \in Seq(StackEntry), NEW i \in 1..Len(ks)
    PROVE  /\ ks[i] \in StackEntry
           /\ ks[i].k \in Kinds /\ ks[i].node \in Stmts /\ ks[i].fn \in Funcs
           /\ ks[i].td \in Nat /\ ks[i].cp \in Nat /\ ks[i].lv \in Nat
<1>1. ks[i] \in StackEntry
  OBVIOUS
<1> QED
  BY <1>1 DEF StackEntry

\* What a prefix of the stack is.
LEMMA PrefixIs ==
    ASSUME NEW ks \in Seq(StackEntry), NEW p \in 1..Len(ks)
    PROVE  /\ SubSeq(ks, 1, p) \in Seq(StackEntry)
           /\ Len(SubSeq(ks, 1, p)) = p
           /\ \A i \in 1..p : SubSeq(ks, 1, p)[i] = ks[i]
BY SubSeqProperties

\* Cutting the stack keeps its shape.
LEMMA CutStack ==
    ASSUME NEW ks, Stack(ks), NEW p \in 1..Len(ks)
    PROVE  Stack(SubSeq(ks, 1, p))
<1> DEFINE q == SubSeq(ks, 1, p)
<1>1. q \in Seq(StackEntry) /\ Len(q) = p /\ \A i \in 1..p : q[i] = ks[i]
  BY PrefixIs DEF Stack
<1> HIDE DEF q
<1>2. ks \in Seq(StackEntry) /\ p \in Nat /\ p >= 1 /\ p <= Len(ks)
  BY DEF Stack
<1>3. Activations(q)
  <2> SUFFICES ASSUME NEW i \in 1..Len(q)
               PROVE  /\ q[i].cp \in 1..i
                      /\ q[q[i].cp].k = "call"
                      /\ q[i].lv = q[q[i].cp].lv + q[i].td
                      /\ \A j \in q[i].cp..i : q[j].cp = q[i].cp
    BY DEF Activations
  <2>1. i \in 1..p /\ i \in 1..Len(ks) /\ q[i] = ks[i]
    BY <1>1, <1>2
  <2>2. /\ ks[i].cp \in 1..i
        /\ ks[ks[i].cp].k = "call"
        /\ ks[i].lv = ks[ks[i].cp].lv + ks[i].td
        /\ \A j \in ks[i].cp..i : ks[j].cp = ks[i].cp
    BY <2>1 DEF Activations, Stack
  <2>3. \A j \in ks[i].cp..i : j \in 1..p
    BY <2>1, <2>2
  <2> QED
    BY <1>1, <2>1, <2>2, <2>3
<1>4. Levels(q)
  <2>1. \A i \in 2..p : i \in 2..Len(ks) /\ i - 1 \in 1..p
    BY <1>2
  <2>2. \A i \in 1..p : i \in 1..Len(ks)
    BY <1>2
  <2>3. Levels(ks) /\ q[1] = ks[1]
    BY <1>1, <1>2 DEF Stack
  <2>4. \A i \in 2..p :
          q[i].lv = (IF q[i].k = "dtry" THEN q[i-1].lv + 1 ELSE q[i-1].lv)
    <3> SUFFICES ASSUME NEW i \in 2..p
                 PROVE  q[i].lv = (IF q[i].k = "dtry" THEN q[i-1].lv + 1 ELSE q[i-1].lv)
      OBVIOUS
    <3>1. q[i] = ks[i] /\ q[i-1] = ks[i-1] /\ i \in 2..Len(ks)
      BY <1>1, <2>1
    <3>2. ks[i].lv = (IF ks[i].k = "dtry" THEN ks[i-1].lv + 1 ELSE ks[i-1].lv)
      BY <2>3, <3>1 DEF Levels
    <3> QED
      BY <3>1, <3>2
  <2>5. \A i, j \in 1..p : i <= j => q[i].lv <= q[j].lv
    BY <1>1, <2>2, <2>3 DEF Levels
  <2> QED
    BY <1>1, <2>3, <2>4, <2>5 DEF Levels
<1>5. Nodes(q)
  BY <1>1, <1>2 DEF Nodes, Stack
<1> QED
  BY <1>1, <1>2, <1>3, <1>4, <1>5 DEF Stack, q

\* Cutting the stack at p leaves armed the frames that were armed at p.
LEMMA CutFrames ==
    ASSUME NEW ks, Stack(ks), NEW fr, NEW n \in Nat, Frames(ks, fr, n),
           NEW p \in 1..Len(ks)
    PROVE  Frames(SubSeq(ks, 1, p), fr, ks[p].lv)
<1> DEFINE q == SubSeq(ks, 1, p)
<1>1. q \in Seq(StackEntry) /\ Len(q) = p /\ \A i \in 1..p : q[i] = ks[i]
  BY PrefixIs DEF Stack
<1>2. ks \in Seq(StackEntry) /\ Len(ks) \in Nat /\ p \in Nat /\ p >= 1 /\ p <= Len(ks)
  BY DEF Stack
<1>3. \A i \in 1..Len(ks) : ks[i].lv \in Nat
  BY <1>2, EntryIs
<1>4. ks[p].lv <= n
  BY <1>2, <1>3 DEF Frames, Stack, Levels
<1>5. ASSUME NEW m \in 1..ks[p].lv
      PROVE  fr[m] \in 1..p /\ ks[fr[m]].k = "dtry" /\ ks[fr[m]].lv = m
  <2>1. m \in 1..n
    BY <1>2, <1>3, <1>4
  <2>2. fr[m] \in 1..Len(ks) /\ ks[fr[m]].k = "dtry" /\ ks[fr[m]].lv = m
    BY <2>1 DEF Frames
  <2>3. fr[m] # 1
    BY <2>2 DEF Stack, Levels
  <2>4. fr[m] \in 2..Len(ks) /\ fr[m] - 1 \in 1..Len(ks)
    BY <2>2, <2>3, <1>2
  <2>5. ks[fr[m]].lv = ks[fr[m] - 1].lv + 1
    BY <2>2, <2>4 DEF Stack, Levels
  <2>6. CASE fr[m] > p
    <3>1. ks[p].lv <= ks[fr[m] - 1].lv
      BY <2>4, <2>6, <1>2 DEF Stack, Levels
    <3>2. ks[p].lv \in Nat /\ ks[fr[m] - 1].lv \in Nat /\ m \in Nat /\ m <= ks[p].lv
      BY <2>4, <1>2, <1>3
    <3>3. m = ks[fr[m] - 1].lv + 1
      BY <2>2, <2>5
    <3> QED
      BY <3>1, <3>2, <3>3
  <2> QED
    BY <2>2, <2>6, <1>2
<1> QED
  BY <1>1, <1>2, <1>3, <1>5 DEF Frames

\* Pushing an entry of the running activation that arms no frame.
LEMMA PushStack ==
    ASSUME NEW ks, Stack(ks), NEW k \in Kinds \ {"call"}, NEW node \in Stmts,
           k \in Bodies => node.op = "try", k = "loop" => node.op = "loop",
           k = "ret" => ks[Len(ks)].td = 0
    PROVE  Stack(Append(ks, Over(ks[Len(ks)], k, node)))
<1> DEFINE n == Len(ks)
           e == Over(ks[n], k, node)
           q == Append(ks, e)
<1>1. ks \in Seq(StackEntry) /\ n \in Nat /\ n >= 1 /\ n \in 1..n
  BY DEF Stack
<1>2. /\ ks[n].fn \in Funcs /\ ks[n].td \in Nat /\ ks[n].cp \in Nat /\ ks[n].lv \in Nat
  BY <1>1, EntryIs
<1>3. /\ e.k = k /\ e.node = node /\ e.fn = ks[n].fn /\ e.cp = ks[n].cp
      /\ e.td = ks[n].td + (IF k = "dtry" THEN 1 ELSE 0)
      /\ e.lv = ks[n].lv + (IF k = "dtry" THEN 1 ELSE 0)
      /\ e \in StackEntry
  BY <1>2 DEF Over, Entry, StackEntry
<1> HIDE DEF e
<1>4. q \in Seq(StackEntry) /\ Len(q) = n + 1 /\ q[n + 1] = e /\ \A i \in 1..n : q[i] = ks[i]
  BY <1>1, <1>3
<1> HIDE DEF q
<1>5. Activations(q)
  <2> SUFFICES ASSUME NEW i \in 1..Len(q)
               PROVE  /\ q[i].cp \in 1..i
                      /\ q[q[i].cp].k = "call"
                      /\ q[i].lv = q[q[i].cp].lv + q[i].td
                      /\ \A j \in q[i].cp..i : q[j].cp = q[i].cp
    BY DEF Activations
  <2>1. CASE i \in 1..n
    <3>1. /\ ks[i].cp \in 1..i
          /\ ks[ks[i].cp].k = "call"
          /\ ks[i].lv = ks[ks[i].cp].lv + ks[i].td
          /\ \A j \in ks[i].cp..i : ks[j].cp = ks[i].cp
      BY <2>1 DEF Activations, Stack
    <3>2. \A j \in ks[i].cp..i : j \in 1..n
      BY <2>1, <3>1, <1>1
    <3> QED
      BY <1>4, <2>1, <3>1, <3>2
  <2>2. CASE i = n + 1
    <3>1. /\ ks[n].cp \in 1..n
          /\ ks[ks[n].cp].k = "call"
          /\ ks[n].lv = ks[ks[n].cp].lv + ks[n].td
          /\ \A j \in ks[n].cp..n : ks[j].cp = ks[n].cp
      BY <1>1 DEF Activations, Stack
    <3>2. q[i].cp = ks[n].cp /\ q[q[i].cp] = ks[ks[n].cp]
      BY <1>3, <1>4, <2>2, <3>1
    <3>3. ks[ks[n].cp].lv \in Nat
      BY <3>1, <1>1, EntryIs
    <3>4. q[i].lv = q[q[i].cp].lv + q[i].td
      <4>1. q[i].lv = ks[n].lv + (IF k = "dtry" THEN 1 ELSE 0)
        BY <1>3, <1>4, <2>2
      <4>2. q[i].td = ks[n].td + (IF k = "dtry" THEN 1 ELSE 0)
        BY <1>3, <1>4, <2>2
      <4>3. q[q[i].cp].lv = ks[ks[n].cp].lv
        BY <3>2
      <4> QED
        BY <1>2, <3>1, <3>3, <4>1, <4>2, <4>3
    <3>5. \A j \in q[i].cp..i : q[j].cp = q[i].cp
      BY <1>1, <1>3, <1>4, <2>2, <3>1, <3>2
    <3> QED
      BY <1>1, <2>2, <3>1, <3>2, <3>4, <3>5
  <2> QED
    BY <1>1, <1>4, <2>1, <2>2
<1>6. Levels(q)
  <2>1. q[1].k = "call" /\ q[1].lv = 0
    BY <1>1, <1>4 DEF Stack, Levels
  <2>2. ASSUME NEW i \in 2..Len(q)
        PROVE  q[i].lv = (IF q[i].k = "dtry" THEN q[i-1].lv + 1 ELSE q[i-1].lv)
    <3>1. CASE i \in 2..n
      BY <3>1, <1>1, <1>4 DEF Stack, Levels
    <3>2. CASE i = n + 1
      BY <3>2, <1>1, <1>2, <1>3, <1>4
    <3> QED
      BY <3>1, <3>2, <1>1, <1>4
  <2>3. ASSUME NEW i \in 1..Len(q), NEW j \in 1..Len(q), i <= j
        PROVE  q[i].lv <= q[j].lv
    <3>1. CASE j \in 1..n
      BY <3>1, <2>3, <1>1, <1>4 DEF Stack, Levels
    <3>2. CASE j = n + 1 /\ i \in 1..n
      <4>1. ks[i].lv <= ks[n].lv /\ ks[i].lv \in Nat
        BY <3>2, <1>1, EntryIs DEF Stack, Levels
      <4> QED
        BY <4>1, <3>2, <1>2, <1>3, <1>4
    <3>3. CASE j = n + 1 /\ i = n + 1
      BY <3>3, <1>2, <1>3, <1>4
    <3> QED
      BY <3>1, <3>2, <3>3, <1>1, <1>4
  <2> QED
    BY <2>1, <2>2, <2>3 DEF Levels
<1>7. Nodes(q)
  <2> SUFFICES ASSUME NEW i \in 1..Len(q)
               PROVE  /\ q[i].k \in Bodies => q[i].node.op = "try"
                      /\ q[i].k = "loop" => q[i].node.op = "loop"
                      /\ q[i].k = "ret" => q[i].td = 0
    BY DEF Nodes
  <2>1. CASE i \in 1..n
    BY <2>1, <1>4 DEF Stack, Nodes
  <2>2. CASE i = n + 1
    <3>1. q[i].k = k /\ q[i].node = node /\ q[i].td = e.td
      BY <2>2, <1>3, <1>4
    <3>2. ASSUME k = "ret" PROVE e.td = 0
      <4>1. e.td = ks[n].td + 0
        BY <3>2, <1>3
      <4> QED
        BY <3>2, <4>1, <1>2
    <3> QED
      BY <3>1, <3>2
  <2> QED
    BY <2>1, <2>2, <1>1, <1>4
<1> QED
  BY <1>1, <1>4, <1>5, <1>6, <1>7 DEF Stack, q, e

\* A call starts an activation of its own.
LEMMA CallStack ==
    ASSUME NEW ks, Stack(ks), NEW fn \in Funcs
    PROVE  Stack(Append(ks, CallEntry(fn, Len(ks) + 1, ks[Len(ks)].lv)))
<1> DEFINE n == Len(ks)
           e == CallEntry(fn, n + 1, ks[n].lv)
           q == Append(ks, e)
<1>1. ks \in Seq(StackEntry) /\ n \in Nat /\ n >= 1 /\ n \in 1..n
  BY DEF Stack
<1>2. ks[n].lv \in Nat
  BY <1>1, EntryIs
<1>3. /\ e.k = "call" /\ e.cp = n + 1 /\ e.td = 0 /\ e.lv = ks[n].lv
      /\ e \in StackEntry
  BY <1>1, <1>2, StmtsAssumption DEF CallEntry, Entry, StackEntry, Kinds
<1> HIDE DEF e
<1>4. q \in Seq(StackEntry) /\ Len(q) = n + 1 /\ q[n + 1] = e /\ \A i \in 1..n : q[i] = ks[i]
  BY <1>1, <1>3
<1> HIDE DEF q
<1>5. Activations(q)
  <2> SUFFICES ASSUME NEW i \in 1..Len(q)
               PROVE  /\ q[i].cp \in 1..i
                      /\ q[q[i].cp].k = "call"
                      /\ q[i].lv = q[q[i].cp].lv + q[i].td
                      /\ \A j \in q[i].cp..i : q[j].cp = q[i].cp
    BY DEF Activations
  <2>1. CASE i \in 1..n
    <3>1. /\ ks[i].cp \in 1..i
          /\ ks[ks[i].cp].k = "call"
          /\ ks[i].lv = ks[ks[i].cp].lv + ks[i].td
          /\ \A j \in ks[i].cp..i : ks[j].cp = ks[i].cp
      BY <2>1 DEF Activations, Stack
    <3>2. \A j \in ks[i].cp..i : j \in 1..n
      BY <2>1, <3>1, <1>1
    <3> QED
      BY <1>4, <2>1, <3>1, <3>2
  <2>2. CASE i = n + 1
    BY <1>1, <1>2, <1>3, <1>4, <2>2
  <2> QED
    BY <1>1, <1>4, <2>1, <2>2
<1>6. Levels(q)
  <2>1. q[1].k = "call" /\ q[1].lv = 0
    BY <1>1, <1>4 DEF Stack, Levels
  <2>2. ASSUME NEW i \in 2..Len(q)
        PROVE  q[i].lv = (IF q[i].k = "dtry" THEN q[i-1].lv + 1 ELSE q[i-1].lv)
    <3>1. CASE i \in 2..n
      BY <3>1, <1>1, <1>4 DEF Stack, Levels
    <3>2. CASE i = n + 1
      BY <3>2, <1>1, <1>2, <1>3, <1>4
    <3> QED
      BY <3>1, <3>2, <1>1, <1>4
  <2>3. ASSUME NEW i \in 1..Len(q), NEW j \in 1..Len(q), i <= j
        PROVE  q[i].lv <= q[j].lv
    <3>1. CASE j \in 1..n
      BY <3>1, <2>3, <1>1, <1>4 DEF Stack, Levels
    <3>2. CASE j = n + 1 /\ i \in 1..n
      <4>1. ks[i].lv <= ks[n].lv /\ ks[i].lv \in Nat
        BY <3>2, <1>1, EntryIs DEF Stack, Levels
      <4> QED
        BY <4>1, <3>2, <1>2, <1>3, <1>4
    <3>3. CASE j = n + 1 /\ i = n + 1
      BY <3>3, <1>2, <1>3, <1>4
    <3> QED
      BY <3>1, <3>2, <3>3, <1>1, <1>4
  <2> QED
    BY <2>1, <2>2, <2>3 DEF Levels
<1>7. Nodes(q)
  BY <1>1, <1>3, <1>4 DEF Stack, Nodes, Bodies
<1> QED
  BY <1>1, <1>4, <1>5, <1>6, <1>7 DEF Stack, q, e

\* An entry that leaves lv as it is arms no frame and disarms none.
LEMMA PushFrames ==
    ASSUME NEW ks, Stack(ks), NEW fr, NEW n, Frames(ks, fr, n),
           NEW e \in StackEntry, e.lv = ks[Len(ks)].lv
    PROVE  Frames(Append(ks, e), fr, n)
<1>1. ks \in Seq(StackEntry) /\ Len(ks) \in Nat
  BY DEF Stack
<1>2. /\ Len(Append(ks, e)) = Len(ks) + 1 /\ Append(ks, e)[Len(ks) + 1] = e
      /\ \A i \in 1..Len(ks) : Append(ks, e)[i] = ks[i]
  BY <1>1
<1> QED
  BY <1>1, <1>2 DEF Frames

\* The setjmp of a dynamic try arms frame n + 1.
LEMMA ArmFrames ==
    ASSUME NEW ks, Stack(ks), NEW fr \in [1..TryMax -> Nat], NEW n \in 0..(TryMax - 1),
           Frames(ks, fr, n), NEW node \in Stmts
    PROVE  Frames(Append(ks, Over(ks[Len(ks)], "dtry", node)),
                  [fr EXCEPT ![n + 1] = Len(ks) + 1], n + 1)
<1> DEFINE e == Over(ks[Len(ks)], "dtry", node)
           q == Append(ks, e)
           g == [fr EXCEPT ![n + 1] = Len(ks) + 1]
<1>1. ks \in Seq(StackEntry) /\ Len(ks) \in Nat /\ Len(ks) \in 1..Len(ks)
  BY DEF Stack
<1>2. ks[Len(ks)] \in StackEntry /\ ks[Len(ks)].lv = n
  BY <1>1, EntryIs DEF Frames
<1>3. e.k = "dtry" /\ e.lv = n + 1 /\ e \in StackEntry
  BY <1>2 DEF Over, Entry, StackEntry, Kinds
<1> HIDE DEF e
<1>4. Len(q) = Len(ks) + 1 /\ q[Len(ks) + 1] = e /\ \A i \in 1..Len(ks) : q[i] = ks[i]
  BY <1>1, <1>3
<1>5. n \in Nat /\ n + 1 \in 1..TryMax
  BY TryMaxAssumption
<1>6. g[n + 1] = Len(ks) + 1 /\ \A m \in 1..n : g[m] = fr[m]
  BY <1>5
<1> HIDE DEF g, q
<1>7. \A m \in 1..n : g[m] \in 1..Len(ks) /\ ks[g[m]].k = "dtry" /\ ks[g[m]].lv = m
  BY <1>6 DEF Frames
<1>8. \A m \in 1..(n + 1) : m \in 1..n \/ m = n + 1
  BY <1>5
<1>9. ASSUME NEW m \in 1..(n + 1)
      PROVE  g[m] \in 1..Len(q) /\ q[g[m]].k = "dtry" /\ q[g[m]].lv = m
  <2>1. CASE m \in 1..n
    <3>1. g[m] \in 1..Len(ks) /\ ks[g[m]].k = "dtry" /\ ks[g[m]].lv = m
      BY <1>7, <2>1
    <3>2. q[g[m]] = ks[g[m]] /\ g[m] \in 1..Len(q)
      BY <1>1, <1>4, <3>1
    <3> QED
      BY <3>1, <3>2
  <2>2. CASE m = n + 1
    <3>1. g[m] \in 1..Len(q) /\ q[g[m]] = e
      BY <1>1, <1>4, <1>6, <2>2
    <3> QED
      BY <1>3, <2>2, <3>1
  <2> QED
    BY <1>8, <2>1, <2>2
<1> QED
  BY <1>3, <1>4, <1>9 DEF Frames, g, q, e

\* The frames the invariant describes are exactly the armed try bodies.
LEMMA FramesAreArmed ==
    ASSUME IInv
    PROVE  FramesMatchStack
<1>1. konts \in Seq(StackEntry) /\ Len(konts) \in Nat /\ Len(konts) >= 1 /\ DOMAIN konts = 1..Len(konts)
  BY DEF IInv, Stack
<1>2. \A i \in 1..Len(konts) : konts[i].lv \in Nat
  BY <1>1, EntryIs
<1>3. hc_ntry \in Nat /\ hc_ntry = konts[Len(konts)].lv
  BY <1>1, <1>2 DEF IInv, Frames
<1>4. ASSUME NEW m \in 1..hc_ntry
      PROVE hc_frames[m] \in 1..Len(konts) /\ hc_frames[m] \in Armed /\ konts[hc_frames[m]].lv = m
  BY <1>1 DEF IInv, Frames, Armed
<1>5. ASSUME NEW i \in 1..Len(konts), NEW j \in 1..Len(konts), i <= j
      PROVE konts[i].lv <= konts[j].lv
  BY <1>5 DEF IInv, Stack, Levels
<1>6. ASSUME NEW m \in 1..hc_ntry, NEW n \in 1..hc_ntry, m < n
      PROVE hc_frames[m] < hc_frames[n]
  <2>1. CASE hc_frames[n] <= hc_frames[m]
    <3>1. konts[hc_frames[n]].lv <= konts[hc_frames[m]].lv
      BY <1>4, <1>5, <2>1
    <3>2. n <= m
      BY <3>1, <1>4
    <3> QED
      BY <3>2, <1>3, <1>6
  <2> QED
    BY <2>1, <1>1, <1>4
<1>7. ASSUME NEW i \in Armed
      PROVE \E n \in 1..hc_ntry : hc_frames[n] = i
  <2>1. i \in 2..Len(konts) /\ konts[i].k = "dtry"
    BY <1>1 DEF Armed, IInv, Stack, Levels
  <2>2. konts[i].lv = konts[i-1].lv + 1 /\ i - 1 \in 1..Len(konts) /\ konts[i-1].lv \in Nat
    BY <2>1, <1>1, <1>2 DEF IInv, Stack, Levels
  <2> DEFINE n == konts[i].lv
  <2>3. n \in 1..hc_ntry
    BY <1>1, <1>2, <1>3, <1>5, <2>1, <2>2
  <2> HIDE DEF n
  <2> DEFINE j == hc_frames[n]
  <2>4. j \in 2..Len(konts) /\ konts[j].k = "dtry" /\ konts[j].lv = n
    BY <2>3, <1>1, <1>4 DEF Armed, IInv, Stack, Levels
  <2>5. konts[j].lv = konts[j-1].lv + 1 /\ j - 1 \in 1..Len(konts) /\ konts[j-1].lv \in Nat
    BY <2>4, <1>1, <1>2 DEF IInv, Stack, Levels
  <2> HIDE DEF j
  <2>6. CASE j < i
    <3>1. konts[j].lv <= konts[i-1].lv
      BY <2>6, <2>1, <2>2, <2>4, <1>1, <1>5
    <3> QED
      BY <3>1, <2>2, <2>4 DEF n
  <2>7. CASE i < j
    <3>1. konts[i].lv <= konts[j-1].lv
      BY <2>7, <2>1, <2>4, <2>5, <1>1, <1>5
    <3> QED
      BY <3>1, <2>2, <2>4, <2>5 DEF n
  <2>8. CASE i = j
    BY <2>8, <2>3 DEF j
  <2> QED
    BY <2>1, <2>4, <2>6, <2>7, <2>8
<1> QED
  BY <1>4, <1>6, <1>7 DEF FramesMatchStack

-----------------------------------------------------------------------------
(* Steps. *)

\* What a step of the program has to establish.
LEMMA RunKeeps ==
    ASSUME IInv, UNCHANGED <<prog, analysis>>,
           status' \in {"run", "done", "unhandled", "toodeep", "overflow"},
           cur' \in Stmts, except_ch' \in Chars, catch_except' \in BOOLEAN,
           hc_frames' \in [1..TryMax -> Nat], hc_ntry' \in 0..TryMax,
           Stack(konts'), Frames(konts', hc_frames', hc_ntry')
    PROVE  IInv'
<1>1. konts' \in Seq(StackEntry) /\ konts' # <<>>
  BY DEF Stack
<1>2. TypeOK'
  BY <1>1 DEF IInv, TypeOK, analysis
<1>3. Stack(konts)' /\ Frames(konts, hc_frames, hc_ntry)'
  BY DEF Stack, Frames, Activations, Levels, Nodes
<1> QED
  BY <1>2, <1>3 DEF IInv

\* Facts about the stack that every step uses.
LEMMA StackFacts ==
    ASSUME IInv
    PROVE  /\ konts \in Seq(StackEntry) /\ Len(konts) \in Nat /\ Len(konts) >= 1
           /\ DOMAIN konts = 1..Len(konts) /\ Len(konts) \in 1..Len(konts)
           /\ Top.cp \in 1..Len(konts) /\ Top.td \in Nat /\ Top.lv = hc_ntry
           /\ Top.node \in Stmts /\ Top.fn \in Funcs
           /\ konts[Top.cp].lv \in Nat /\ hc_ntry = konts[Top.cp].lv + Top.td
           /\ hc_ntry \in Nat /\ hc_ntry \in 0..TryMax
           /\ \A i \in 1..Len(konts) : konts[i].lv \in 0..hc_ntry
<1>1. konts \in Seq(StackEntry) /\ Len(konts) \in Nat /\ Len(konts) >= 1
      /\ DOMAIN konts = 1..Len(konts) /\ Len(konts) \in 1..Len(konts)
  BY DEF IInv, Stack
<1>2. Top.td \in Nat /\ Top.node \in Stmts /\ Top.fn \in Funcs
  BY <1>1, EntryIs DEF Top
<1>3. Top.cp \in 1..Len(konts) /\ Top.lv = konts[Top.cp].lv + Top.td
  BY <1>1 DEF IInv, Stack, Activations, Top
<1>4. Top.lv = hc_ntry /\ hc_ntry \in 0..TryMax /\ hc_ntry \in Nat
  BY TryMaxAssumption DEF IInv, Frames, Top, TypeOK
<1>5. ASSUME NEW i \in 1..Len(konts) PROVE konts[i].lv \in 0..hc_ntry
  <2>1. konts[i].lv \in Nat
    BY <1>1, EntryIs
  <2>2. konts[i].lv <= konts[Len(konts)].lv
    BY <1>1 DEF IInv, Stack, Levels
  <2> QED
    BY <2>1, <2>2, <1>4 DEF Top
<1> QED
  BY <1>1, <1>2, <1>3, <1>4, <1>5

\* The stack is cut at p and the frames above p are disarmed.
LEMMA CutKeeps ==
    ASSUME IInv, NEW p \in 1..Len(konts), konts' = SubSeq(konts, 1, p),
           hc_ntry' = konts[p].lv, UNCHANGED hc_frames
    PROVE  /\ Stack(konts') /\ Frames(konts', hc_frames', hc_ntry')
           /\ hc_ntry' \in 0..TryMax /\ hc_frames' \in [1..TryMax -> Nat]
<1>1. Stack(konts) /\ Frames(konts, hc_frames, hc_ntry) /\ hc_ntry \in Nat
  BY StackFacts DEF IInv
<1>2. Stack(SubSeq(konts, 1, p)) /\ Frames(SubSeq(konts, 1, p), hc_frames, konts[p].lv)
  BY <1>1, CutStack, CutFrames
<1>3. konts[p].lv \in 0..TryMax
  BY StackFacts, TryMaxAssumption
<1> QED
  BY <1>2, <1>3 DEF IInv, TypeOK

\* An entry of the activation is pushed and no frame is armed.
LEMMA PushKeeps ==
    ASSUME IInv, NEW k \in Kinds \ {"call", "dtry", "ret"}, NEW node \in Stmts,
           k \in Bodies => node.op = "try", k = "loop" => node.op = "loop",
           konts' = Push(k, node), UNCHANGED frames
    PROVE  /\ Stack(konts') /\ Frames(konts', hc_frames', hc_ntry')
           /\ hc_ntry' \in 0..TryMax /\ hc_frames' \in [1..TryMax -> Nat]
<1>1. Stack(konts) /\ Frames(konts, hc_frames, hc_ntry)
  BY DEF IInv
<1>2. Stack(konts')
  BY <1>1, PushStack DEF Push, Top
<1>3. konts[Len(konts)] \in StackEntry
  BY StackFacts, EntryIs
<1>4. Over(Top, k, node) \in StackEntry /\ Over(Top, k, node).lv = konts[Len(konts)].lv
  BY <1>3 DEF Over, Entry, StackEntry, Top
<1>5. Frames(konts', hc_frames, hc_ntry)
  BY <1>1, <1>4, PushFrames DEF Push
<1> QED
  BY <1>2, <1>5 DEF IInv, TypeOK, frames

\* Control enters the catch block of a try whose frame, if it had one, is gone.
LEMMA CatchKeeps ==
    ASSUME IInv, NEW h \in 2..Len(konts), konts[h].k \in Bodies, EnterCatch(h),
           hc_ntry' = konts[h - 1].lv, UNCHANGED hc_frames
    PROVE  /\ Stack(konts') /\ Frames(konts', hc_frames', hc_ntry')
           /\ hc_ntry' \in 0..TryMax /\ hc_frames' \in [1..TryMax -> Nat]
           /\ cur' \in Stmts /\ UNCHANGED status
<1> DEFINE q == SubSeq(konts, 1, h - 1)
           node == konts[h].node
<1>1. konts \in Seq(StackEntry) /\ Len(konts) \in Nat /\ h \in 1..Len(konts) /\ h - 1 \in 1..Len(konts)
  BY StackFacts
<1>2. node \in Stmts /\ node.op = "try"
  BY <1>1, EntryIs DEF IInv, Stack, Nodes
<1>3. node.b \in Stmts
  BY <1>2, StmtsAssumption DEF WellFormed, Binary
<1>4. Stack(konts) /\ Frames(konts, hc_frames, hc_ntry) /\ hc_ntry \in Nat
  BY StackFacts DEF IInv
<1>5. Stack(q) /\ Frames(q, hc_frames, konts[h - 1].lv)
  BY <1>1, <1>4, CutStack, CutFrames
<1>6. q \in Seq(StackEntry) /\ Len(q) = h - 1 /\ q[h - 1] = konts[h - 1]
  BY <1>1, PrefixIs
<1> HIDE DEF q
<1>7. konts' = Append(q, Over(q[Len(q)], "catch", node))
  BY <1>6 DEF EnterCatch, Goto, Below, q
<1>8. "catch" \in Kinds \ {"call"} /\ "catch" \notin Bodies
  BY DEF Kinds, Bodies
<1>9. Stack(konts')
  BY <1>2, <1>5, <1>7, <1>8, PushStack
<1>10. q[Len(q)] \in StackEntry
  BY <1>1, <1>6, EntryIs
<1>11. Over(q[Len(q)], "catch", node) \in StackEntry
       /\ Over(q[Len(q)], "catch", node).lv = q[Len(q)].lv
  BY <1>2, <1>8, <1>10 DEF Over, Entry, StackEntry
<1>12. Frames(konts', hc_frames, konts[h - 1].lv)
  BY <1>5, <1>6, <1>7, <1>11, PushFrames
<1>13. konts[h - 1].lv \in 0..TryMax
  BY <1>1, StackFacts, TryMaxAssumption
<1> QED
  BY <1>3, <1>9, <1>12, <1>13 DEF IInv, TypeOK, EnterCatch, Goto

\* The runtime's throw finds its setjmp.
LEMMA RtThrowKeeps ==
    ASSUME IInv, status = "run", NEW ch \in Chars, rt_throw(ch)
    PROVE  /\ status' \in {"run", "unhandled"} /\ cur' \in Stmts
           /\ except_ch' \in Chars /\ catch_except' \in BOOLEAN
           /\ Stack(konts') /\ Frames(konts', hc_frames', hc_ntry')
           /\ hc_ntry' \in 0..TryMax /\ hc_frames' \in [1..TryMax -> Nat]
<1>1. except_ch' \in Chars /\ catch_except' \in BOOLEAN
  BY DEF rt_throw
<1>2. CASE hc_ntry = 0
  BY <1>1, <1>2 DEF rt_throw, Stop, frames, IInv, TypeOK
<1>3. CASE hc_ntry # 0
  <2> DEFINE h == hc_frames[hc_ntry]
  <2>1. hc_ntry \in 1..hc_ntry
    BY <1>3, StackFacts
  <2>2. h \in 1..Len(konts) /\ konts[h].k = "dtry" /\ konts[h].lv = hc_ntry
    BY <2>1 DEF IInv, Frames
  <2>3. h \in 2..Len(konts) /\ h - 1 \in 1..Len(konts)
    BY <2>2, StackFacts DEF IInv, Stack, Levels
  <2>4. konts[h].lv = konts[h - 1].lv + 1 /\ konts[h - 1].lv \in Nat
    BY <2>2, <2>3, StackFacts, EntryIs DEF IInv, Stack, Levels
  <2>5. hc_ntry' = konts[h - 1].lv /\ UNCHANGED hc_frames /\ EnterCatch(h)
    <3>1. hc_ntry' = hc_ntry - 1 /\ UNCHANGED hc_frames
      BY <1>3 DEF rt_throw
    <3>2. h \in DOMAIN konts /\ konts[h].k = "dtry"
      BY <2>2, StackFacts
    <3>3. EnterCatch(h)
      BY <1>3, <3>2, Zenon DEF rt_throw
    <3>4. hc_ntry = konts[h - 1].lv + 1
      BY <2>2, <2>4
    <3>5. konts[h - 1].lv = hc_ntry - 1
      BY <3>4, <2>4
    <3> QED
      BY <3>1, <3>3, <3>5
  <2> HIDE DEF h
  <2> QED
    BY <1>1, <2>2, <2>3, <2>5, CatchKeeps DEF Bodies
<1> QED
  BY <1>2, <1>3

\* When the nearest lexical handler is a local one, no frame is armed above it.
LEMMA LocalHandlerLevel ==
    ASSUME IInv, NEW n \in {Len(konts), Len(konts) + 1},
           n = Len(konts) => Top.k # "dtry",
           LocalHandler(n)
    PROVE  /\ Topmost(Handlers(n)) \in 2..Len(konts)
           /\ konts[Topmost(Handlers(n))].k = "ltry"
           /\ konts[Topmost(Handlers(n)) - 1].lv = hc_ntry
<1> DEFINE H == Handlers(n)
           h == Topmost(H)
<1>1. H \in SUBSET (1..Len(konts)) /\ H # {} /\ Len(konts) \in Nat
  BY StackFacts DEF Handlers, LocalHandler
<1>2. h \in H /\ \A j \in H : j <= h
  BY <1>1, TopmostExists
<1>3. konts[h].k = "ltry"
  BY DEF LocalHandler
<1>4. h \in 1..Len(konts) /\ Top.cp < h
  BY <1>2, StackFacts DEF Handlers
<1>5. h \in 2..Len(konts) /\ h - 1 \in 1..Len(konts)
  BY <1>4, StackFacts
<1> HIDE DEF h
<1>6. konts[h].lv = konts[h - 1].lv /\ konts[h].lv \in 0..hc_ntry
  BY <1>3, <1>5, StackFacts DEF IInv, Stack, Levels
<1>7. ASSUME konts[h].lv < hc_ntry PROVE FALSE
  <2> DEFINE m == konts[h].lv + 1
             d == hc_frames[m]
  <2>1. m \in 1..hc_ntry
    BY <1>6, <1>7, StackFacts
  <2>2. d \in 1..Len(konts) /\ konts[d].k = "dtry" /\ konts[d].lv = m
    BY <2>1 DEF IInv, Frames
  <2> HIDE DEF d
  <2>3. d > h
    <3>1. CASE d <= h
      <4>1. konts[d].lv <= konts[h].lv
        BY <2>2, <1>4, <3>1 DEF IInv, Stack, Levels
      <4> QED
        BY <4>1, <2>2, <1>6, StackFacts
    <3> QED
      BY <3>1, <2>2, <1>4, StackFacts
  <2>4. d < n
    BY <2>2, StackFacts DEF Top
  <2>5. d \in H
    BY <2>2, <2>3, <2>4, <1>4, StackFacts DEF Handlers
  <2> QED
    BY <2>3, <2>5, <1>2, <1>4, <2>2, StackFacts
<1>8. konts[h - 1].lv = hc_ntry
  BY <1>6, <1>7, StackFacts
<1> QED
  BY <1>3, <1>5, <1>8 DEF h

\* A local throw or rethrow: a goto to the catch label.
LEMMA LocalThrowKeeps ==
    ASSUME IInv, NEW n \in {Len(konts), Len(konts) + 1},
           n = Len(konts) => Top.k # "dtry",
           LocalHandler(n), EnterCatch(Topmost(Handlers(n))), UNCHANGED frames
    PROVE  /\ Stack(konts') /\ Frames(konts', hc_frames', hc_ntry')
           /\ hc_ntry' \in 0..TryMax /\ hc_frames' \in [1..TryMax -> Nat]
           /\ cur' \in Stmts /\ UNCHANGED status
<1> DEFINE h == Topmost(Handlers(n))
<1>1. h \in 2..Len(konts) /\ konts[h].k = "ltry" /\ konts[h - 1].lv = hc_ntry
  BY LocalHandlerLevel
<1>2. hc_ntry' = konts[h - 1].lv /\ UNCHANGED hc_frames
  BY <1>1 DEF frames
<1>3. EnterCatch(h)
  OBVIOUS
<1> HIDE DEF h
<1>4. konts[h].k \in Bodies
  BY <1>1 DEF Bodies
<1> QED
  BY <1>1, <1>2, <1>3, <1>4, CatchKeeps

\* return f() disarms the running activation and leaves the others alone.
LEMMA DisarmStack ==
    ASSUME Stack(konts)
    PROVE  /\ Stack(Disarmed)
           /\ Len(Disarmed) = Len(konts)
           /\ Disarmed[Len(konts)].td = 0
           /\ \A i \in 1..Top.cp : Disarmed[i] = konts[i]
           /\ \A i \in Top.cp..Len(konts) : Disarmed[i].lv = konts[Top.cp].lv
           /\ \A i \in 1..Len(konts) :
                 /\ Disarmed[i].node = konts[i].node /\ Disarmed[i].fn = konts[i].fn
                 /\ Disarmed[i].cp = konts[i].cp
                 /\ Disarmed[i].k = (IF i > Top.cp /\ konts[i].k = "dtry" THEN "popped"
                                     ELSE konts[i].k)
<1> DEFINE c == Top.cp
           n == Len(konts)
           q == Disarmed
           b == konts[c].lv
<1>1. konts \in Seq(StackEntry) /\ n \in Nat /\ n >= 1 /\ DOMAIN konts = 1..n /\ c \in 1..n /\ b \in Nat
  <2>1. konts \in Seq(StackEntry) /\ n \in Nat /\ n >= 1 /\ DOMAIN konts = 1..n /\ n \in 1..n
    BY DEF Stack
  <2>2. c \in 1..n
    BY <2>1 DEF Stack, Activations, Top
  <2> QED
    BY <2>1, <2>2, EntryIs
<1>2. ASSUME NEW i \in 1..c PROVE q[i] = konts[i]
  <2>1. i \in 1..n /\ i <= Top.cp
    BY <1>1
  <2> QED
    BY <1>1, <2>1 DEF Disarmed
<1>3. ASSUME NEW i \in (c + 1)..n
      PROVE  /\ q[i].k = (IF konts[i].k = "dtry" THEN "popped" ELSE konts[i].k)
             /\ q[i].node = konts[i].node /\ q[i].fn = konts[i].fn /\ q[i].cp = konts[i].cp
             /\ q[i].td = 0 /\ q[i].lv = b /\ q[i] \in StackEntry
  <2>1. konts[i] \in StackEntry /\ i \in 1..n /\ ~(i <= c)
    BY <1>1, EntryIs
  <2>2. q[i] = Entry(IF konts[i].k = "dtry" THEN "popped" ELSE konts[i].k,
                     konts[i].node, konts[i].fn, 0, konts[i].cp, b)
    BY <1>1, <2>1 DEF Disarmed
  <2>3. /\ konts[i].k \in Kinds /\ konts[i].node \in Stmts /\ konts[i].fn \in Funcs
        /\ konts[i].cp \in Nat
    BY <1>1, <2>1, EntryIs
  <2> QED
    BY <1>1, <2>2, <2>3 DEF Entry, StackEntry, Kinds
<1>4. \A i \in 1..n : q[i] \in StackEntry
  BY <1>1, <1>2, <1>3, EntryIs
<1>5. q \in Seq(StackEntry) /\ Len(q) = n
  <2>1. q = [i \in 1..n |-> q[i]]
    BY <1>1 DEF Disarmed
  <2> QED
    BY <1>1, <1>4, <2>1
<1> HIDE DEF q
<1>6. \A i \in c..n : konts[i].cp = c
  BY <1>1 DEF Top, Stack, Activations
<1>7. \A i \in 1..n : q[i].cp = konts[i].cp
  BY <1>1, <1>2, <1>3
<1>8. konts[c].k = "call" /\ q[c] = konts[c]
  BY <1>1, <1>2 DEF Top, Stack, Activations
<1>9. \A i \in c..n : q[i].lv = b
  BY <1>1, <1>3, <1>8
<1>10. Activations(q)
  <2> SUFFICES ASSUME NEW i \in 1..n
               PROVE  /\ q[i].cp \in 1..i
                      /\ q[q[i].cp].k = "call"
                      /\ q[i].lv = q[q[i].cp].lv + q[i].td
                      /\ \A j \in q[i].cp..i : q[j].cp = q[i].cp
    BY <1>5 DEF Activations
  <2>1. /\ konts[i].cp \in 1..i
        /\ konts[konts[i].cp].k = "call"
        /\ konts[i].lv = konts[konts[i].cp].lv + konts[i].td
        /\ \A j \in konts[i].cp..i : konts[j].cp = konts[i].cp
    BY DEF Stack, Activations
  <2>2. q[i].cp = konts[i].cp /\ \A j \in konts[i].cp..i : j \in 1..n
    BY <1>1, <1>7, <2>1
  <2>3. CASE i <= c
    BY <1>1, <1>2, <1>7, <2>1, <2>2, <2>3
  <2>4. CASE i > c
    BY <1>1, <1>3, <1>6, <1>7, <1>8, <2>1, <2>2, <2>4
  <2> QED
    BY <2>3, <2>4, <1>1
<1>11. Levels(q)
  <2>1. q[1].k = "call" /\ q[1].lv = 0
    BY <1>1, <1>2 DEF Stack, Levels
  <2>2. ASSUME NEW i \in 2..n
        PROVE  q[i].lv = (IF q[i].k = "dtry" THEN q[i-1].lv + 1 ELSE q[i-1].lv)
    <3>1. CASE i <= c
      BY <3>1, <1>1, <1>2 DEF Stack, Levels
    <3>2. CASE i > c
      <4>1. q[i].k # "dtry" /\ i \in c..n /\ i - 1 \in c..n
        BY <3>2, <1>1, <1>3
      <4> QED
        BY <4>1, <1>9
    <3> QED
      BY <3>1, <3>2, <1>1
  <2>3. ASSUME NEW i \in 1..n, NEW j \in 1..n, i <= j
        PROVE  q[i].lv <= q[j].lv
    <3>1. \A m \in 1..c : konts[m].lv <= b
      BY <1>1 DEF Stack, Levels
    <3>2. CASE j <= c
      BY <3>2, <2>3, <1>1, <1>2 DEF Stack, Levels
    <3>3. CASE i <= c /\ j > c
      BY <3>1, <3>3, <1>1, <1>2, <1>9
    <3>4. CASE i > c
      BY <3>4, <2>3, <1>1, <1>9
    <3> QED
      BY <3>2, <3>3, <3>4, <1>1
  <2> QED
    BY <2>1, <2>2, <2>3, <1>5 DEF Levels
<1>12. Nodes(q)
  <2> SUFFICES ASSUME NEW i \in 1..n
               PROVE  /\ q[i].k \in Bodies => q[i].node.op = "try"
                      /\ q[i].k = "loop" => q[i].node.op = "loop"
                      /\ q[i].k = "ret" => q[i].td = 0
    BY <1>5 DEF Nodes
  <2>1. /\ konts[i].k \in Bodies => konts[i].node.op = "try"
        /\ konts[i].k = "loop" => konts[i].node.op = "loop"
        /\ konts[i].k = "ret" => konts[i].td = 0
    BY DEF Stack, Nodes
  <2>2. CASE i <= c
    BY <2>1, <2>2, <1>1, <1>2
  <2>3. CASE i > c
    BY <2>1, <2>3, <1>1, <1>3 DEF Bodies
  <2> QED
    BY <2>2, <2>3, <1>1
<1>13. q[n].td = 0
  <2>1. CASE c < n
    BY <2>1, <1>1, <1>3
  <2>2. CASE c = n
    <3>1. konts[n].lv = konts[c].lv + konts[n].td /\ konts[n].td \in Nat
      BY <1>1, EntryIs DEF Stack, Activations, Top
    <3> QED
      BY <2>2, <3>1, <1>1, <1>8
  <2> QED
    BY <2>1, <2>2, <1>1
<1>14. \A i \in 1..n :
          /\ q[i].node = konts[i].node /\ q[i].fn = konts[i].fn
          /\ q[i].k = (IF i > c /\ konts[i].k = "dtry" THEN "popped" ELSE konts[i].k)
  <2> SUFFICES ASSUME NEW i \in 1..n
               PROVE  /\ q[i].node = konts[i].node /\ q[i].fn = konts[i].fn
                      /\ q[i].k = (IF i > c /\ konts[i].k = "dtry" THEN "popped" ELSE konts[i].k)
    OBVIOUS
  <2>1. CASE i <= c
    BY <2>1, <1>1, <1>2
  <2>2. CASE i > c
    BY <2>2, <1>1, <1>3
  <2> QED
    BY <2>1, <2>2, <1>1
<1>15. Stack(q)
  BY <1>1, <1>5, <1>10, <1>11, <1>12 DEF Stack
<1> QED
  BY <1>2, <1>5, <1>7, <1>9, <1>13, <1>14, <1>15 DEF q

\* return f() disarms the activation's frames and starts f.
LEMMA DisarmKeeps ==
    ASSUME IInv
    PROVE  /\ Stack(Disarmed)
           /\ Frames(Disarmed, hc_frames, konts[Top.cp].lv)
           /\ Len(Disarmed) = Len(konts)
           /\ Disarmed[Len(konts)].lv = konts[Top.cp].lv
           /\ Disarmed[Len(konts)].td = 0
<1> DEFINE c == Top.cp
           n == Len(konts)
           q == Disarmed
           b == konts[c].lv
<1>1. konts \in Seq(StackEntry) /\ n \in Nat /\ n \in 1..n /\ c \in 1..n /\ b \in Nat
  BY StackFacts
<1>2. /\ Stack(q) /\ Len(q) = n /\ q[n].td = 0
      /\ \A i \in 1..c : q[i] = konts[i]
      /\ \A i \in c..n : q[i].lv = b
  BY DisarmStack DEF IInv
<1>3. Frames(SubSeq(konts, 1, c), hc_frames, b)
  BY <1>1, StackFacts, CutFrames DEF IInv
<1> HIDE DEF q
<1>4. Frames(q, hc_frames, b)
  <2>0. Len(SubSeq(konts, 1, c)) = c /\ \A i \in 1..c : SubSeq(konts, 1, c)[i] = konts[i]
    BY <1>1, PrefixIs
  <2>1. \A m \in 1..b : hc_frames[m] \in 1..c /\ konts[hc_frames[m]].k = "dtry" /\ konts[hc_frames[m]].lv = m
    BY <2>0, <1>3 DEF Frames
  <2>2. \A m \in 1..b : hc_frames[m] \in 1..n /\ q[hc_frames[m]] = konts[hc_frames[m]]
    BY <2>1, <1>1, <1>2
  <2>3. n \in c..n
    BY <1>1
  <2> QED
    BY <2>1, <2>2, <2>3, <1>1, <1>2 DEF Frames
<1>5. n \in c..n
  BY <1>1
<1> QED
  BY <1>2, <1>4, <1>5 DEF q

\* The block on top of the stack ends and is popped.
LEMMA PopKeeps ==
    ASSUME IInv, Top.k # "call", konts' = Pop, UNCHANGED hc_frames,
           hc_ntry' = (IF Top.k = "dtry" THEN hc_ntry - 1 ELSE hc_ntry)
    PROVE  /\ Stack(konts') /\ Frames(konts', hc_frames', hc_ntry')
           /\ hc_ntry' \in 0..TryMax /\ hc_frames' \in [1..TryMax -> Nat]
<1> DEFINE n == Len(konts)
<1>1. n \in Nat /\ n >= 1 /\ n # 1
  BY StackFacts DEF IInv, Stack, Levels, Top
<1>2. n \in 2..n /\ n - 1 \in 1..n
  BY <1>1
<1>3. konts[n].lv = (IF Top.k = "dtry" THEN konts[n - 1].lv + 1 ELSE konts[n - 1].lv)
  BY <1>2 DEF IInv, Stack, Levels, Top
<1>4. konts[n].lv = hc_ntry /\ konts[n - 1].lv \in Nat
  BY <1>2, StackFacts, EntryIs DEF Top
<1>5. hc_ntry' = konts[n - 1].lv
  BY <1>3, <1>4
<1>6. konts' = SubSeq(konts, 1, n - 1)
  BY DEF Pop, Below
<1> QED
  BY <1>2, <1>5, <1>6, CutKeeps

\* Control returns from the running activation.
LEMMA ReturnKeeps ==
    ASSUME IInv, konts' = SubSeq(konts, 1, Top.cp), UNCHANGED hc_frames,
           hc_ntry' = hc_ntry - Top.td
    PROVE  /\ Stack(konts') /\ Frames(konts', hc_frames', hc_ntry')
           /\ hc_ntry' \in 0..TryMax /\ hc_frames' \in [1..TryMax -> Nat]
<1>1. Top.cp \in 1..Len(konts) /\ konts[Top.cp].lv \in Nat /\ Top.td \in Nat
      /\ hc_ntry = konts[Top.cp].lv + Top.td
  BY StackFacts
<1>2. hc_ntry' = konts[Top.cp].lv
  BY <1>1
<1> QED
  BY <1>1, <1>2, CutKeeps

\* The children of the statement being executed.
LEMMA CurFacts ==
    ASSUME IInv
    PROVE  /\ cur \in Stmts /\ Nop \in Stmts /\ cur.op \in Ops
           /\ cur.op \in Binary => cur.a \in Stmts /\ cur.b \in Stmts
           /\ cur.op \in Calls => cur.fn \in Funcs
           /\ cur.op \in {"throw", "throwx"} => cur.ch \in Chars
           /\ cur.op = "except" => cur.v \in BOOLEAN
           /\ \A fn \in Bodied : prog[fn] \in Stmts
           /\ except_ch \in Chars /\ catch_except \in BOOLEAN
BY StmtsAssumption, ProgramsAssumption DEF IInv, TypeOK, WellFormed, Funcs

\* A step of the running program keeps the invariant, unless it is a break out
\* of a dynamic try block.
LEMMA RunStep ==
    ASSUME IInv, Run, ~BreakLeavesTry
    PROVE  IInv'
<1> DEFINE Safe == /\ status' \in {"run", "done", "unhandled", "toodeep", "overflow"}
                   /\ cur' \in Stmts /\ except_ch' \in Chars /\ catch_except' \in BOOLEAN
                   /\ hc_frames' \in [1..TryMax -> Nat] /\ hc_ntry' \in 0..TryMax
                   /\ Stack(konts') /\ Frames(konts', hc_frames', hc_ntry')
<1> SUFFICES Safe
  BY RunKeeps DEF Run
<1>0. status = "run"
  BY DEF Run
<1>frames. ASSUME UNCHANGED frames
           PROVE  hc_frames' \in [1..TryMax -> Nat] /\ hc_ntry' \in 0..TryMax
  BY <1>frames DEF IInv, TypeOK, frames
<1>fs. ASSUME UNCHANGED Fs PROVE except_ch' \in Chars /\ catch_except' \in BOOLEAN
  BY <1>fs, CurFacts DEF Fs
<1>same. ASSUME konts' = konts, UNCHANGED frames
         PROVE  Stack(konts') /\ Frames(konts', hc_frames', hc_ntry')
  BY <1>same DEF IInv, frames
<1>kinds. {"seq", "loop", "ntry", "ltry"} \subseteq Kinds \ {"call", "dtry", "ret"}
          /\ "seq" \notin Bodies /\ "loop" \notin Bodies /\ "dtry" \in Bodies
          /\ "dtry" \in Kinds \ {"call"}
  BY DEF Kinds, Bodies
<1>1. ASSUME ExecThrow PROVE Safe
  <2>1. cur.ch \in Chars
    BY <1>1, CurFacts DEF ExecThrow
  <2>2. CASE LocalHandler(Len(konts) + 1)
    <3>1. /\ EnterCatch(Topmost(Handlers(Len(konts) + 1))) /\ UNCHANGED frames
          /\ except_ch' = cur.ch /\ catch_except' = FALSE
      BY <1>1, <2>2 DEF ExecThrow, emit_throw
    <3>2. Len(konts) \in Nat
      BY StackFacts
    <3>3. Len(konts) + 1 # Len(konts)
      BY <3>2
    <3> QED
      BY <1>0, <2>1, <2>2, <3>1, <3>3, LocalThrowKeeps
  <2>3. CASE ~LocalHandler(Len(konts) + 1)
    BY <1>0, <1>1, <2>1, <2>3, RtThrowKeeps DEF ExecThrow, emit_throw
  <2> QED
    BY <2>2, <2>3
<1>2. ASSUME ExecThrowExpr PROVE Safe
  BY <1>0, <1>2, CurFacts, RtThrowKeeps DEF ExecThrowExpr
<1>3. ASSUME ExecSeq PROVE Safe
  <2>1. cur.a \in Stmts /\ cur.b \in Stmts
    BY <1>3, CurFacts DEF ExecSeq, Binary
  <2> QED
    BY <1>0, <1>3, <2>1, <1>fs, <1>kinds, PushKeeps DEF ExecSeq, Goto
<1>4. ASSUME ExecIf PROVE Safe
  <2>1. cur.a \in Stmts /\ cur.b \in Stmts
    BY <1>4, CurFacts DEF ExecIf, Binary
  <2> QED
    BY <1>0, <1>4, <2>1, <1>fs, <1>frames, <1>same DEF ExecIf, Goto
<1>5. ASSUME ExecLoop PROVE Safe
  BY <1>0, <1>5, <1>fs, <1>kinds, CurFacts, PushKeeps DEF ExecLoop, Goto
<1>6. ASSUME ExecExcept PROVE Safe
  BY <1>0, <1>6, <1>frames, <1>same, CurFacts DEF ExecExcept, Goto, PutExcept
<1>7. ASSUME ExecBreak PROVE Safe
  <2> DEFINE t == Topmost(Loops)
  <2>1. Loops \in SUBSET (1..Len(konts)) /\ Loops # {} /\ Len(konts) \in Nat
    BY <1>7, StackFacts DEF Loops, ExecBreak
  <2>2. t \in Loops
    BY <2>1, TopmostExists
  <2>3. t - 1 \in 1..Len(konts)
    <3>1. t \in 1..Len(konts) /\ Top.cp < t /\ Top.cp \in 1..Len(konts)
      BY <2>2, StackFacts DEF Loops
    <3> HIDE DEF t
    <3> QED
      BY <2>1, <3>1
  <2>4. konts[t - 1].lv = hc_ntry
    BY <1>0, <1>7, <2>1, StackFacts DEF BreakLeavesTry, ExecBreak
  <2> HIDE DEF t
  <2>5. konts' = SubSeq(konts, 1, t - 1) /\ hc_ntry' = konts[t - 1].lv /\ UNCHANGED hc_frames
    BY <1>7, <2>4 DEF ExecBreak, Goto, Below, frames, t
  <2>6. Stack(konts') /\ Frames(konts', hc_frames', hc_ntry')
    BY <2>3, <2>5, CutKeeps
  <2> QED
    BY <1>0, <1>7, <2>6, <1>fs, <1>frames, CurFacts DEF ExecBreak, Goto
<1>8. ASSUME ExecExtern PROVE Safe
  <2>1. CASE Goto(konts, Nop) /\ UNCHANGED <<Fs, frames>>
    BY <1>0, <2>1, <1>fs, <1>frames, <1>same, CurFacts DEF Goto
  <2>2. CASE \E ch \in Chars : rt_throw(ch)
    BY <1>0, <2>2, RtThrowKeeps
  <2> QED
    BY <1>8, <2>1, <2>2 DEF ExecExtern
<1>9. ASSUME ExecCall PROVE Safe
  <2> DEFINE e == CallEntry(cur.fn, Len(konts) + 1, Top.lv)
  <2>1. cur.fn \in Funcs /\ prog[cur.fn] \in Stmts
    BY <1>9, CurFacts DEF ExecCall, Calls
  <2>2. Stack(konts) /\ Frames(konts, hc_frames, hc_ntry)
    BY DEF IInv
  <2>3. Stack(Append(konts, e))
    BY <2>1, <2>2, CallStack DEF Top
  <2>4. e \in StackEntry /\ e.lv = konts[Len(konts)].lv
    BY <2>1, StackFacts, EntryIs, CurFacts DEF CallEntry, Entry, StackEntry, Kinds, Top
  <2> HIDE DEF e
  <2>5. Frames(Append(konts, e), hc_frames, hc_ntry)
    BY <2>2, <2>4, PushFrames
  <2>6. konts' = Append(konts, e) /\ cur' = prog[cur.fn] /\ UNCHANGED <<status, Fs, frames>>
    BY <1>9 DEF ExecCall, Goto, e
  <2> QED
    BY <1>0, <2>1, <2>3, <2>5, <2>6, <1>fs, <1>frames DEF frames
<1>10. ASSUME StackOverflow PROVE Safe
  BY <1>10, <1>fs, <1>frames, <1>same, CurFacts DEF StackOverflow, Stop
<1>11. ASSUME ExecReturn PROVE Safe
  <2>1. /\ Stack(konts') /\ Frames(konts', hc_frames', hc_ntry')
        /\ hc_ntry' \in 0..TryMax /\ hc_frames' \in [1..TryMax -> Nat]
    BY <1>11, ReturnKeeps DEF ExecReturn, Goto, pop_frames
  <2> QED
    BY <1>0, <1>11, <2>1, <1>fs, CurFacts DEF ExecReturn, Goto
<1>12. ASSUME ExecReturnCall PROVE Safe
  <2> DEFINE n == Len(konts)
             b == konts[Top.cp].lv
             ks == Append(Disarmed, Over(Disarmed[n], "ret", Nop))
             e == CallEntry(cur.fn, n + 2, b)
  <2>1. cur.fn \in Funcs /\ prog[cur.fn] \in Stmts /\ Nop \in Stmts
    BY <1>12, CurFacts DEF ExecReturnCall, Calls
  <2>2. n \in Nat /\ n \in 1..n /\ b \in Nat /\ Top.td \in Nat /\ hc_ntry = b + Top.td
        /\ b \in 0..TryMax
    BY StackFacts, TryMaxAssumption
  <2>3. /\ Stack(Disarmed) /\ Frames(Disarmed, hc_frames, b)
        /\ Len(Disarmed) = n /\ Disarmed[n].lv = b /\ Disarmed[n].td = 0
    BY DisarmKeeps
  <2> HIDE DEF b
  <2>4. Disarmed \in Seq(StackEntry) /\ Disarmed[n] \in StackEntry
    BY <2>2, <2>3, EntryIs DEF Stack
  <2>5. "ret" \in Kinds \ {"call"} /\ "ret" \notin Bodies
    BY DEF Kinds, Bodies
  <2>6. /\ Over(Disarmed[n], "ret", Nop) \in StackEntry
        /\ Over(Disarmed[n], "ret", Nop).lv = b
    BY <2>1, <2>2, <2>3, <2>4, <2>5 DEF Over, Entry, StackEntry
  <2>7. Stack(ks)
    BY <2>1, <2>3, <2>5, PushStack
  <2>8. Frames(ks, hc_frames, b)
    BY <2>3, <2>6, PushFrames
  <2>9. Len(ks) = n + 1 /\ ks[n + 1].lv = b
    BY <2>2, <2>3, <2>4, <2>6
  <2> HIDE DEF ks
  <2>10. Stack(Append(ks, e))
    <3>1. Stack(Append(ks, CallEntry(cur.fn, Len(ks) + 1, ks[Len(ks)].lv)))
      BY <2>1, <2>7, CallStack
    <3>2. Len(ks) + 1 = n + 2 /\ ks[Len(ks)].lv = b
      BY <2>2, <2>9
    <3> QED
      BY <3>1, <3>2
  <2>11. e \in StackEntry /\ e.lv = ks[Len(ks)].lv
    BY <2>1, <2>2, <2>9 DEF CallEntry, Entry, StackEntry, Kinds
  <2> HIDE DEF e
  <2>12. Frames(Append(ks, e), hc_frames, b)
    BY <2>7, <2>8, <2>11, PushFrames
  <2>13. /\ konts' = Append(ks, e) /\ cur' = prog[cur.fn] /\ UNCHANGED <<status, Fs, hc_frames>>
         /\ hc_ntry' = hc_ntry - Top.td
    BY <1>12 DEF ExecReturnCall, Goto, pop_frames, ks, e, b
  <2>14. hc_ntry' = b
    BY <2>2, <2>13
  <2> QED
    BY <1>0, <2>1, <2>2, <2>10, <2>12, <2>13, <2>14, <1>fs DEF IInv, TypeOK
<1>13. ASSUME ExecTry PROVE Safe
  <2> DEFINE mode == try_mode(can_throw, cur)
  <2>1. cur \in Stmts /\ cur.a \in Stmts /\ cur.op = "try"
    BY <1>13, CurFacts DEF ExecTry, Binary
  <2>2. mode \in {"ntry", "ltry", "dtry"}
    BY DEF try_mode
  <2> HIDE DEF mode
  <2>3. CASE mode # "dtry"
    <3>1. konts' = Push(mode, cur) /\ cur' = cur.a /\ UNCHANGED <<status, Fs, frames>>
      BY <1>13, <2>3 DEF ExecTry, Goto, mode
    <3> QED
      BY <1>0, <2>1, <2>2, <2>3, <3>1, <1>fs, <1>kinds, PushKeeps
  <2>4. CASE mode = "dtry" /\ try_full
    <3>1. status' = "toodeep" /\ UNCHANGED <<cur, konts, Fs, frames>>
      BY <1>13, <2>4 DEF ExecTry, Stop, mode
    <3> QED
      BY <2>1, <3>1, <1>fs, <1>frames, <1>same
  <2>5. CASE mode = "dtry" /\ ~try_full
    <3>1. /\ konts' = Push("dtry", cur) /\ cur' = cur.a /\ UNCHANGED <<status, Fs>>
          /\ hc_frames' = [hc_frames EXCEPT ![hc_ntry + 1] = Len(konts) + 1]
          /\ hc_ntry' = hc_ntry + 1
      BY <1>13, <2>5 DEF ExecTry, Goto, mode
    <3>2. hc_ntry \in 0..(TryMax - 1) /\ hc_ntry + 1 \in 0..TryMax /\ Len(konts) + 1 \in Nat
      BY <2>5, StackFacts, TryMaxAssumption DEF try_full
    <3>3. /\ Stack(konts) /\ Frames(konts, hc_frames, hc_ntry)
          /\ hc_frames \in [1..TryMax -> Nat]
      BY DEF IInv, TypeOK
    <3>4. Stack(konts')
      BY <2>1, <3>1, <3>3, <1>kinds, PushStack DEF Push, Top
    <3>5. Frames(konts', hc_frames', hc_ntry')
      BY <2>1, <3>1, <3>2, <3>3, ArmFrames DEF Push, Top
    <3>6. hc_frames' \in [1..TryMax -> Nat] /\ hc_ntry' \in 0..TryMax
      BY <3>1, <3>2, <3>3
    <3> QED
      BY <1>0, <2>1, <3>1, <3>4, <3>5, <3>6, <1>fs
  <2> QED
    BY <2>2, <2>3, <2>4, <2>5
<1>14. ASSUME cur = Nop, EndSeq PROVE Safe
  <2>1. /\ Stack(konts') /\ Frames(konts', hc_frames', hc_ntry')
        /\ hc_ntry' \in 0..TryMax /\ hc_frames' \in [1..TryMax -> Nat]
    BY <1>14, PopKeeps DEF EndSeq, Goto, frames
  <2> QED
    BY <1>0, <1>14, <2>1, <1>fs, StackFacts DEF EndSeq, Goto
<1>15. ASSUME cur = Nop, EndLoopBody PROVE Safe
  <2>1. CASE Goto(konts, Top.node.a)
    <3>1. Top.node \in Stmts /\ Top.node.op = "loop"
      BY <1>15, StackFacts DEF EndLoopBody, IInv, Stack, Nodes, Top
    <3>2. Top.node.a \in Stmts
      BY <3>1, StmtsAssumption DEF WellFormed
    <3> QED
      BY <1>0, <1>15, <2>1, <3>2, <1>fs, <1>frames, <1>same DEF EndLoopBody, Goto
  <2>2. CASE Goto(Pop, Nop)
    <3>1. /\ Stack(konts') /\ Frames(konts', hc_frames', hc_ntry')
          /\ hc_ntry' \in 0..TryMax /\ hc_frames' \in [1..TryMax -> Nat]
      BY <1>15, <2>2, PopKeeps DEF EndLoopBody, Goto, frames
    <3> QED
      BY <1>0, <1>15, <2>2, <3>1, <1>fs, CurFacts DEF EndLoopBody, Goto
  <2> QED
    BY <1>15, <2>1, <2>2 DEF EndLoopBody
<1>16. ASSUME cur = Nop, EndTry PROVE Safe
  <2>1. /\ Stack(konts') /\ Frames(konts', hc_frames', hc_ntry')
        /\ hc_ntry' \in 0..TryMax /\ hc_frames' \in [1..TryMax -> Nat]
    BY <1>16, PopKeeps DEF EndTry, Goto
  <2> QED
    BY <1>0, <1>16, <2>1, <1>fs, CurFacts DEF EndTry, Goto
<1>17. ASSUME cur = Nop, EndCall PROVE Safe
  <2>1. CASE Len(konts) > 1
    <3> DEFINE n == Len(konts)
    <3>1. n \in 2..n /\ n - 1 \in 1..n
      BY <2>1, StackFacts
    <3>2. konts[n - 1].lv = hc_ntry
      BY <1>17, <3>1, StackFacts DEF EndCall, IInv, Stack, Levels, Top
    <3>3. konts' = SubSeq(konts, 1, n - 1) /\ hc_ntry' = konts[n - 1].lv /\ UNCHANGED hc_frames
      BY <1>17, <2>1, <3>2 DEF EndCall, Goto, Pop, Below, frames
    <3>4. Stack(konts') /\ Frames(konts', hc_frames', hc_ntry')
      BY <3>1, <3>3, CutKeeps
    <3> QED
      BY <1>0, <1>17, <2>1, <3>4, <1>fs, <1>frames, CurFacts DEF EndCall, Goto
  <2>2. CASE ~(Len(konts) > 1)
    BY <1>17, <2>2, <1>fs, <1>frames, <1>same, CurFacts DEF EndCall, Stop
  <2> QED
    BY <2>1, <2>2
<1>18. ASSUME cur = Nop, EndCatch PROVE Safe
  <2>1. Top.k = "catch"
    BY <1>18 DEF EndCatch
  <2>2. CASE catch_except
    <3>1. konts' = Pop /\ cur' = Nop /\ UNCHANGED <<status, Fs, frames>>
      BY <1>18, <2>2 DEF EndCatch, Goto
    <3>2. /\ Stack(konts') /\ Frames(konts', hc_frames', hc_ntry')
          /\ hc_ntry' \in 0..TryMax /\ hc_frames' \in [1..TryMax -> Nat]
      BY <2>1, <3>1, PopKeeps DEF frames
    <3> QED
      BY <1>0, <3>1, <3>2, <1>fs, CurFacts
  <2>3. CASE ~catch_except /\ LocalHandler(Len(konts))
    <3>1. EnterCatch(Topmost(Handlers(Len(konts)))) /\ UNCHANGED <<Fs, frames>>
      BY <1>18, <2>3 DEF EndCatch, emit_rethrow
    <3> QED
      BY <1>0, <2>1, <2>3, <3>1, <1>fs, LocalThrowKeeps
  <2>4. CASE ~catch_except /\ ~LocalHandler(Len(konts))
    <3>1. rt_throw(except_ch)
      BY <1>18, <2>4 DEF EndCatch, emit_rethrow
    <3> QED
      BY <1>0, <3>1, CurFacts, RtThrowKeeps
  <2> QED
    BY <2>2, <2>3, <2>4
<1>19. ASSUME cur = Nop, EndOperand PROVE Safe
  <2>1. Top.k = "ret" /\ konts' = SubSeq(konts, 1, Top.cp) /\ cur' = Nop
        /\ UNCHANGED <<status, Fs, frames>>
    BY <1>19 DEF EndOperand, Goto
  <2>2. Top.td = 0
    BY <2>1 DEF IInv, Stack, Nodes, Top
  <2> QED
    BY <1>0, <2>1, <2>2, <1>fs, ReturnKeeps, StackFacts, CurFacts DEF frames
<1> HIDE DEF Safe
<1> QED
  BY <1>1, <1>2, <1>3, <1>4, <1>5, <1>6, <1>7, <1>8, <1>9, <1>10, <1>11, <1>12, <1>13,
     <1>14, <1>15, <1>16, <1>17, <1>18, <1>19 DEF Run, Resume

\* The analysis touches neither stack.
LEMMA AnalyzeStep ==
    ASSUME IInv, Analyze
    PROVE  IInv'
<1>1. UNCHANGED <<prog, cur, konts, Fs, frames>> /\ status' \in {"analyze", "run"}
  BY DEF Analyze, AnalyzeFn, AnalyzeAgain, AnalyzeDone
<1>2. can_throw' \in [Funcs -> BOOLEAN] /\ changed' \in BOOLEAN
      /\ next_fn' \in 1..(Len(FuncList) + 1)
  <2>0. Len(FuncList) \in Nat /\ can_throw \in [Funcs -> BOOLEAN] /\ changed \in BOOLEAN
        /\ next_fn \in 1..(Len(FuncList) + 1)
    BY FuncsAssumption DEF IInv, TypeOK
  <2>1. CASE AnalyzeFn
    <3> DEFINE fn == FuncList[next_fn]
               hit == fn \in Bodied /\ ~can_throw[fn] /\ throws(can_throw, fn)
    <3>1. can_throw' = [can_throw EXCEPT ![fn] = can_throw[fn] \/ hit] /\ changed' = (changed \/ hit)
      BY <2>1 DEF AnalyzeFn
    <3>2. hit \in BOOLEAN
      BY DEF throws
    <3> HIDE DEF hit
    <3>3. (can_throw[fn] \/ hit) \in BOOLEAN /\ (changed \/ hit) \in BOOLEAN
      BY <3>2
    <3> HIDE DEF fn
    <3>4. can_throw' \in [Funcs -> BOOLEAN] /\ changed' \in BOOLEAN
      BY <2>0, <3>1, <3>3, Zenon
    <3>5. next_fn' \in 1..(Len(FuncList) + 1)
      BY <2>0, <2>1 DEF AnalyzeFn
    <3> QED
      BY <3>4, <3>5
  <2>2. CASE AnalyzeAgain
    <3>1. next_fn' = 1 /\ changed' = FALSE /\ can_throw' = can_throw
      BY <2>2 DEF AnalyzeAgain
    <3>2. 1 \in 1..(Len(FuncList) + 1)
      BY <2>0
    <3> QED
      BY <2>0, <3>1, <3>2
  <2>3. CASE AnalyzeDone
    <3>1. throws(can_throw, Startup) \in BOOLEAN
      BY DEF throws
    <3>2. can_throw' \in [Funcs -> BOOLEAN]
      BY <2>0, <2>3, <3>1, Zenon DEF AnalyzeDone
    <3> QED
      BY <2>0, <2>3, <3>2 DEF AnalyzeDone
  <2> QED
    BY <2>1, <2>2, <2>3 DEF Analyze
<1>3. TypeOK'
  BY <1>1, <1>2 DEF IInv, TypeOK, Fs, frames
<1>4. Stack(konts)' /\ Frames(konts, hc_frames, hc_ntry)'
  BY <1>1 DEF IInv, Stack, Activations, Levels, Nodes, Frames, frames
<1> QED
  BY <1>1, <1>3, <1>4 DEF IInv

LEMMA InitKeeps == Init => IInv
<1> SUFFICES ASSUME Init PROVE IInv
  OBVIOUS
<1>1. /\ prog \in Programs /\ prog[Startup] \in Stmts /\ Nop \in Stmts /\ Startup \in Funcs
  BY StmtsAssumption, ProgramsAssumption DEF Init, Bodied, Funcs
<1> DEFINE e == CallEntry(Startup, 1, 0)
<1>2. /\ e \in StackEntry /\ e.k = "call" /\ e.cp = 1 /\ e.lv = 0 /\ e.td = 0
  BY <1>1 DEF CallEntry, Entry, StackEntry, Kinds
<1> HIDE DEF e
<1>3. konts = <<e>> /\ konts \in Seq(StackEntry) /\ Len(konts) = 1 /\ konts[1] = e /\ konts # <<>>
  BY <1>2 DEF Init, e
<1>4. can_throw \in [Funcs -> BOOLEAN]
  BY Zenon DEF Init
<1>5. TypeOK
  <2>1. Len(FuncList) \in Nat
    BY FuncsAssumption
  <2>2. next_fn \in 1..(Len(FuncList) + 1) /\ hc_ntry \in 0..TryMax
        /\ hc_frames \in [1..TryMax -> Nat]
    BY <2>1, TryMaxAssumption DEF Init
  <2>3. changed \in BOOLEAN /\ catch_except \in BOOLEAN /\ except_ch \in Chars /\ cur \in Stmts
        /\ status = "analyze"
    BY <1>1, CharsAssumption DEF Init
  <2> QED
    BY <1>1, <1>3, <1>4, <2>2, <2>3 DEF TypeOK
<1>6. Stack(konts)
  BY <1>2, <1>3 DEF Stack, Activations, Levels, Nodes, Bodies
<1>7. Frames(konts, hc_frames, hc_ntry)
  BY <1>2, <1>3 DEF Init, Frames
<1> QED
  BY <1>5, <1>6, <1>7 DEF Init, IInv

LEMMA NextKeeps ==
    ASSUME IInv, [Next]_vars, ~BreakLeavesTry
    PROVE  IInv'
<1>1. CASE Analyze
  BY <1>1, AnalyzeStep
<1>2. CASE Run
  BY <1>2, RunStep
<1>3. CASE UNCHANGED vars
  <2>1. UNCHANGED <<prog, status, can_throw, next_fn, changed, cur, konts, except_ch,
                    catch_except, hc_frames, hc_ntry>>
    BY <1>3 DEF vars, analysis, Fs, frames
  <2>2. TypeOK'
    BY <2>1 DEF IInv, TypeOK
  <2>3. Stack(konts)' /\ Frames(konts, hc_frames, hc_ntry)'
    BY <2>1 DEF IInv, Stack, Activations, Levels, Nodes, Frames
  <2> QED
    BY <2>1, <2>2, <2>3 DEF IInv
<1> QED
  BY <1>1, <1>2, <1>3 DEF Next, Ended

-----------------------------------------------------------------------------
\* As long as no break leaves a dynamic try block, the variables keep their
\* types: the frame stack of rt.c never underflows nor overruns hc_frames,
\* and every jump of the emitted code lands on a statement.
THEOREM TypeCorrect == Spec /\ []~BreakLeavesTry => []TypeOK
<1>1. IInv => TypeOK
  BY DEF IInv
<1> QED
  BY <1>1, InitKeeps, NextKeeps, PTL DEF Spec

\* As long as no break leaves a dynamic try block, the frames of rt.c are
\* exactly the dynamic try bodies being executed, innermost last: push, pop,
\* return, throw and rethrow keep the two stacks in step.
THEOREM FramesAlwaysMatch == Spec /\ []~BreakLeavesTry => []FramesMatchStack
<1>1. IInv => FramesMatchStack
  BY FramesAreArmed
<1> QED
  BY <1>1, InitKeeps, NextKeeps, PTL DEF Spec

\* As long as no break leaves a dynamic try block, throw always longjmps to a
\* setjmp whose function is still active.
THEOREM NeverWild == Spec /\ []~BreakLeavesTry => []NoWildJump
<1>1. IInv => NoWildJump
  BY DEF IInv, NoWildJump
<1> QED
  BY <1>1, InitKeeps, NextKeeps, PTL DEF Spec
=============================================================================
