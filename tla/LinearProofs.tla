---------------------------- MODULE LinearProofs ----------------------------
(***************************************************************************)
(* Both emitters of linear code close every block, place every label that  *)
(* is jumped to exactly once, and the machine never runs off the code, for *)
(* every tree the parser may give them.                                    *)
(***************************************************************************)
EXTENDS BackLl, BackJs, SequenceTheorems, FiniteSetTheorems, TLAPS

-----------------------------------------------------------------------------
(* Sequences of anything. *)

IsSeq(s) == \E I : s \in Seq(I)

LEMMA SeqFacts ==
    ASSUME NEW s, IsSeq(s)
    PROVE  Len(s) \in Nat /\ DOMAIN s = 1..Len(s) /\ (s = <<>> <=> Len(s) = 0)
<1>1. PICK I : s \in Seq(I)
  BY DEF IsSeq
<1> QED
  BY <1>1, EmptySeq, LenProperties

LEMMA Appended ==
    ASSUME NEW s, NEW x, IsSeq(s)
    PROVE  /\ IsSeq(Append(s, x)) /\ Append(s, x) # <<>>
           /\ Len(Append(s, x)) = Len(s) + 1
           /\ DOMAIN Append(s, x) = 1..Len(s) + 1
           /\ \A i \in 1..Len(s) : Append(s, x)[i] = s[i]
           /\ Append(s, x)[Len(s) + 1] = x
<1>1. PICK I : s \in Seq(I)
  BY DEF IsSeq
<1>2. s \in Seq(I \cup {x}) /\ x \in I \cup {x}
  BY <1>1, SeqMonotonic
<1>3. Append(s, x) \in Seq(I \cup {x})
  BY <1>2, AppendProperties
<1>4. IsSeq(Append(s, x))
  BY <1>3 DEF IsSeq
<1> QED
  BY <1>2, <1>4, AppendProperties, SeqFacts

LEMMA Joined ==
    ASSUME NEW s, NEW t, IsSeq(s), IsSeq(t)
    PROVE  /\ IsSeq(s \o t)
           /\ Len(s \o t) = Len(s) + Len(t)
           /\ DOMAIN (s \o t) = 1..Len(s) + Len(t)
           /\ \A i \in 1..Len(s) : (s \o t)[i] = s[i]
           /\ \A i \in 1..Len(t) : (s \o t)[Len(s) + i] = t[i]
<1>1. PICK I : s \in Seq(I)
  BY DEF IsSeq
<1>2. PICK J : t \in Seq(J)
  BY DEF IsSeq
<1>3. s \in Seq(I \cup J) /\ t \in Seq(I \cup J)
  BY <1>1, <1>2, SeqMonotonic
<1>4. s \o t \in Seq(I \cup J)
  BY <1>3, ConcatProperties
<1>5. Len(s) \in Nat /\ Len(t) \in Nat /\ Len(s \o t) = Len(s) + Len(t)
  BY <1>3, ConcatProperties, SeqFacts DEF IsSeq
<1>6. \A i \in 1..Len(s \o t) : (s \o t)[i] = IF i <= Len(s) THEN s[i] ELSE t[i - Len(s)]
  BY <1>3, ConcatProperties
<1>7. IsSeq(s \o t)
  BY <1>4 DEF IsSeq
<1>8. DOMAIN (s \o t) = 1..Len(s) + Len(t)
  BY <1>5, <1>7, SeqFacts
<1>9. \A i \in 1..Len(s) : (s \o t)[i] = s[i]
  BY <1>5, <1>6
<1>10. ASSUME NEW i \in 1..Len(t) PROVE (s \o t)[Len(s) + i] = t[i]
  <2>1. Len(s) + i \in 1..Len(s \o t) /\ ~(Len(s) + i <= Len(s)) /\ (Len(s) + i) - Len(s) = i
    BY <1>5
  <2> QED
    BY <1>6, <2>1
<1> QED
  BY <1>5, <1>7, <1>8, <1>9, <1>10

LEMMA Tailed ==
    ASSUME NEW s, IsSeq(s), s # <<>>
    PROVE  /\ IsSeq(Tail(s)) /\ Len(s) >= 1 /\ Head(s) = s[1]
           /\ Len(Tail(s)) = Len(s) - 1
           /\ \A i \in 1..Len(s) - 1 : Tail(s)[i] = s[i + 1]
<1>1. PICK I : s \in Seq(I)
  BY DEF IsSeq
<1>2. Len(s) \in Nat /\ Len(s) # 0
  BY SeqFacts
<1>3. Tail(s) \in Seq(I) /\ Len(Tail(s)) = Len(s) - 1 /\ Head(s) = s[1]
        /\ \A i \in 1..Len(s) - 1 : Tail(s)[i] = s[i + 1]
  BY <1>1, HeadTailProperties
<1> QED
  BY <1>2, <1>3 DEF IsSeq

LEMMA Empty == IsSeq(<<>>) /\ Len(<<>>) = 0 /\ DOMAIN <<>> = {}
<1>1. <<>> \in Seq({})
  BY EmptySeq
<1>2. IsSeq(<<>>)
  BY <1>1 DEF IsSeq
<1> QED
  BY <1>2, SeqFacts

LEMMA Single ==
    ASSUME NEW x
    PROVE  IsSeq(<<x>>) /\ Len(<<x>>) = 1 /\ DOMAIN <<x>> = {1} /\ <<x>>[1] = x
<1>1. <<x>> = Append(<<>>, x)
  OBVIOUS
<1>2. IsSeq(Append(<<>>, x)) /\ Len(Append(<<>>, x)) = 0 + 1 /\ DOMAIN Append(<<>>, x) = 1..0 + 1
        /\ Append(<<>>, x)[0 + 1] = x
  BY Appended, Empty
<1> QED
  BY <1>1, <1>2

-----------------------------------------------------------------------------
(* Linear code: its labels, its jumps, its blocks. *)

Placed(c) == {c[i].l : i \in {j \in DOMAIN c : c[j].op = "label"}}
Aims(c) == UNION {Targets(c[i]) : i \in DOMAIN c}

\* A label is a label instruction and placed once.
Once(c) ==
    /\ \A i \in DOMAIN c : c[i].op = "label" => c[i] = Lbl(c[i].l)
    /\ \A i, j \in DOMAIN c : c[i].op = "label" /\ c[j].op = "label" /\ c[i].l = c[j].l => i = j

\* Blocks are closed by terminators; open says whether the last one still is.
Shape(c, open) ==
    /\ open <=> (c = <<>> \/ ~ Terminator(c[Len(c)]))
    /\ \A i \in 1..Len(c) - 1 : Terminator(c[i]) <=> c[i + 1].op = "label"

LEMMA EmptyCode == Shape(<<>>, TRUE) /\ Once(<<>>) /\ Placed(<<>>) = {} /\ Aims(<<>>) = {}
BY Empty DEF Shape, Once, Placed, Aims

LEMMA CodeGrows ==
    ASSUME NEW c, NEW open \in BOOLEAN, NEW i, IsSeq(c), Shape(c, open), Once(c),
           (i.op = "label") <=> ~open,
           i.op = "label" => i = Lbl(i.l) /\ i.l \notin Placed(c)
    PROVE  /\ Shape(Append(c, i), ~ Terminator(i))
           /\ Once(Append(c, i))
           /\ Placed(Append(c, i)) = Placed(c) \cup (IF i.op = "label" THEN {i.l} ELSE {})
           /\ Aims(Append(c, i)) = Aims(c) \cup Targets(i)
<1> DEFINE d == Append(c, i)
           n == Len(c)
<1>1. /\ n \in Nat /\ DOMAIN c = 1..n /\ (c = <<>> <=> n = 0)
      /\ d # <<>> /\ Len(d) = n + 1 /\ DOMAIN d = 1..n + 1
      /\ \A j \in 1..n : d[j] = c[j]
      /\ d[n + 1] = i
  <2>1. n \in Nat /\ DOMAIN c = 1..n /\ (c = <<>> <=> n = 0)
    BY SeqFacts
  <2>2. d # <<>> /\ Len(d) = n + 1 /\ DOMAIN d = 1..n + 1
          /\ (\A j \in 1..n : d[j] = c[j]) /\ d[n + 1] = i
    BY Appended
  <2> QED
    BY <2>1, <2>2
<1> HIDE DEF d, n
<1>2. \A j \in 1..n + 1 : j \in 1..n \/ j = n + 1
  BY <1>1
<1>3. Shape(d, ~ Terminator(i))
  <2>1. ASSUME NEW j \in 1..Len(d) - 1 PROVE Terminator(d[j]) <=> d[j + 1].op = "label"
    <3>1. CASE j = n
      <4>1. c # <<>> /\ d[j] = c[n] /\ d[j + 1] = i
        BY <1>1, <3>1
      <4>2. (open <=> ~ Terminator(c[n]))
        BY <4>1 DEF Shape, n
      <4> QED
        BY <4>1, <4>2
    <3>2. CASE j # n
      <4>1. j \in 1..n - 1 /\ j \in 1..n /\ j + 1 \in 1..n
        BY <1>1, <3>2
      <4>2. d[j] = c[j] /\ d[j + 1] = c[j + 1]
        BY <1>1, <4>1
      <4> QED
        BY <4>1, <4>2 DEF Shape, n
    <3> QED
      BY <3>1, <3>2
  <2> QED
    BY <1>1, <2>1 DEF Shape
<1>4. Once(d)
  <2>1. ASSUME NEW j \in DOMAIN d, d[j].op = "label" PROVE d[j] = Lbl(d[j].l)
    BY <1>1, <1>2, <2>1 DEF Once
  <2>2. ASSUME NEW j \in 1..n, d[j].op = "label" PROVE d[j].l \in Placed(c)
    BY <1>1, <2>2 DEF Placed
  <2>3. ASSUME NEW j \in DOMAIN d, NEW k \in DOMAIN d,
               d[j].op = "label", d[k].op = "label", d[j].l = d[k].l
        PROVE  j = k
    <3>1. CASE j \in 1..n /\ k \in 1..n
      BY <1>1, <2>3, <3>1 DEF Once
    <3>2. CASE j = n + 1 /\ k \in 1..n
      BY <1>1, <2>2, <2>3, <3>2
    <3>3. CASE k = n + 1 /\ j \in 1..n
      BY <1>1, <2>2, <2>3, <3>3
    <3> QED
      BY <1>1, <1>2, <3>1, <3>2, <3>3
  <2> QED
    BY <2>1, <2>3 DEF Once
<1>5. Placed(d) = Placed(c) \cup (IF i.op = "label" THEN {i.l} ELSE {})
  <2>1. ASSUME NEW j \in 1..n + 1, d[j].op = "label"
        PROVE  d[j].l \in Placed(c) \cup (IF i.op = "label" THEN {i.l} ELSE {})
    BY <1>1, <1>2, <2>1 DEF Placed
  <2>2. ASSUME NEW j \in 1..n, c[j].op = "label" PROVE c[j].l \in Placed(d)
    <3>1. j \in DOMAIN d /\ d[j] = c[j]
      BY <1>1
    <3> QED
      BY <2>2, <3>1 DEF Placed
  <2>3. i.op = "label" => i.l \in Placed(d)
    <3>1. n + 1 \in DOMAIN d
      BY <1>1
    <3> QED
      BY <1>1, <3>1 DEF Placed
  <2>4. Placed(c) \subseteq Placed(d)
    BY <1>1, <2>2 DEF Placed
  <2>5. Placed(d) \subseteq Placed(c) \cup (IF i.op = "label" THEN {i.l} ELSE {})
    BY <1>1, <2>1 DEF Placed
  <2> QED
    BY <2>3, <2>4, <2>5
<1>6. Aims(d) = Aims(c) \cup Targets(i)
  <2>1. ASSUME NEW j \in 1..n + 1 PROVE Targets(d[j]) \subseteq Aims(c) \cup Targets(i)
    <3>1. CASE j = n + 1
      BY <1>1, <3>1
    <3>2. CASE j \in 1..n
      <4>1. d[j] = c[j] /\ j \in DOMAIN c
        BY <1>1, <3>2
      <4> QED
        BY <4>1 DEF Aims
    <3> QED
      BY <1>2, <3>1, <3>2
  <2>2. ASSUME NEW j \in 1..n PROVE Targets(c[j]) \subseteq Aims(d)
    <3>1. j \in DOMAIN d /\ d[j] = c[j]
      BY <1>1
    <3> QED
      BY <3>1 DEF Aims
  <2>3. Targets(i) \subseteq Aims(d)
    <3>1. n + 1 \in DOMAIN d /\ d[n + 1] = i
      BY <1>1
    <3> QED
      BY <3>1 DEF Aims
  <2>4. Aims(c) \subseteq Aims(d)
    BY <1>1, <2>2 DEF Aims
  <2>5. Aims(d) \subseteq Aims(c) \cup Targets(i)
    BY <1>1, <2>1 DEF Aims
  <2> QED
    BY <2>3, <2>4, <2>5
<1> QED
  BY <1>3, <1>4, <1>5, <1>6 DEF d

-----------------------------------------------------------------------------
(* LLVM: what the emitter's functions do to the code. *)

Rec(g) == \E I : g \in [code : Seq(I), block_open : BOOLEAN, nlab : Nat]

\* An emitter between two calls; the numbers of its labels are up to nlab.
Lg(g) ==
    /\ Rec(g) /\ Shape(g.code, g.block_open) /\ Once(g.code)
    /\ \A l \in Placed(g.code) : l[3] \in 0..g.nlab

\* From g to h the labels P are placed, and others that nobody knows yet, and
\* the labels R are jumped to.
Steps(g, h, P, R) ==
    /\ Lg(g) /\ Lg(h)
    /\ g.nlab <= h.nlab
    /\ Placed(g.code) \cup P \subseteq Placed(h.code)
    /\ \A l \in Placed(h.code) : l \in Placed(g.code) \cup P \/ l[3] \in g.nlab + 1..h.nlab
    /\ Aims(h.code) \subseteq Aims(g.code) \cup R

LEMMA RecFacts ==
    ASSUME NEW g, Rec(g)
    PROVE  IsSeq(g.code) /\ g.block_open \in BOOLEAN /\ g.nlab \in Nat
BY DEF Rec, IsSeq

LEMMA RecEmits ==
    ASSUME NEW g, Rec(g), NEW i
    PROVE  /\ Rec(LlEmit(g, i)) /\ LlEmit(g, i).code = Append(g.code, i)
           /\ LlEmit(g, i).block_open = g.block_open /\ LlEmit(g, i).nlab = g.nlab
<1>1. PICK I : g \in [code : Seq(I), block_open : BOOLEAN, nlab : Nat]
  BY DEF Rec
<1>2. g.code \in Seq(I \cup {i}) /\ i \in I \cup {i}
  BY <1>1, SeqMonotonic
<1>3. Append(g.code, i) \in Seq(I \cup {i})
  BY <1>2, AppendProperties
<1>4. LlEmit(g, i) \in [code : Seq(I \cup {i}), block_open : BOOLEAN, nlab : Nat]
  BY <1>1, <1>3 DEF LlEmit
<1> QED
  BY <1>1, <1>4 DEF Rec, LlEmit

LEMMA RecOpens ==
    ASSUME NEW g, Rec(g), NEW b \in BOOLEAN, NEW k, k = [g EXCEPT !.block_open = b]
    PROVE  Rec(k) /\ k.code = g.code /\ k.block_open = b /\ k.nlab = g.nlab
<1>1. PICK I : g \in [code : Seq(I), block_open : BOOLEAN, nlab : Nat]
  BY DEF Rec
<1>2. k \in [code : Seq(I), block_open : BOOLEAN, nlab : Nat]
  BY <1>1
<1> QED
  BY <1>1, <1>2 DEF Rec

LEMMA RecTakes ==
    ASSUME NEW g, Rec(g), NEW n \in Nat
    PROVE  /\ Rec(took(g, n)) /\ took(g, n).code = g.code
           /\ took(g, n).block_open = g.block_open /\ took(g, n).nlab = g.nlab + n
<1>1. PICK I : g \in [code : Seq(I), block_open : BOOLEAN, nlab : Nat]
  BY DEF Rec
<1>2. took(g, n) \in [code : Seq(I), block_open : BOOLEAN, nlab : Nat]
  BY <1>1 DEF took
<1> QED
  BY <1>1, <1>2 DEF Rec, took

LEMMA NoSteps == ASSUME NEW g, Lg(g) PROVE Steps(g, g, {}, {})
<1>1. g.nlab \in Nat
  BY RecFacts DEF Lg
<1> QED
  BY <1>1 DEF Steps

\* An instruction other than a label goes into an open block.
LEMMA InsStep ==
    ASSUME NEW g, NEW h, NEW P, NEW R, Steps(g, h, P, R), h.block_open,
           NEW i, i.op # "label",
           NEW k, Rec(k), k.code = Append(h.code, i), k.block_open <=> ~ Terminator(i), k.nlab = h.nlab
    PROVE  Steps(g, k, P, R \cup Targets(i))
<1>1. Lg(h) /\ Rec(h) /\ IsSeq(h.code) /\ h.block_open \in BOOLEAN /\ k.block_open \in BOOLEAN
  BY RecFacts DEF Steps, Lg
<1>2. /\ Shape(k.code, ~ Terminator(i)) /\ Once(k.code)
      /\ Placed(k.code) = Placed(h.code) /\ Aims(k.code) = Aims(h.code) \cup Targets(i)
  <2>1. Shape(h.code, h.block_open) /\ Once(h.code)
    BY <1>1 DEF Lg
  <2>2. /\ Shape(Append(h.code, i), ~ Terminator(i)) /\ Once(Append(h.code, i))
        /\ Placed(Append(h.code, i)) = Placed(h.code) \cup (IF i.op = "label" THEN {i.l} ELSE {})
        /\ Aims(Append(h.code, i)) = Aims(h.code) \cup Targets(i)
    BY <1>1, <2>1, CodeGrows
  <2> QED
    BY <2>2
<1>3. Shape(k.code, k.block_open)
  BY <1>1, <1>2 DEF Shape
<1>4. Lg(k)
  BY <1>1, <1>2, <1>3 DEF Lg
<1> QED
  BY <1>2, <1>4 DEF Steps

\* A label goes where no block is open.
LEMMA LabelStep ==
    ASSUME NEW g, NEW h, NEW P, NEW R, Steps(g, h, P, R), ~ h.block_open,
           NEW l, l \notin Placed(h.code),
           NEW k, Rec(k), k.code = Append(h.code, Lbl(l)), k.block_open, h.nlab <= k.nlab,
           l[3] \in 0..k.nlab
    PROVE  /\ Steps(g, k, P \cup {l}, R)
           /\ l[3] \in g.nlab + 1..k.nlab => Steps(g, k, P, R)
<1>1. /\ Lg(h) /\ Rec(h) /\ IsSeq(h.code) /\ h.block_open \in BOOLEAN /\ k.block_open \in BOOLEAN
      /\ g.nlab \in Nat /\ h.nlab \in Nat /\ k.nlab \in Nat
  BY RecFacts DEF Steps, Lg
<1>2. Lbl(l).op = "label" /\ Lbl(l).l = l /\ ~ Terminator(Lbl(l)) /\ Targets(Lbl(l)) = {}
  BY DEF Lbl, Terminator, Targets
<1>3. /\ Shape(k.code, TRUE) /\ Once(k.code)
      /\ Placed(k.code) = Placed(h.code) \cup {l} /\ Aims(k.code) = Aims(h.code)
  <2>1. Shape(h.code, h.block_open) /\ Once(h.code)
    BY <1>1 DEF Lg
  <2>2. /\ Shape(Append(h.code, Lbl(l)), ~ Terminator(Lbl(l))) /\ Once(Append(h.code, Lbl(l)))
        /\ Placed(Append(h.code, Lbl(l))) = Placed(h.code) \cup (IF Lbl(l).op = "label" THEN {Lbl(l).l} ELSE {})
        /\ Aims(Append(h.code, Lbl(l))) = Aims(h.code) \cup Targets(Lbl(l))
    BY <1>1, <1>2, <2>1, CodeGrows
  <2> QED
    BY <1>2, <2>2 DEF Shape
<1>4. k.nlab >= h.nlab /\ \A m \in 0..h.nlab : m \in 0..k.nlab
  BY <1>1
<1>5. Lg(k)
  <2>1. Shape(k.code, k.block_open)
    BY <1>1, <1>3 DEF Shape
  <2>2. \A m \in Placed(k.code) : m[3] \in 0..k.nlab
    BY <1>1, <1>3, <1>4 DEF Lg
  <2> QED
    BY <1>3, <2>1, <2>2 DEF Lg
<1>6. \A m \in g.nlab + 1..h.nlab : m \in g.nlab + 1..k.nlab
  BY <1>1, <1>4
<1>7. g.nlab <= k.nlab
  BY <1>1, <1>4 DEF Steps
<1> QED
  BY <1>3, <1>5, <1>6, <1>7 DEF Steps

LEMMA EnsureStep ==
    ASSUME NEW g, NEW h, NEW P, NEW R, Steps(g, h, P, R)
    PROVE  Steps(g, ensure_block(h), P, R) /\ ensure_block(h).block_open
<1>1. Rec(h) /\ Lg(h) /\ h.nlab \in Nat /\ g.nlab \in Nat /\ g.nlab <= h.nlab /\ h.block_open \in BOOLEAN
  BY RecFacts DEF Steps, Lg
<1>2. CASE h.block_open
  BY <1>2 DEF ensure_block
<1>3. CASE ~ h.block_open
  <2> DEFINE l == <<"dead", "", h.nlab + 1>>
             t == took(h, 1)
             k == [LlEmit(t, Lbl(l)) EXCEPT !.block_open = TRUE]
  <2>1. Rec(t) /\ t.code = h.code /\ t.block_open = h.block_open /\ t.nlab = h.nlab + 1
    BY <1>1, RecTakes
  <2> HIDE DEF t
  <2>2. Rec(k) /\ k.code = Append(h.code, Lbl(l)) /\ k.block_open /\ k.nlab = h.nlab + 1
    <3> DEFINE e == LlEmit(t, Lbl(l))
    <3>1. Rec(e) /\ e.code = Append(t.code, Lbl(l)) /\ e.nlab = t.nlab
      BY <2>1, RecEmits
    <3> HIDE DEF e, l
    <3>2. k = [e EXCEPT !.block_open = TRUE]
      BY DEF e, l
    <3> HIDE DEF k
    <3>3. Rec(k) /\ k.code = e.code /\ k.block_open = TRUE /\ k.nlab = e.nlab
      BY <3>1, <3>2, RecOpens
    <3> QED
      BY <2>1, <3>1, <3>3
  <2>3. ensure_block(h) = k
    BY <1>3 DEF ensure_block, t
  <2>4. l[3] = h.nlab + 1
    OBVIOUS
  <2>5. l \notin Placed(h.code) /\ l[3] \in 0..k.nlab /\ l[3] \in g.nlab + 1..k.nlab /\ h.nlab <= k.nlab
    <3> HIDE DEF l, k
    <3>1. l \in Placed(h.code) => l[3] \in 0..h.nlab
      BY <1>1 DEF Lg
    <3> QED
      BY <1>1, <2>2, <2>4, <3>1
  <2> HIDE DEF l, k
  <2>6. Steps(g, k, P, R)
    BY <1>3, <2>2, <2>5, LabelStep
  <2> QED
    BY <2>2, <2>3, <2>6
<1> QED
  BY <1>1, <1>2, <1>3

LEMMA ClosedStep ==
    ASSUME NEW g, NEW h, NEW P, NEW R, Steps(g, h, P, R), NEW i, Terminator(i)
    PROVE  /\ Steps(g, closed(ensure_block(h), i), P, R \cup Targets(i))
           /\ ~ closed(ensure_block(h), i).block_open
<1> DEFINE e == ensure_block(h)
           f == LlEmit(e, i)
           k == [f EXCEPT !.block_open = FALSE]
<1>1. Steps(g, e, P, R) /\ e.block_open
  BY EnsureStep
<1> HIDE DEF e
<1>2. Rec(e)
  BY <1>1 DEF Steps, Lg
<1>3. Rec(f) /\ f.code = Append(e.code, i) /\ f.nlab = e.nlab
  BY <1>2, RecEmits
<1> HIDE DEF f
<1>4. Rec(k) /\ k.code = f.code /\ k.block_open = FALSE /\ k.nlab = f.nlab
  BY <1>3, RecOpens
<1> HIDE DEF k
<1>5. i.op # "label"
  BY DEF Terminator
<1>6. Steps(g, k, P, R \cup Targets(i))
  BY <1>1, <1>3, <1>4, <1>5, InsStep
<1> QED
  BY <1>4, <1>6 DEF closed, k, f, e

LEMMA BrStep ==
    ASSUME NEW g, NEW h, NEW P, NEW R, Steps(g, h, P, R), NEW l
    PROVE  Steps(g, br_to(h, l), P, R \cup {l}) /\ ~ br_to(h, l).block_open
<1>1. Terminator(Br(l)) /\ Targets(Br(l)) = {l}
  BY DEF Terminator, Targets, Br
<1> QED
  BY <1>1, ClosedStep DEF br_to

LEMMA CondStep ==
    ASSUME NEW g, NEW h, NEW P, NEW R, Steps(g, h, P, R), NEW c, NEW tl, NEW fl
    PROVE  /\ Steps(g, emit_cond_br(h, c, tl, fl), P, R \cup {tl, fl})
           /\ ~ emit_cond_br(h, c, tl, fl).block_open
<1>1. Terminator(CondBr(c, tl, fl)) /\ Targets(CondBr(c, tl, fl)) = {tl, fl}
  BY DEF Terminator, Targets, CondBr
<1> QED
  BY <1>1, ClosedStep DEF emit_cond_br

LEMMA ExprStep ==
    ASSUME NEW g, NEW h, NEW P, NEW R, Steps(g, h, P, R), NEW n
    PROVE  Steps(g, LlExpr(h, Expr(n)), P, R)
<1> DEFINE e == ensure_block(h)
           k == LlEmit(e, Expr(n))
<1>1. Steps(g, e, P, R) /\ e.block_open
  BY EnsureStep
<1> HIDE DEF e
<1>2. Rec(e)
  BY <1>1 DEF Steps, Lg
<1>3. Rec(k) /\ k.code = Append(e.code, Expr(n)) /\ k.block_open = e.block_open /\ k.nlab = e.nlab
  BY <1>2, RecEmits
<1> HIDE DEF k
<1>4. Expr(n).op # "label" /\ ~ Terminator(Expr(n)) /\ Targets(Expr(n)) = {}
  BY DEF Expr, Terminator, Targets
<1>5. Steps(g, k, P, R \cup Targets(Expr(n)))
  BY <1>1, <1>3, <1>4, InsStep
<1> QED
  BY <1>4, <1>5 DEF LlExpr, k, e

LEMMA PlaceStep ==
    ASSUME NEW g, NEW h, NEW P, NEW R, Steps(g, h, P, R),
           NEW l, l \notin Placed(g.code) \cup P, l[3] \in 0..g.nlab
    PROVE  Steps(g, place_label(h, l), P \cup {l}, R \cup {l}) /\ place_label(h, l).block_open
<1> DEFINE e == IF h.block_open THEN LlEmit(h, Br(l)) ELSE h
           f == LlEmit(e, Lbl(l))
           k == [f EXCEPT !.block_open = TRUE]
           d == [e EXCEPT !.block_open = FALSE]
<1>1. /\ Rec(h) /\ Lg(h) /\ h.nlab \in Nat /\ g.nlab \in Nat /\ g.nlab <= h.nlab
      /\ h.block_open \in BOOLEAN /\ Lg(g)
  BY RecFacts DEF Steps, Lg
<1>2. l \notin Placed(h.code) /\ l[3] \in 0..h.nlab
  <2>1. l[3] \notin g.nlab + 1..h.nlab /\ l[3] \in 0..h.nlab
    BY <1>1
  <2> QED
    BY <2>1 DEF Steps
<1>3. Rec(e) /\ e.nlab = h.nlab
  BY <1>1, RecEmits
<1>4. Rec(d) /\ d.code = e.code /\ d.block_open = FALSE /\ d.nlab = h.nlab
  <2> HIDE DEF e
  <2> QED
    BY <1>3, RecOpens
<1>5. Steps(g, d, P, R \cup {l}) /\ Placed(d.code) = Placed(h.code)
  <2>1. CASE ~ h.block_open
    <3>1. d.code = h.code
      BY <1>4, <2>1
    <3>2. Shape(d.code, d.block_open)
      BY <1>1, <1>4, <2>1, <3>1 DEF Lg, Shape
    <3>3. Lg(d)
      BY <1>1, <1>4, <3>1, <3>2 DEF Lg
    <3> QED
      BY <1>4, <3>1, <3>3 DEF Steps
  <2>2. CASE h.block_open
    <3>1. d.code = Append(h.code, Br(l))
      BY <1>1, <1>4, <2>2, RecEmits
    <3>2. Br(l).op # "label" /\ Terminator(Br(l)) /\ Targets(Br(l)) = {l}
      BY DEF Br, Terminator, Targets
    <3> HIDE DEF d
    <3>3. Steps(g, d, P, R \cup {l})
      BY <1>4, <2>2, <3>1, <3>2, InsStep
    <3>4. Placed(Append(h.code, Br(l))) = Placed(h.code)
      <4>1. /\ Shape(h.code, h.block_open) /\ Once(h.code) /\ IsSeq(h.code) /\ h.block_open \in BOOLEAN
            /\ (Br(l).op = "label") <=> ~ h.block_open
        BY <1>1, <2>2, <3>2, RecFacts DEF Lg
      <4> DEFINE x == Br(l)
      <4>2. x.op # "label" /\ ((x.op = "label") <=> ~ h.block_open)
        BY <3>2, <4>1
      <4> HIDE DEF x
      <4>3. /\ Shape(Append(h.code, x), ~ Terminator(x)) /\ Once(Append(h.code, x))
            /\ Placed(Append(h.code, x)) = Placed(h.code) \cup (IF x.op = "label" THEN {x.l} ELSE {})
            /\ Aims(Append(h.code, x)) = Aims(h.code) \cup Targets(x)
        BY <4>1, <4>2, CodeGrows
      <4>4. Placed(Append(h.code, x)) = Placed(h.code)
        BY <4>2, <4>3
      <4> QED
        BY <4>4 DEF x
    <3> QED
      BY <3>1, <3>3, <3>4
  <2> QED
    BY <1>1, <2>1, <2>2
<1> HIDE DEF d, e
<1>6. Rec(f) /\ f.code = Append(e.code, Lbl(l)) /\ f.nlab = e.nlab
  BY <1>3, RecEmits
<1> HIDE DEF f
<1>7. Rec(k) /\ k.code = f.code /\ k.block_open = TRUE /\ k.nlab = f.nlab
  BY <1>6, RecOpens
<1> HIDE DEF k
<1>8. Steps(g, k, P \cup {l}, R \cup {l})
  <2>1. d.nlab <= k.nlab /\ l[3] \in 0..k.nlab
    BY <1>1, <1>2, <1>3, <1>4, <1>6, <1>7
  <2> QED
    BY <1>2, <1>4, <1>5, <1>6, <1>7, <2>1, LabelStep
<1> QED
  BY <1>7, <1>8 DEF place_label, k, f, e

-----------------------------------------------------------------------------
(* What is left to emit.  A tree has the statements S and the labels D. *)

\* Where a label or a block stands among the names still to be placed.
Named(l, js) == IF js = "js" THEN <<"B", "", l>> ELSE l
LabelNames(L) == {labname(l) : l \in L}

\* The names that an entry of todo places, and those it speaks of.
Defs(x, D, js) ==
    CASE x.k = "join" -> {Named(x.at, js)}
      [] x.k = "head" -> {Named(x.hl, js), Named(x.bl, js)}
      [] x.k = "test" -> {Named(x.hl, js), Named(x.el, js)}
      [] x.k = "loop" -> LabelNames(DefinedIn(x.n.body, D))
      [] x.k = "inc" -> {}
      [] OTHER -> LabelNames(D[x])
Uses(x) ==
    CASE x.k = "join" -> {x.l, x.at}
      [] x.k \in {"head", "test"} -> {x.hl, x.bl, x.el}
      [] OTHER -> {}
Item(x, S) ==
    CASE x.k = "join" -> TRUE
      [] x.k = "head" -> x.hl # x.bl
      [] x.k = "test" -> x.hl # x.el
      [] x.k = "loop" -> x.n \in S /\ x.n.k \in {"while", "for"}
      [] x.k = "inc" -> x.inc \in Seq(S) /\ \A i \in DOMAIN x.inc : Plain(x.inc[i])
      [] OTHER -> x \in S /\ x.k \in Lowered

AllDefs(ss, D, js) == UNION {Defs(ss[i], D, js) : i \in DOMAIN ss}
AllUses(ss) == UNION {Uses(ss[i]) : i \in DOMAIN ss}
Work(ss, S, D, js) ==
    /\ IsSeq(ss)
    /\ \A i \in DOMAIN ss : Item(ss[i], S)
    /\ \A i, j \in DOMAIN ss : i # j => Defs(ss[i], D, js) \cap Defs(ss[j], D, js) = {}

\* Where the entries of a concatenation come from.
LEMMA Positions ==
    ASSUME NEW s, NEW t, IsSeq(s), IsSeq(t)
    PROVE  /\ Len(s) \in Nat /\ Len(t) \in Nat
           /\ \A i \in DOMAIN (s \o t) :
                 \/ i \in DOMAIN s /\ (s \o t)[i] = s[i]
                 \/ \E j \in DOMAIN t : i = Len(s) + j /\ (s \o t)[i] = t[j]
           /\ \A i \in DOMAIN s : i \in DOMAIN (s \o t) /\ (s \o t)[i] = s[i] /\ i <= Len(s)
           /\ \A i \in DOMAIN t : /\ Len(s) + i \in DOMAIN (s \o t) /\ (s \o t)[Len(s) + i] = t[i]
                                   /\ i \in Nat \ {0}
<1> DEFINE m == Len(s)
           n == Len(t)
           u == s \o t
<1>1. /\ m \in Nat /\ n \in Nat /\ DOMAIN s = 1..m /\ DOMAIN t = 1..n
      /\ DOMAIN u = 1..m + n
      /\ \A i \in 1..m : u[i] = s[i]
      /\ \A i \in 1..n : u[m + i] = t[i]
  BY SeqFacts, Joined
<1> HIDE DEF m, n, u
<1>2. ASSUME NEW i \in DOMAIN u
      PROVE  \/ i \in DOMAIN s /\ u[i] = s[i]
             \/ \E j \in DOMAIN t : i = m + j /\ u[i] = t[j]
  <2>1. CASE i <= m
    <3>1. i \in 1..m
      BY <1>1, <2>1
    <3> QED
      BY <1>1, <3>1
  <2>2. CASE ~(i <= m)
    <3>1. i - m \in 1..n /\ m + (i - m) = i
      BY <1>1, <2>2
    <3> QED
      BY <1>1, <3>1
  <2> QED
    BY <2>1, <2>2
<1>3. ASSUME NEW i \in DOMAIN s PROVE i \in DOMAIN u /\ u[i] = s[i] /\ i <= m
  BY <1>1
<1>4. ASSUME NEW i \in DOMAIN t PROVE m + i \in DOMAIN u /\ u[m + i] = t[i] /\ i \in Nat \ {0}
  BY <1>1
<1> QED
  BY <1>1, <1>2, <1>3, <1>4 DEF u, m, n

LEMMA TailPositions ==
    ASSUME NEW s, IsSeq(s), s # <<>>
    PROVE  /\ 1 \in DOMAIN s /\ s[1] = Head(s) /\ IsSeq(Tail(s))
           /\ \A i \in DOMAIN Tail(s) : i + 1 \in DOMAIN s /\ Tail(s)[i] = s[i + 1] /\ i \in Nat \ {0}
           /\ \A i \in DOMAIN s : i = 1 \/ (i - 1 \in DOMAIN Tail(s) /\ Tail(s)[i - 1] = s[i])
<1> DEFINE n == Len(s)
           u == Tail(s)
<1>1. /\ n \in Nat /\ n >= 1 /\ DOMAIN s = 1..n /\ IsSeq(u) /\ Len(u) = n - 1 /\ Head(s) = s[1]
      /\ \A i \in 1..n - 1 : u[i] = s[i + 1]
  BY SeqFacts, Tailed
<1>2. DOMAIN u = 1..n - 1
  BY <1>1, SeqFacts
<1> HIDE DEF n, u
<1>3. ASSUME NEW i \in DOMAIN u PROVE i + 1 \in DOMAIN s /\ u[i] = s[i + 1] /\ i \in Nat \ {0}
  BY <1>1, <1>2
<1>4. ASSUME NEW i \in DOMAIN s, i # 1 PROVE i - 1 \in DOMAIN u /\ u[i - 1] = s[i]
  <2>1. i - 1 \in 1..n - 1 /\ (i - 1) + 1 = i
    BY <1>1, <1>4
  <2> QED
    BY <1>1, <1>2, <2>1
<1>5. 1 \in DOMAIN s
  BY <1>1
<1> QED
  BY <1>1, <1>3, <1>4, <1>5 DEF u

LEMMA UsesJoined ==
    ASSUME NEW s, NEW t, IsSeq(s), IsSeq(t)
    PROVE  AllUses(s \o t) = AllUses(s) \cup AllUses(t)
<1>1. AllUses(s \o t) \subseteq AllUses(s) \cup AllUses(t)
  BY Positions DEF AllUses
<1>2. AllUses(s) \subseteq AllUses(s \o t)
  BY Positions DEF AllUses
<1>3. AllUses(t) \subseteq AllUses(s \o t)
  <2>1. ASSUME NEW i \in DOMAIN t PROVE Uses(t[i]) \subseteq AllUses(s \o t)
    <3>1. Len(s) + i \in DOMAIN (s \o t) /\ (s \o t)[Len(s) + i] = t[i]
      BY Positions
    <3> QED
      BY <3>1 DEF AllUses
  <2> QED
    BY <2>1 DEF AllUses
<1> QED
  BY <1>1, <1>2, <1>3

LEMMA DefsJoined ==
    ASSUME NEW s, NEW t, IsSeq(s), IsSeq(t), NEW D, NEW js
    PROVE  AllDefs(s \o t, D, js) = AllDefs(s, D, js) \cup AllDefs(t, D, js)
<1>1. AllDefs(s \o t, D, js) \subseteq AllDefs(s, D, js) \cup AllDefs(t, D, js)
  BY Positions DEF AllDefs
<1>2. AllDefs(s, D, js) \subseteq AllDefs(s \o t, D, js)
  BY Positions DEF AllDefs
<1>3. AllDefs(t, D, js) \subseteq AllDefs(s \o t, D, js)
  <2>1. ASSUME NEW i \in DOMAIN t PROVE Defs(t[i], D, js) \subseteq AllDefs(s \o t, D, js)
    <3>1. Len(s) + i \in DOMAIN (s \o t) /\ (s \o t)[Len(s) + i] = t[i]
      BY Positions
    <3> QED
      BY <3>1 DEF AllDefs
  <2> QED
    BY <2>1 DEF AllDefs
<1> QED
  BY <1>1, <1>2, <1>3

LEMMA UsesTail ==
    ASSUME NEW s, IsSeq(s), s # <<>>
    PROVE  AllUses(s) = Uses(Head(s)) \cup AllUses(Tail(s))
<1>1. AllUses(s) \subseteq Uses(Head(s)) \cup AllUses(Tail(s))
  <2>1. ASSUME NEW i \in DOMAIN s PROVE Uses(s[i]) \subseteq Uses(Head(s)) \cup AllUses(Tail(s))
    <3>1. s[1] = Head(s) /\ (i = 1 \/ (i - 1 \in DOMAIN Tail(s) /\ Tail(s)[i - 1] = s[i]))
      BY TailPositions
    <3> QED
      BY <3>1 DEF AllUses
  <2> QED
    BY <2>1 DEF AllUses
<1>2. AllUses(Tail(s)) \subseteq AllUses(s)
  BY TailPositions DEF AllUses
<1>3. Uses(Head(s)) \subseteq AllUses(s)
  BY TailPositions DEF AllUses
<1> QED
  BY <1>1, <1>2, <1>3

LEMMA DefsTail ==
    ASSUME NEW s, IsSeq(s), s # <<>>, NEW D, NEW js
    PROVE  AllDefs(s, D, js) = Defs(Head(s), D, js) \cup AllDefs(Tail(s), D, js)
<1>1. AllDefs(s, D, js) \subseteq Defs(Head(s), D, js) \cup AllDefs(Tail(s), D, js)
  BY TailPositions DEF AllDefs
<1>2. AllDefs(Tail(s), D, js) \subseteq AllDefs(s, D, js)
  BY TailPositions DEF AllDefs
<1>3. Defs(Head(s), D, js) \subseteq AllDefs(s, D, js)
  BY TailPositions DEF AllDefs
<1> QED
  BY <1>1, <1>2, <1>3

LEMMA Ones ==
    ASSUME NEW x
    PROVE  /\ AllUses(<<x>>) = Uses(x) /\ AllUses(<<>>) = {}
           /\ \A D, js : AllDefs(<<x>>, D, js) = Defs(x, D, js) /\ AllDefs(<<>>, D, js) = {}
BY Single, Empty DEF AllUses, AllDefs

LEMMA WorkEmpty == ASSUME NEW S, NEW D, NEW js PROVE Work(<<>>, S, D, js)
BY Empty DEF Work

LEMMA WorkOne ==
    ASSUME NEW S, NEW D, NEW js, NEW x, Item(x, S)
    PROVE  Work(<<x>>, S, D, js)
BY Single DEF Work

LEMMA WorkJoined ==
    ASSUME NEW S, NEW D, NEW js, NEW s, NEW t, Work(s, S, D, js), Work(t, S, D, js),
           AllDefs(s, D, js) \cap AllDefs(t, D, js) = {}
    PROVE  Work(s \o t, S, D, js)
<1> DEFINE m == Len(s)
           u == s \o t
<1>1. IsSeq(s) /\ IsSeq(t)
  BY DEF Work
<1>2. /\ m \in Nat
      /\ \A i \in DOMAIN u : \/ i \in DOMAIN s /\ u[i] = s[i]
                            \/ \E j \in DOMAIN t : i = m + j /\ u[i] = t[j]
  BY <1>1, Positions
<1>3. IsSeq(u)
  BY <1>1, Joined
<1> HIDE DEF m, u
<1>7. \A i \in DOMAIN u : Item(u[i], S)
  BY <1>2 DEF Work
<1>8. ASSUME NEW i \in DOMAIN u, NEW j \in DOMAIN u, i # j
      PROVE  Defs(u[i], D, js) \cap Defs(u[j], D, js) = {}
  <2>1. ASSUME NEW a \in DOMAIN s, NEW b \in DOMAIN t PROVE Defs(s[a], D, js) \cap Defs(t[b], D, js) = {}
    BY DEF AllDefs
  <2>2. CASE i \in DOMAIN s /\ u[i] = s[i] /\ j \in DOMAIN s /\ u[j] = s[j]
    BY <1>8, <2>2 DEF Work
  <2>3. CASE i \in DOMAIN s /\ u[i] = s[i] /\ \E b \in DOMAIN t : j = m + b /\ u[j] = t[b]
    BY <2>1, <2>3
  <2>4. CASE j \in DOMAIN s /\ u[j] = s[j] /\ \E b \in DOMAIN t : i = m + b /\ u[i] = t[b]
    BY <2>1, <2>4
  <2>5. CASE /\ \E a \in DOMAIN t : i = m + a /\ u[i] = t[a]
             /\ \E b \in DOMAIN t : j = m + b /\ u[j] = t[b]
    <3>1. PICK a \in DOMAIN t : i = m + a /\ u[i] = t[a]
      BY <2>5
    <3>2. PICK b \in DOMAIN t : j = m + b /\ u[j] = t[b]
      BY <2>5
    <3>3. a # b
      BY <1>8, <3>1, <3>2
    <3> QED
      BY <3>1, <3>2, <3>3 DEF Work
  <2> QED
    BY <1>2, <2>2, <2>3, <2>4, <2>5
<1> QED
  BY <1>3, <1>7, <1>8 DEF Work, u

LEMMA WorkTail ==
    ASSUME NEW S, NEW D, NEW js, NEW s, Work(s, S, D, js), s # <<>>
    PROVE  /\ Item(Head(s), S) /\ Work(Tail(s), S, D, js)
           /\ Defs(Head(s), D, js) \cap AllDefs(Tail(s), D, js) = {}
<1> DEFINE u == Tail(s)
<1>1. /\ IsSeq(s) /\ 1 \in DOMAIN s /\ s[1] = Head(s) /\ IsSeq(u)
      /\ \A i \in DOMAIN u : i + 1 \in DOMAIN s /\ u[i] = s[i + 1] /\ i \in Nat \ {0}
  BY TailPositions DEF Work
<1> HIDE DEF u
<1>2. \A i \in DOMAIN u : i + 1 # 1
  BY <1>1
<1>7. Item(s[1], S) /\ \A i \in DOMAIN u : Item(u[i], S)
  BY <1>1 DEF Work
<1>8. ASSUME NEW i \in DOMAIN u, NEW j \in DOMAIN u, i # j
      PROVE  Defs(u[i], D, js) \cap Defs(u[j], D, js) = {}
  <2>1. i + 1 # j + 1
    BY <1>1, <1>8
  <2> QED
    BY <1>1, <2>1 DEF Work
<1>9. Defs(s[1], D, js) \cap AllDefs(u, D, js) = {}
  <2>1. \A i \in DOMAIN u : Defs(s[1], D, js) \cap Defs(u[i], D, js) = {}
    BY <1>1, <1>2 DEF Work
  <2> QED
    BY <2>1 DEF AllDefs
<1> QED
  BY <1>1, <1>7, <1>8, <1>9 DEF Work, u

\* Statements with the labels that are theirs.
Statements(S) == \A n \in S : n.k \in Lowered

LEMMA WorkBody ==
    ASSUME NEW S, NEW D, NEW js, NEW ss \in Seq(S), DefinedOnce(ss, D), Statements(S)
    PROVE  /\ Work(ss, S, D, js)
           /\ AllDefs(ss, D, js) = LabelNames(DefinedIn(ss, D)) /\ AllUses(ss) = {}
<1>1. ASSUME NEW n \in S
      PROVE  Item(n, S) /\ Defs(n, D, js) = LabelNames(D[n]) /\ Uses(n) = {}
  <2>1. n.k \in Lowered /\ n.k \notin {"join", "head", "test", "loop", "inc"}
    BY DEF Statements, Lowered, Simple, Loops
  <2> QED
    BY <2>1 DEF Item, Defs, Uses
<1>2. \A i \in DOMAIN ss : ss[i] \in S
  BY ElementOfSeq, LenProperties
<1>3. IsSeq(ss)
  BY DEF IsSeq
<1>4. \A l, m : labname(l) = labname(m) => l = m
  BY DEF labname
<1>5. ASSUME NEW i \in DOMAIN ss, NEW j \in DOMAIN ss, i # j
      PROVE  Defs(ss[i], D, js) \cap Defs(ss[j], D, js) = {}
  <2>1. D[ss[i]] \cap D[ss[j]] = {}
    BY <1>5 DEF DefinedOnce
  <2> QED
    BY <1>1, <1>2, <1>4, <2>1 DEF LabelNames
<1>6. AllDefs(ss, D, js) = LabelNames(DefinedIn(ss, D))
  BY <1>1, <1>2 DEF AllDefs, LabelNames, DefinedIn
<1>7. AllUses(ss) = {}
  BY <1>1, <1>2 DEF AllUses
<1> QED
  BY <1>1, <1>2, <1>3, <1>5, <1>6, <1>7 DEF Work

\* The bodies of one statement: the labels of each are apart.
LEMMA DefinedJoined ==
    ASSUME NEW D, NEW s, NEW t, IsSeq(s), IsSeq(t)
    PROVE  /\ DefinedIn(s \o t, D) = DefinedIn(s, D) \cup DefinedIn(t, D)
           /\ DefinedOnce(s \o t, D) => /\ DefinedOnce(s, D) /\ DefinedOnce(t, D)
                                        /\ DefinedIn(s, D) \cap DefinedIn(t, D) = {}
<1> DEFINE m == Len(s)
           u == s \o t
<1>1. /\ m \in Nat
      /\ \A i \in DOMAIN u : \/ i \in DOMAIN s /\ u[i] = s[i]
                            \/ \E j \in DOMAIN t : i = m + j /\ u[i] = t[j]
      /\ \A i \in DOMAIN s : i \in DOMAIN u /\ u[i] = s[i] /\ i <= m
      /\ \A i \in DOMAIN t : m + i \in DOMAIN u /\ u[m + i] = t[i] /\ i \in Nat \ {0}
  BY Positions
<1>2. DOMAIN s \subseteq Int
  BY SeqFacts
<1> HIDE DEF m, u
<1>5. DefinedIn(u, D) = DefinedIn(s, D) \cup DefinedIn(t, D)
  <2>1. DefinedIn(u, D) \subseteq DefinedIn(s, D) \cup DefinedIn(t, D)
    BY <1>1 DEF DefinedIn
  <2>2. DefinedIn(s, D) \subseteq DefinedIn(u, D)
    BY <1>1 DEF DefinedIn
  <2>3. DefinedIn(t, D) \subseteq DefinedIn(u, D)
    BY <1>1 DEF DefinedIn
  <2> QED
    BY <2>1, <2>2, <2>3
<1>6. ASSUME DefinedOnce(u, D)
      PROVE  DefinedOnce(s, D) /\ DefinedOnce(t, D) /\ DefinedIn(s, D) \cap DefinedIn(t, D) = {}
  <2>1. DefinedOnce(s, D)
    BY <1>1, <1>6 DEF DefinedOnce
  <2>2. ASSUME NEW i \in DOMAIN t, NEW j \in DOMAIN t, i # j PROVE D[t[i]] \cap D[t[j]] = {}
    <3>1. m + i # m + j
      BY <1>1, <2>2
    <3> QED
      BY <1>1, <1>6, <3>1 DEF DefinedOnce
  <2>3. ASSUME NEW i \in DOMAIN s, NEW j \in DOMAIN t PROVE D[s[i]] \cap D[t[j]] = {}
    <3>1. i # m + j
      BY <1>1, <1>2
    <3> QED
      BY <1>1, <1>6, <3>1 DEF DefinedOnce
  <2>4. DefinedIn(s, D) \cap DefinedIn(t, D) = {}
    BY <2>3 DEF DefinedIn
  <2> QED
    BY <2>1, <2>2, <2>4 DEF DefinedOnce
<1> QED
  BY <1>5, <1>6 DEF u

\* Work that places A and speaks of U.
Piece(ss, S, D, js, A, U) ==
    Work(ss, S, D, js) /\ AllDefs(ss, D, js) = A /\ AllUses(ss) = U

LEMMA PieceOf ==
    ASSUME NEW S, NEW D, NEW js, NEW x, Item(x, S)
    PROVE  Piece(<<x>>, S, D, js, Defs(x, D, js), Uses(x))
<1>1. Work(<<x>>, S, D, js)
  BY WorkOne
<1>2. AllUses(<<x>>) = Uses(x)
  BY Ones
<1>3. AllDefs(<<x>>, D, js) = Defs(x, D, js)
  BY Ones
<1> QED
  BY <1>1, <1>2, <1>3 DEF Piece

LEMMA NoPiece == ASSUME NEW S, NEW D, NEW js PROVE Piece(<<>>, S, D, js, {}, {})
BY WorkEmpty, Ones DEF Piece

LEMMA Pieces ==
    ASSUME NEW S, NEW D, NEW js, NEW s, NEW t, NEW A, NEW B, NEW U, NEW V,
           Piece(s, S, D, js, A, U), Piece(t, S, D, js, B, V), A \cap B = {}
    PROVE  Piece(s \o t, S, D, js, A \cup B, U \cup V)
<1>1. IsSeq(s) /\ IsSeq(t)
  BY DEF Piece, Work
<1>2. AllUses(s \o t) = AllUses(s) \cup AllUses(t)
  BY <1>1, UsesJoined
<1>3. AllDefs(s \o t, D, js) = AllDefs(s, D, js) \cup AllDefs(t, D, js)
  BY <1>1, DefsJoined
<1>4. Work(s \o t, S, D, js)
  BY WorkJoined DEF Piece
<1> QED
  BY <1>2, <1>3, <1>4 DEF Piece

\* A body's work is to place the labels it defines.
LEMMA BodyWork ==
    ASSUME NEW tree, NEW S, NEW D, Labelling(tree, S, D), NEW ss \in Seq(S), DefinedOnce(ss, D), NEW js
    PROVE  Piece(ss, S, D, js, LabelNames(DefinedIn(ss, D)), {})
<1>1. Statements(S)
  BY DEF Labelling, Statements
<1> QED
  BY <1>1, WorkBody DEF Piece

LEMMA BodyPiece ==
    ASSUME NEW tree, NEW S, NEW D, Labelling(tree, S, D), NEW n \in S, n.k \in {"block", "do"}, NEW js
    PROVE  Piece(n.body, S, D, js, LabelNames(D[n]), {}) /\ n.body \in Seq(S)
<1>1. n.body \in Seq(S)
  <2>1. CASE n.k = "block"
    <3>1. Bodies(n) = <<n.body>>
      BY <2>1 DEF Bodies, Loops
    <3>2. 1 \in DOMAIN Bodies(n) /\ Bodies(n)[1] = n.body
      BY <3>1
    <3> QED
      BY <3>2 DEF Labelling
  <2>2. CASE n.k = "do"
    <3>1. Bodies(n) = <<n.init, n.body, n.inc>>
      BY <2>2 DEF Bodies, Loops
    <3>2. 2 \in DOMAIN Bodies(n) /\ Bodies(n)[2] = n.body
      BY <3>1
    <3> QED
      BY <3>2 DEF Labelling
  <2> QED
    BY <2>1, <2>2
<1>2. Inside(n) = n.body /\ n.k # "label"
  BY DEF Inside
<1>3. D[n] = DefinedIn(n.body, D) /\ DefinedOnce(n.body, D)
  BY <1>2 DEF Labelling
<1> QED
  BY <1>1, <1>3, BodyWork

LEMMA IfPieces ==
    ASSUME NEW tree, NEW S, NEW D, Labelling(tree, S, D), NEW n \in S, n.k = "if", NEW js
    PROVE  /\ Piece(n.then, S, D, js, AllDefs(n.then, D, js), {}) /\ n.then \in Seq(S)
           /\ Piece(n.els, S, D, js, AllDefs(n.els, D, js), {}) /\ n.els \in Seq(S)
           /\ AllDefs(n.then, D, js) \cup AllDefs(n.els, D, js) = LabelNames(D[n])
           /\ AllDefs(n.then, D, js) \cap AllDefs(n.els, D, js) = {}
<1>1. n.then \in Seq(S) /\ n.els \in Seq(S)
  <2>1. Bodies(n) = <<n.then, n.els>>
    BY DEF Bodies, Loops
  <2>2. 1 \in DOMAIN Bodies(n) /\ 2 \in DOMAIN Bodies(n) /\ Bodies(n)[1] = n.then /\ Bodies(n)[2] = n.els
    BY <2>1
  <2> QED
    BY <2>2 DEF Labelling
<1>2. Inside(n) = n.then \o n.els /\ n.k # "label" /\ IsSeq(n.then) /\ IsSeq(n.els)
  BY <1>1 DEF Inside, IsSeq
<1>3. D[n] = DefinedIn(n.then \o n.els, D) /\ DefinedOnce(n.then \o n.els, D)
  BY <1>2 DEF Labelling
<1>4. /\ D[n] = DefinedIn(n.then, D) \cup DefinedIn(n.els, D)
      /\ DefinedOnce(n.then, D) /\ DefinedOnce(n.els, D)
      /\ DefinedIn(n.then, D) \cap DefinedIn(n.els, D) = {}
  BY <1>2, <1>3, DefinedJoined
<1>5. /\ Piece(n.then, S, D, js, LabelNames(DefinedIn(n.then, D)), {})
      /\ Piece(n.els, S, D, js, LabelNames(DefinedIn(n.els, D)), {})
  BY <1>1, <1>4, BodyWork
<1>6. /\ AllDefs(n.then, D, js) = LabelNames(DefinedIn(n.then, D))
      /\ AllDefs(n.els, D, js) = LabelNames(DefinedIn(n.els, D))
  BY <1>5 DEF Piece
<1> DEFINE K == DefinedIn(n.then, D)
           M == DefinedIn(n.els, D)
<1>7. LabelNames(K \cup M) = LabelNames(K) \cup LabelNames(M)
  BY DEF LabelNames
<1>8. LabelNames(K) \cap LabelNames(M) = {}
  <2>1. K \cap M = {}
    BY <1>4
  <2> HIDE DEF K, M
  <2> QED
    BY <2>1 DEF LabelNames, labname
<1> QED
  BY <1>1, <1>4, <1>5, <1>6, <1>7, <1>8

\* Expressions define no labels.
LEMMA PlainPiece ==
    ASSUME NEW tree, NEW S, NEW D, Labelling(tree, S, D), NEW ss \in Seq(S),
           \A i \in DOMAIN ss : Plain(ss[i]), NEW js
    PROVE  DefinedIn(ss, D) = {} /\ Piece(ss, S, D, js, {}, {})
<1>1. ASSUME NEW ms \in Seq(S) PROVE \A i \in DOMAIN ms : ms[i] \in S
  BY ElementOfSeq, LenProperties
<1>2. ASSUME NEW m \in S, m.k \in Simple PROVE D[m] = {}
  <2>1. Inside(m) = <<>> /\ m.k # "label"
    BY <1>2 DEF Inside, Simple
  <2>2. D[m] = DefinedIn(<<>>, D)
    BY <2>1 DEF Labelling
  <2> QED
    BY <2>2, Empty DEF DefinedIn
<1>3. ASSUME NEW m \in S, Plain(m) PROVE D[m] = {}
  <2>1. CASE m.k \in Simple
    BY <1>2, <2>1
  <2>2. CASE m.k = "block" /\ \A i \in DOMAIN m.body : m.body[i].k \in Simple
    <3>1. Inside(m) = m.body /\ Bodies(m) = <<m.body>>
      BY <2>2 DEF Inside, Bodies, Loops
    <3>2. 1 \in DOMAIN Bodies(m) /\ Bodies(m)[1] = m.body
      BY <3>1
    <3>3. m.body \in Seq(S)
      BY <3>2 DEF Labelling
    <3>4. \A i \in DOMAIN m.body : D[m.body[i]] = {}
      BY <1>1, <1>2, <2>2, <3>3
    <3>5. D[m] = DefinedIn(m.body, D)
      BY <2>2, <3>1 DEF Labelling
    <3> QED
      BY <3>4, <3>5 DEF DefinedIn
  <2> QED
    BY <1>3, <2>1, <2>2 DEF Plain
<1>4. \A i \in DOMAIN ss : D[ss[i]] = {}
  BY <1>1, <1>3
<1>5. DefinedIn(ss, D) = {} /\ DefinedOnce(ss, D)
  BY <1>4 DEF DefinedIn, DefinedOnce
<1>6. LabelNames({}) = {}
  BY DEF LabelNames
<1>7. Piece(ss, S, D, js, LabelNames(DefinedIn(ss, D)), {})
  BY <1>5, BodyWork
<1> QED
  BY <1>5, <1>6, <1>7

LEMMA LoopPieces ==
    ASSUME NEW tree, NEW S, NEW D, Labelling(tree, S, D), NEW n \in S, n.k \in {"while", "for"}, NEW js
    PROVE  /\ Piece(n.init, S, D, js, {}, {}) /\ n.init \in Seq(S) /\ \A i \in DOMAIN n.init : Plain(n.init[i])
           /\ Piece(n.body, S, D, js, LabelNames(D[n]), {}) /\ n.body \in Seq(S)
           /\ Piece(n.body, S, D, js, LabelNames(DefinedIn(n.body, D)), {})
           /\ Piece(n.inc, S, D, js, {}, {}) /\ n.inc \in Seq(S) /\ \A i \in DOMAIN n.inc : Plain(n.inc[i])
<1>1. n.init \in Seq(S) /\ n.body \in Seq(S) /\ n.inc \in Seq(S)
  <2>1. Bodies(n) = <<n.init, n.body, n.inc>>
    BY DEF Bodies, Loops
  <2>2. /\ 1 \in DOMAIN Bodies(n) /\ 2 \in DOMAIN Bodies(n) /\ 3 \in DOMAIN Bodies(n)
        /\ Bodies(n)[1] = n.init /\ Bodies(n)[2] = n.body /\ Bodies(n)[3] = n.inc
    BY <2>1
  <2> QED
    BY <2>2 DEF Labelling
<1>2. Inside(n) = (n.init \o n.body) \o n.inc /\ n.k # "label"
  BY DEF Inside
<1>3. IsSeq(n.init \o n.body) /\ IsSeq(n.init) /\ IsSeq(n.body) /\ IsSeq(n.inc)
  BY <1>1, Joined DEF IsSeq
<1>4. D[n] = DefinedIn((n.init \o n.body) \o n.inc, D) /\ DefinedOnce((n.init \o n.body) \o n.inc, D)
  BY <1>2 DEF Labelling
<1>5. D[n] = DefinedIn(n.init \o n.body, D) \cup DefinedIn(n.inc, D) /\ DefinedOnce(n.init \o n.body, D)
  BY <1>3, <1>4, DefinedJoined
<1>6. /\ DefinedIn(n.init \o n.body, D) = DefinedIn(n.init, D) \cup DefinedIn(n.body, D)
      /\ DefinedOnce(n.body, D)
  BY <1>3, <1>5, DefinedJoined
<1>7. (\A i \in DOMAIN n.init : Plain(n.init[i])) /\ \A i \in DOMAIN n.inc : Plain(n.inc[i])
  BY DEF Labelling
<1>8. /\ DefinedIn(n.init, D) = {} /\ Piece(n.init, S, D, js, {}, {})
      /\ DefinedIn(n.inc, D) = {} /\ Piece(n.inc, S, D, js, {}, {})
  BY <1>1, <1>7, PlainPiece
<1>9. D[n] = DefinedIn(n.body, D)
  BY <1>5, <1>6, <1>8
<1>10. Piece(n.body, S, D, js, LabelNames(DefinedIn(n.body, D)), {})
  BY <1>1, <1>6, BodyWork
<1> QED
  BY <1>1, <1>7, <1>8, <1>9, <1>10
-----------------------------------------------------------------------------
(* LLVM: the invariant while a function is emitted.  The labels known, those *)
(* placed and those still to be placed, take in all that is jumped to.       *)

LlDefs(ss, D) == AllDefs(ss, D, "ll")
Known(g, ss, D) == Placed(g.code) \cup LlDefs(ss, D)
Ready(g, ss, S, D, tree) ==
    /\ Lg(g) /\ Work(ss, S, D, "ll")
    /\ LlDefs(ss, D) \cap Placed(g.code) = {}
    /\ \A l \in LlDefs(ss, D) : l[3] \in 0..g.nlab
    /\ Aims(g.code) \cup AllUses(ss) \cup LabelNames(DefinedIn(tree, D)) \subseteq Known(g, ss, D)

\* The first entry gives way to items; N are the labels made for it, P those
\* placed, R those jumped to.
LEMMA Advance ==
    ASSUME NEW tree, NEW S, NEW D, NEW g, NEW ss, Ready(g, ss, S, D, tree), ss # <<>>,
           NEW m, Lg(m), m.code = g.code, g.nlab <= m.nlab,
           NEW N, \A l \in N : l[3] \in g.nlab + 1..m.nlab,
           NEW h, NEW P, NEW R, Steps(m, h, P, R),
           NEW items, Work(items, S, D, "ll"),
           P \cap LlDefs(items, D) = {},
           P \cup LlDefs(items, D) = Defs(Head(ss), D, "ll") \cup N,
           R \cup AllUses(items) \subseteq Known(g, ss, D) \cup N
    PROVE  Ready(h, items \o Tail(ss), S, D, tree)
<1> DEFINE T == LlDefs(Tail(ss), D)
           A == LlDefs(items, D)
           H == Defs(Head(ss), D, "ll")
           all == items \o Tail(ss)
<1>1. /\ Lg(g) /\ Lg(h) /\ g.nlab \in Nat /\ m.nlab \in Nat /\ h.nlab \in Nat
      /\ g.nlab <= m.nlab /\ m.nlab <= h.nlab
  BY RecFacts DEF Ready, Lg, Steps
<1>2. /\ Work(Tail(ss), S, D, "ll") /\ LlDefs(ss, D) = H \cup T /\ H \cap T = {}
      /\ AllUses(ss) = Uses(Head(ss)) \cup AllUses(Tail(ss))
  <2>1. Work(ss, S, D, "ll")
    BY DEF Ready
  <2>2. Work(Tail(ss), S, D, "ll")
    BY <2>1, WorkTail
  <2>5. Defs(Head(ss), D, "ll") \cap AllDefs(Tail(ss), D, "ll") = {}
    BY <2>1, WorkTail
  <2>3. IsSeq(ss)
    BY <2>1 DEF Work
  <2>4. AllUses(ss) = Uses(Head(ss)) \cup AllUses(Tail(ss))
    BY <2>3, UsesTail
  <2>6. AllDefs(ss, D, "ll") = Defs(Head(ss), D, "ll") \cup AllDefs(Tail(ss), D, "ll")
    BY <2>3, DefsTail
  <2> QED
    BY <2>2, <2>4, <2>5, <2>6 DEF LlDefs
<1> HIDE DEF T, A, H, all
<1>3. \A l \in H \cup T : l[3] \in 0..g.nlab /\ l \notin Placed(g.code)
  BY <1>2 DEF Ready
<1>4. \A l \in N : l \notin H \cup T /\ l \notin Placed(g.code)
  <2>1. \A l \in N : ~(l[3] \in 0..g.nlab)
    BY <1>1
  <2> QED
    BY <1>1, <1>3, <2>1 DEF Lg
<1>5. A \cap T = {} /\ A \cup P = H \cup N
  BY <1>2, <1>4 DEF A, H
<1>6. Work(all, S, D, "ll") /\ LlDefs(all, D) = A \cup T /\ AllUses(all) = AllUses(items) \cup AllUses(Tail(ss))
  <2>1. AllDefs(items, D, "ll") \cap AllDefs(Tail(ss), D, "ll") = {}
    BY <1>5 DEF A, T, LlDefs
  <2>2. Work(items, S, D, "ll") /\ Work(Tail(ss), S, D, "ll")
    BY <1>2
  <2>3. Work(items \o Tail(ss), S, D, "ll")
    BY <2>1, <2>2, WorkJoined
  <2>4. IsSeq(items) /\ IsSeq(Tail(ss))
    BY <2>2 DEF Work
  <2>6. AllDefs(items \o Tail(ss), D, "ll") = AllDefs(items, D, "ll") \cup AllDefs(Tail(ss), D, "ll")
    BY <2>4, DefsJoined
  <2>5. AllUses(items \o Tail(ss)) = AllUses(items) \cup AllUses(Tail(ss))
    BY <2>4, UsesJoined
  <2> QED
    BY <2>3, <2>5, <2>6 DEF all, A, T, LlDefs
<1>7. ASSUME NEW l \in A \cup T PROVE l[3] \in 0..m.nlab /\ l \notin Placed(h.code)
  <2>1. l[3] \in 0..m.nlab
    <3>1. CASE l \in N
      BY <1>1, <3>1
    <3>2. CASE l \in H \cup T
      BY <1>1, <1>3, <3>2
    <3> QED
      BY <1>5, <3>1, <3>2
  <2>2. l \notin Placed(g.code) /\ l \notin P
    BY <1>2, <1>3, <1>4, <1>5 DEF A
  <2>3. ~(l[3] \in m.nlab + 1..h.nlab)
    BY <1>1, <2>1
  <2> QED
    BY <2>1, <2>2, <2>3 DEF Steps
<1>8. \A l \in LlDefs(all, D) : l[3] \in 0..h.nlab
  BY <1>1, <1>6, <1>7
<1>9. Known(g, ss, D) \cup N \subseteq Known(h, all, D)
  <2>1. Placed(g.code) \cup P \subseteq Placed(h.code)
    BY DEF Steps
  <2> QED
    BY <1>2, <1>5, <1>6, <2>1 DEF Known
<1>10. Aims(h.code) \cup AllUses(all) \cup LabelNames(DefinedIn(tree, D)) \subseteq Known(g, ss, D) \cup N
  <2>1. Aims(h.code) \subseteq Aims(g.code) \cup R
    BY DEF Steps
  <2> QED
    BY <1>2, <1>6, <2>1 DEF Ready
<1> QED
  BY <1>1, <1>6, <1>7, <1>8, <1>9, <1>10 DEF Ready, all

\* The same where no label is made.
LEMMA AdvanceSame ==
    ASSUME NEW tree, NEW S, NEW D, NEW g, NEW ss, Ready(g, ss, S, D, tree), ss # <<>>,
           NEW h, NEW P, NEW R, Steps(g, h, P, R),
           NEW items, Work(items, S, D, "ll"),
           P \cap LlDefs(items, D) = {},
           P \cup LlDefs(items, D) = Defs(Head(ss), D, "ll"),
           R \cup AllUses(items) \subseteq Known(g, ss, D)
    PROVE  Ready(h, items \o Tail(ss), S, D, tree)
<1>1. Lg(g) /\ g.nlab \in Nat /\ g.nlab <= g.nlab
  BY RecFacts DEF Ready, Lg
<1>2. \A l \in {} : l[3] \in g.nlab + 1..g.nlab
  OBVIOUS
<1>3. P \cup LlDefs(items, D) = Defs(Head(ss), D, "ll") \cup {}
  OBVIOUS
<1>4. R \cup AllUses(items) \subseteq Known(g, ss, D) \cup {}
  OBVIOUS
<1> QED
  BY <1>1, <1>2, <1>3, <1>4, Advance

\* What is known of the first entry.
LEMMA TopFacts ==
    ASSUME NEW tree, NEW S, NEW D, NEW g, NEW ss, Ready(g, ss, S, D, tree), ss # <<>>
    PROVE  /\ Item(Head(ss), S) /\ Lg(g) /\ g.nlab \in Nat
           /\ \A l \in Defs(Head(ss), D, "ll") : l[3] \in 0..g.nlab /\ l \notin Placed(g.code)
           /\ Defs(Head(ss), D, "ll") \subseteq Known(g, ss, D)
           /\ Uses(Head(ss)) \subseteq Known(g, ss, D)
           /\ LabelNames(DefinedIn(tree, D)) \subseteq Known(g, ss, D)
<1>1. Lg(g) /\ g.nlab \in Nat
  BY RecFacts DEF Ready, Lg
<1>2. /\ Item(Head(ss), S) /\ AllUses(ss) = Uses(Head(ss)) \cup AllUses(Tail(ss))
      /\ LlDefs(ss, D) = Defs(Head(ss), D, "ll") \cup LlDefs(Tail(ss), D)
  <2>1. Work(ss, S, D, "ll")
    BY DEF Ready
  <2>2. Item(Head(ss), S)
    BY <2>1, WorkTail
  <2>3. IsSeq(ss)
    BY <2>1 DEF Work
  <2>4. AllUses(ss) = Uses(Head(ss)) \cup AllUses(Tail(ss))
    BY <2>3, UsesTail
  <2>5. AllDefs(ss, D, "ll") = Defs(Head(ss), D, "ll") \cup AllDefs(Tail(ss), D, "ll")
    BY <2>3, DefsTail
  <2> QED
    BY <2>2, <2>4, <2>5 DEF LlDefs
<1> QED
  BY <1>1, <1>2 DEF Ready, Known

\* The labels that a statement makes before anything else.
LEMMA TookFacts ==
    ASSUME NEW g, Lg(g), NEW n \in Nat
    PROVE  /\ Lg(took(g, n)) /\ took(g, n).code = g.code /\ took(g, n).nlab = g.nlab + n
           /\ g.nlab <= took(g, n).nlab /\ Steps(took(g, n), took(g, n), {}, {})
<1>1. /\ Rec(took(g, n)) /\ took(g, n).code = g.code /\ g.nlab \in Nat
      /\ took(g, n).block_open = g.block_open /\ took(g, n).nlab = g.nlab + n
  BY RecTakes, RecFacts DEF Lg
<1>2. g.nlab <= g.nlab + n /\ \A i \in 0..g.nlab : i \in 0..g.nlab + n
  BY <1>1
<1>3. Lg(took(g, n))
  BY <1>1, <1>2 DEF Lg
<1> QED
  BY <1>1, <1>2, <1>3, NoSteps

LEMMA NewLabels ==
    ASSUME NEW g, Lg(g), NEW a, NEW b, NEW c
    PROVE  /\ newlab(g, a, 1)[3] = g.nlab + 1 /\ newlab(g, b, 2)[3] = g.nlab + 2
           /\ newlab(g, c, 3)[3] = g.nlab + 3
           /\ newlab(g, a, 1) # newlab(g, b, 2) /\ newlab(g, b, 2) # newlab(g, c, 3)
           /\ newlab(g, a, 1) # newlab(g, c, 3)
           /\ \A l \in {newlab(g, a, 1), newlab(g, b, 2), newlab(g, c, 3)} :
                 /\ l[3] \in g.nlab + 1..took(g, 3).nlab
                 /\ l[3] \in 0..took(g, 3).nlab
                 /\ l \notin Placed(took(g, 3).code)
<1> DEFINE x == newlab(g, a, 1)
           y == newlab(g, b, 2)
           z == newlab(g, c, 3)
<1>1. x[3] = g.nlab + 1 /\ y[3] = g.nlab + 2 /\ z[3] = g.nlab + 3
  BY DEF newlab
<1> HIDE DEF x, y, z
<1>2. g.nlab \in Nat /\ took(g, 3).nlab = g.nlab + 3 /\ took(g, 3).code = g.code
  BY TookFacts, RecFacts DEF Lg
<1>3. x # y /\ y # z /\ x # z
  BY <1>1, <1>2
<1>4. \A l \in {x, y, z} : l[3] \in g.nlab + 1..g.nlab + 3
  BY <1>1, <1>2
<1>5. \A l \in {x, y, z} : l[3] \in 0..g.nlab + 3 /\ ~(l[3] \in 0..g.nlab)
  BY <1>2, <1>4
<1>6. \A l \in {x, y, z} : l \notin Placed(g.code)
  BY <1>5 DEF Lg
<1> QED
  BY <1>1, <1>2, <1>3, <1>4, <1>5, <1>6 DEF x, y, z

-----------------------------------------------------------------------------
(* LLVM: every step of the emitter keeps the invariant.                    *)

\* A statement on top, and the names that are known.
LEMMA TopStatement ==
    ASSUME NEW tree, NEW S, NEW D, Ready(em, todo, S, D, tree), todo # <<>>, Top.k \in Lowered
    PROVE  Top \in S /\ Defs(Top, D, "ll") = LabelNames(D[Top]) /\ Uses(Top) = {}
<1>1. Item(Top, S)
  BY TopFacts DEF Top
<1>2. Top.k \notin {"join", "head", "test", "loop", "inc"}
  BY DEF Lowered, Simple, Loops
<1> QED
  BY <1>1, <1>2 DEF Item, Defs, Uses

\* Simple statements and the return define and jump to nothing.
LEMMA NoBody ==
    ASSUME NEW tree, NEW S, NEW D, Labelling(tree, S, D), NEW n \in S,
           n.k \in Simple \cup {"return", "goto"}
    PROVE  LabelNames(D[n]) = {}
<1>1. Inside(n) = <<>> /\ n.k # "label"
  BY DEF Inside, Simple
<1>2. D[n] = DefinedIn(<<>>, D)
  BY <1>1 DEF Labelling
<1> QED
  BY <1>2, Empty DEF DefinedIn, LabelNames

LEMMA Nothing ==
    ASSUME NEW S, NEW D
    PROVE  Work(<<>>, S, D, "ll") /\ LlDefs(<<>>, D) = {} /\ AllUses(<<>>) = {}
BY WorkEmpty, Ones DEF LlDefs

\* A step that emits, and leaves nothing to be done.
LEMMA Emits ==
    ASSUME NEW tree, NEW S, NEW D, Ready(em, todo, S, D, tree), todo # <<>>,
           NEW h, NEW P, NEW R, Steps(em, h, P, R), Does(h, <<>>),
           P = Defs(Top, D, "ll"), R \subseteq Known(em, todo, D)
    PROVE  Ready(em', todo', S, D, tree)
<1>1. Work(<<>>, S, D, "ll") /\ LlDefs(<<>>, D) = {} /\ AllUses(<<>>) = {}
  BY Nothing
<1>2. P \cap LlDefs(<<>>, D) = {} /\ P \cup LlDefs(<<>>, D) = Defs(Head(todo), D, "ll")
  BY <1>1 DEF Top
<1>3. R \cup AllUses(<<>>) \subseteq Known(em, todo, D)
  BY <1>1
<1>4. Ready(h, <<>> \o Tail(todo), S, D, tree)
  BY <1>1, <1>2, <1>3, AdvanceSame
<1> QED
  BY <1>4 DEF Does

LEMMA LlExprStmtKeeps ==
    ASSUME NEW tree, NEW S, NEW D, Labelling(tree, S, D), Ready(em, todo, S, D, tree), LlExprStmt
    PROVE  Ready(em', todo', S, D, tree)
<1>1. /\ todo # <<>> /\ Top.k \in Simple
      /\ Does(LlExpr(em, Expr(Top)), <<>>)
  BY DEF LlExprStmt, Emitting
<1>2. Top \in S /\ Defs(Top, D, "ll") = {}
  <2>1. Top.k \in Lowered
    BY <1>1 DEF Lowered
  <2> QED
    BY <1>1, <2>1, TopStatement, NoBody
<1>3. Steps(em, LlExpr(em, Expr(Top)), {}, {})
  BY NoSteps, ExprStep DEF Ready
<1> QED
  BY <1>1, <1>2, <1>3, Emits

LEMMA LlReturnKeeps ==
    ASSUME NEW tree, NEW S, NEW D, Labelling(tree, S, D), Ready(em, todo, S, D, tree), LlReturn
    PROVE  Ready(em', todo', S, D, tree)
<1>1. /\ todo # <<>> /\ Top.k = "return"
      /\ Does(closed(ensure_block(em), Ret), <<>>)
  BY DEF LlReturn, Emitting
<1>2. Top \in S /\ Defs(Top, D, "ll") = {}
  <2>1. Top.k \in Lowered
    BY <1>1 DEF Lowered
  <2> QED
    BY <1>1, <2>1, TopStatement, NoBody
<1>3. Steps(em, closed(ensure_block(em), Ret), {}, {})
  <2>1. Terminator(Ret) /\ Targets(Ret) = {}
    BY DEF Ret, Terminator, Targets
  <2>2. Steps(em, em, {}, {})
    BY NoSteps DEF Ready
  <2>3. Steps(em, closed(ensure_block(em), Ret), {}, {} \cup Targets(Ret))
    BY <2>1, <2>2, ClosedStep
  <2> QED
    BY <2>1, <2>3
<1> QED
  BY <1>1, <1>2, <1>3, Emits

LEMMA LlGotoKeeps ==
    ASSUME NEW tree, NEW S, NEW D, Labelling(tree, S, D), Ready(em, todo, S, D, tree), LlGoto
    PROVE  Ready(em', todo', S, D, tree)
<1> DEFINE l == labname(Top.l)
           h == br_to(em, l)
<1>1. todo # <<>> /\ Top.k = "goto" /\ Does(h, <<>>)
  BY DEF LlGoto, Emitting
<1>2. Top \in S /\ Defs(Top, D, "ll") = {}
  <2>1. Top.k \in Lowered
    BY <1>1 DEF Lowered
  <2> QED
    BY <1>1, <2>1, TopStatement, NoBody
<1>3. l \in Known(em, todo, D)
  <2>1. l \in LabelNames(DefinedIn(tree, D))
    BY <1>1, <1>2 DEF Labelling, LabelNames
  <2> QED
    BY <1>1, <2>1, TopFacts
<1> HIDE DEF l
<1>4. Steps(em, h, {}, {l})
  <2>1. Steps(em, em, {}, {})
    BY NoSteps DEF Ready
  <2>2. Steps(em, h, {}, {} \cup {l})
    BY <2>1, BrStep
  <2> QED
    BY <2>2
<1> HIDE DEF h
<1> QED
  BY <1>1, <1>2, <1>3, <1>4, Emits

LEMMA LlLabelKeeps ==
    ASSUME NEW tree, NEW S, NEW D, Labelling(tree, S, D), Ready(em, todo, S, D, tree), LlLabel
    PROVE  Ready(em', todo', S, D, tree)
<1> DEFINE l == labname(Top.l)
           h == place_label(em, l)
<1>1. todo # <<>> /\ Top.k = "label" /\ Does(h, <<>>)
  BY DEF LlLabel, Emitting
<1>2. Top \in S /\ Defs(Top, D, "ll") = {l}
  <2>1. Top.k \in Lowered
    BY <1>1 DEF Lowered
  <2>2. Top \in S /\ Defs(Top, D, "ll") = LabelNames(D[Top])
    BY <1>1, <2>1, TopStatement
  <2>3. D[Top] = {Top.l}
    BY <1>1, <2>2 DEF Labelling
  <2> QED
    BY <2>2, <2>3 DEF LabelNames
<1> HIDE DEF l
<1>3. l[3] \in 0..em.nlab /\ l \notin Placed(em.code) /\ l \in Known(em, todo, D)
  BY <1>1, <1>2, TopFacts DEF Top
<1>4. Steps(em, h, {l}, {l})
  <2>1. Steps(em, em, {}, {})
    BY NoSteps DEF Ready
  <2>2. Steps(em, h, {} \cup {l}, {} \cup {l})
    BY <1>3, <2>1, PlaceStep
  <2> QED
    BY <2>2
<1> HIDE DEF h
<1> QED
  BY <1>1, <1>2, <1>3, <1>4, Emits

LEMMA LlHeadKeeps ==
    ASSUME NEW tree, NEW S, NEW D, Ready(em, todo, S, D, tree), LlHead
    PROVE  Ready(em', todo', S, D, tree)
<1> DEFINE hl == Top.hl
           bl == Top.bl
           el == Top.el
           a == br_to(em, hl)
           b == place_label(a, hl)
           c == IF Top.cond.t = "always" THEN br_to(b, bl) ELSE emit_cond_br(b, Top.cond, bl, el)
           h == place_label(c, bl)
<1>1. todo # <<>> /\ Top.k = "head" /\ Does(h, <<>>)
  BY DEF LlHead, Emitting
<1>2. hl # bl /\ Defs(Top, D, "ll") = {hl, bl} /\ Uses(Top) = {hl, bl, el}
  <2>1. Item(Top, S)
    BY <1>1, TopFacts DEF Top
  <2> QED
    BY <1>1, <2>1 DEF Item, Defs, Uses, Named
<1> HIDE DEF hl, bl, el
<1>3. /\ hl[3] \in 0..em.nlab /\ hl \notin Placed(em.code)
      /\ bl[3] \in 0..em.nlab /\ bl \notin Placed(em.code)
      /\ {hl, bl, el} \subseteq Known(em, todo, D)
  BY <1>1, <1>2, TopFacts DEF Top
<1>4. Steps(em, a, {}, {hl})
  <2>1. Steps(em, em, {}, {})
    BY NoSteps DEF Ready
  <2>2. Steps(em, a, {}, {} \cup {hl})
    BY <2>1, BrStep
  <2> QED
    BY <2>2
<1> HIDE DEF a
<1>5. Steps(em, b, {hl}, {hl})
  <2>1. Steps(em, b, {} \cup {hl}, {hl} \cup {hl})
    BY <1>3, <1>4, PlaceStep
  <2> QED
    BY <2>1
<1> HIDE DEF b
<1>6. \E R : R \subseteq {hl, bl, el} /\ Steps(em, c, {hl}, R)
  <2>1. CASE Top.cond.t = "always"
    <3>1. Steps(em, br_to(b, bl), {hl}, {hl} \cup {bl})
      BY <1>5, BrStep
    <3> QED
      BY <2>1, <3>1
  <2>2. CASE Top.cond.t # "always"
    <3>1. Steps(em, emit_cond_br(b, Top.cond, bl, el), {hl}, {hl} \cup {bl, el})
      BY <1>5, CondStep
    <3> QED
      BY <2>2, <3>1
  <2> QED
    BY <2>1, <2>2
<1> HIDE DEF c
<1>7. PICK R : R \subseteq {hl, bl, el} /\ Steps(em, c, {hl}, R)
  BY <1>6
<1>8. Steps(em, h, {hl} \cup {bl}, R \cup {bl})
  BY <1>2, <1>3, <1>7, PlaceStep
<1> HIDE DEF h
<1>9. {hl} \cup {bl} = Defs(Top, D, "ll") /\ R \cup {bl} \subseteq Known(em, todo, D)
  BY <1>2, <1>3, <1>7
<1> QED
  BY <1>1, <1>8, <1>9, Emits

LEMMA LlTestKeeps ==
    ASSUME NEW tree, NEW S, NEW D, Ready(em, todo, S, D, tree), LlTest
    PROVE  Ready(em', todo', S, D, tree)
<1> DEFINE hl == Top.hl
           bl == Top.bl
           el == Top.el
           a == br_to(em, hl)
           b == place_label(a, hl)
           c == emit_cond_br(b, Top.cond, bl, el)
           h == place_label(c, el)
<1>1. todo # <<>> /\ Top.k = "test" /\ Does(h, <<>>)
  BY DEF LlTest, Emitting
<1>2. hl # el /\ Defs(Top, D, "ll") = {hl, el} /\ Uses(Top) = {hl, bl, el}
  <2>1. Item(Top, S)
    BY <1>1, TopFacts DEF Top
  <2> QED
    BY <1>1, <2>1 DEF Item, Defs, Uses, Named
<1> HIDE DEF hl, bl, el
<1>3. /\ hl[3] \in 0..em.nlab /\ hl \notin Placed(em.code)
      /\ el[3] \in 0..em.nlab /\ el \notin Placed(em.code)
      /\ {hl, bl, el} \subseteq Known(em, todo, D)
  BY <1>1, <1>2, TopFacts DEF Top
<1>4. Steps(em, a, {}, {hl})
  <2>1. Steps(em, em, {}, {})
    BY NoSteps DEF Ready
  <2>2. Steps(em, a, {}, {} \cup {hl})
    BY <2>1, BrStep
  <2> QED
    BY <2>2
<1> HIDE DEF a
<1>5. Steps(em, b, {hl}, {hl})
  <2>1. Steps(em, b, {} \cup {hl}, {hl} \cup {hl})
    BY <1>3, <1>4, PlaceStep
  <2> QED
    BY <2>1
<1> HIDE DEF b
<1>6. Steps(em, c, {hl}, {hl} \cup {bl, el})
  BY <1>5, CondStep
<1> HIDE DEF c
<1>7. Steps(em, h, {hl} \cup {el}, ({hl} \cup {bl, el}) \cup {el})
  BY <1>2, <1>3, <1>6, PlaceStep
<1> HIDE DEF h
<1>8. {hl} \cup {el} = Defs(Top, D, "ll") /\ ({hl} \cup {bl, el}) \cup {el} \subseteq Known(em, todo, D)
  BY <1>2, <1>3
<1> QED
  BY <1>1, <1>7, <1>8, Emits

LEMMA LlJoinKeeps ==
    ASSUME NEW tree, NEW S, NEW D, Ready(em, todo, S, D, tree), LlJoin
    PROVE  Ready(em', todo', S, D, tree)
<1> DEFINE l == Top.l
           at == Top.at
           a == br_to(em, l)
           h == place_label(a, at)
<1>1. todo # <<>> /\ Top.k = "join" /\ Does(h, <<>>)
  BY DEF LlJoin, Emitting
<1>2. Defs(Top, D, "ll") = {at} /\ Uses(Top) = {l, at}
  BY <1>1 DEF Defs, Uses, Named
<1> HIDE DEF l, at
<1>3. at[3] \in 0..em.nlab /\ at \notin Placed(em.code) /\ {l, at} \subseteq Known(em, todo, D)
  BY <1>1, <1>2, TopFacts DEF Top
<1>4. Steps(em, a, {}, {l})
  <2>1. Steps(em, em, {}, {})
    BY NoSteps DEF Ready
  <2>2. Steps(em, a, {}, {} \cup {l})
    BY <2>1, BrStep
  <2> QED
    BY <2>2
<1> HIDE DEF a
<1>5. Steps(em, h, {} \cup {at}, {l} \cup {at})
  BY <1>3, <1>4, PlaceStep
<1> HIDE DEF h
<1>6. {} \cup {at} = Defs(Top, D, "ll") /\ {l} \cup {at} \subseteq Known(em, todo, D)
  BY <1>2, <1>3
<1> QED
  BY <1>1, <1>5, <1>6, Emits

LEMMA LlBlockKeeps ==
    ASSUME NEW tree, NEW S, NEW D, Labelling(tree, S, D), Ready(em, todo, S, D, tree), LlBlock
    PROVE  Ready(em', todo', S, D, tree)
<1> DEFINE b == Top.body
<1>1. todo # <<>> /\ Top.k = "block" /\ Does(em, b)
  BY DEF LlBlock, Emitting
<1>2. Top \in S /\ Defs(Top, D, "ll") = LabelNames(D[Top])
  <2>1. Top.k \in Lowered
    BY <1>1 DEF Lowered
  <2> QED
    BY <1>1, <2>1, TopStatement
<1>3. Work(b, S, D, "ll") /\ AllUses(b) = {} /\ AllDefs(b, D, "ll") = LabelNames(D[Top])
  <2> DEFINE n == Top
  <2>1. n \in S /\ n.k = "block" /\ b = n.body
    BY <1>1, <1>2
  <2> HIDE DEF n, b
  <2>2. Piece(n.body, S, D, "ll", LabelNames(D[n]), {})
    BY <2>1, BodyPiece
  <2> QED
    BY <2>1, <2>2 DEF n, Piece
<1> HIDE DEF b
<1>4. /\ {} \cap LlDefs(b, D) = {} /\ {} \cup LlDefs(b, D) = Defs(Head(todo), D, "ll")
      /\ {} \cup AllUses(b) \subseteq Known(em, todo, D)
  BY <1>2, <1>3 DEF LlDefs, Top
<1>5. Steps(em, em, {}, {})
  BY NoSteps DEF Ready
<1>6. Ready(em, b \o Tail(todo), S, D, tree)
  BY <1>1, <1>3, <1>4, <1>5, AdvanceSame
<1> QED
  BY <1>1, <1>6 DEF Does
LEMMA JoinPiece ==
    ASSUME NEW S, NEW D, NEW js, NEW l, NEW at
    PROVE  Piece(<<Join(l, at)>>, S, D, js, {Named(at, js)}, {l, at})
<1> DEFINE x == Join(l, at)
<1>1. Item(x, S) /\ Defs(x, D, js) = {Named(at, js)} /\ Uses(x) = {l, at}
  BY DEF Join, Item, Defs, Uses
<1> HIDE DEF x
<1>2. Piece(<<x>>, S, D, js, Defs(x, D, js), Uses(x))
  BY <1>1, PieceOf
<1> QED
  BY <1>1, <1>2 DEF x

LEMMA HeadPiece ==
    ASSUME NEW S, NEW D, NEW js, NEW n, NEW hl, NEW bl, NEW el, hl # bl
    PROVE  Piece(<<HeadOf(n, hl, bl, el)>>, S, D, js, {Named(hl, js), Named(bl, js)}, {hl, bl, el})
<1> DEFINE x == HeadOf(n, hl, bl, el)
<1>1. Item(x, S) /\ Defs(x, D, js) = {Named(hl, js), Named(bl, js)} /\ Uses(x) = {hl, bl, el}
  BY DEF HeadOf, Item, Defs, Uses
<1> HIDE DEF x
<1>2. Piece(<<x>>, S, D, js, Defs(x, D, js), Uses(x))
  BY <1>1, PieceOf
<1> QED
  BY <1>1, <1>2 DEF x

LEMMA TestPiece ==
    ASSUME NEW S, NEW D, NEW js, NEW n, NEW hl, NEW bl, NEW el, hl # el
    PROVE  Piece(<<TestOf(n, hl, bl, el)>>, S, D, js, {Named(hl, js), Named(el, js)}, {hl, bl, el})
<1> DEFINE x == TestOf(n, hl, bl, el)
<1>1. Item(x, S) /\ Defs(x, D, js) = {Named(hl, js), Named(el, js)} /\ Uses(x) = {hl, bl, el}
  BY DEF TestOf, Item, Defs, Uses
<1> HIDE DEF x
<1>2. Piece(<<x>>, S, D, js, Defs(x, D, js), Uses(x))
  BY <1>1, PieceOf
<1> QED
  BY <1>1, <1>2 DEF x

\* A statement that makes the labels N, places P, and has items left to do.
LEMMA Makes ==
    ASSUME NEW tree, NEW S, NEW D, Ready(em, todo, S, D, tree), todo # <<>>,
           NEW N, \A l \in N : l[3] \in em.nlab + 1..took(em, 3).nlab,
           NEW h, NEW P, P \subseteq N, NEW R, R \subseteq N, Steps(took(em, 3), h, P, R),
           NEW items, Does(h, items), NEW A, NEW U, Piece(items, S, D, "ll", A, U),
           P \cap A = {}, P \cup A = Defs(Top, D, "ll") \cup N, U \subseteq N
    PROVE  Ready(em', todo', S, D, tree)
<1>1. Lg(em) /\ em.nlab \in Nat
  BY TopFacts
<1>2. Lg(took(em, 3)) /\ took(em, 3).code = em.code /\ em.nlab <= took(em, 3).nlab
  BY <1>1, TookFacts
<1>3. Work(items, S, D, "ll") /\ LlDefs(items, D) = A /\ AllUses(items) = U
  BY DEF Piece, LlDefs
<1>4. P \cap LlDefs(items, D) = {} /\ P \cup LlDefs(items, D) = Defs(Head(todo), D, "ll") \cup N
  BY <1>3 DEF Top
<1>5. R \cup AllUses(items) \subseteq Known(em, todo, D) \cup N
  BY <1>3
<1> DEFINE m == took(em, 3)
<1> HIDE DEF m
<1>6. Lg(m) /\ m.code = em.code /\ em.nlab <= m.nlab /\ Steps(m, h, P, R) /\ \A l \in N : l[3] \in em.nlab + 1..m.nlab
  BY <1>2 DEF m
<1>7. Ready(h, items \o Tail(todo), S, D, tree)
  BY <1>3, <1>4, <1>5, <1>6, Advance
<1> QED
  BY <1>7 DEF Does

\* A function's three next labels, and the statement on top.
LEMMA Three ==
    ASSUME NEW tree, NEW S, NEW D, Ready(em, todo, S, D, tree), todo # <<>>,
           NEW a, NEW b, NEW c
    PROVE  /\ newlab(em, a, 1) # newlab(em, b, 2) /\ newlab(em, b, 2) # newlab(em, c, 3)
           /\ newlab(em, a, 1) # newlab(em, c, 3)
           /\ \A l \in {newlab(em, a, 1), newlab(em, b, 2), newlab(em, c, 3)} :
                 /\ l[3] \in em.nlab + 1..took(em, 3).nlab
                 /\ l[3] \in 0..took(em, 3).nlab
                 /\ l \notin Placed(took(em, 3).code)
                 /\ l \notin Defs(Top, D, "ll")
<1>1. Lg(em) /\ em.nlab \in Nat /\ \A l \in Defs(Top, D, "ll") : l[3] \in 0..em.nlab
  BY TopFacts DEF Top
<1>2. \A k \in em.nlab + 1..took(em, 3).nlab : k \notin 0..em.nlab
  BY <1>1
<1> QED
  BY <1>1, <1>2, NewLabels

LEMMA LlIfKeeps ==
    ASSUME NEW tree, NEW S, NEW D, Labelling(tree, S, D), Ready(em, todo, S, D, tree), LlIf
    PROVE  Ready(em', todo', S, D, tree)
<1> DEFINE tl == newlab(em, "then", 1)
           el == newlab(em, "else", 2)
           dl == newlab(em, "endif", 3)
           fl == IF Top.els # <<>> THEN el ELSE dl
           m == took(em, 3)
           c == emit_cond_br(m, Top.cond, tl, fl)
           h == place_label(c, tl)
           th == Top.then
           es == Top.els
           x == IF Top.els # <<>> THEN Top.els \o <<Join(dl, dl)>> ELSE <<>>
           items == (th \o <<Join(dl, fl)>>) \o x
           H == Defs(Top, D, "ll")
           A == AllDefs(th, D, "ll")
           B == AllDefs(es, D, "ll")
           N == {tl, fl, dl}
<1>1. todo # <<>> /\ Top.k = "if" /\ Does(h, items)
  BY DEF LlIf, Emitting
<1>2. Top \in S /\ H = LabelNames(D[Top])
  <2>1. Top.k \in Lowered
    BY <1>1 DEF Lowered
  <2> QED
    BY <1>1, <2>1, TopStatement
<1>3. /\ Piece(th, S, D, "ll", A, {}) /\ Piece(es, S, D, "ll", B, {})
      /\ A \cup B = H /\ A \cap B = {}
  <2> DEFINE n == Top
  <2>1. n \in S /\ n.k = "if"
    BY <1>1, <1>2
  <2> HIDE DEF n
  <2>2. /\ Piece(n.then, S, D, "ll", AllDefs(n.then, D, "ll"), {})
        /\ Piece(n.els, S, D, "ll", AllDefs(n.els, D, "ll"), {})
        /\ AllDefs(n.then, D, "ll") \cup AllDefs(n.els, D, "ll") = LabelNames(D[n])
        /\ AllDefs(n.then, D, "ll") \cap AllDefs(n.els, D, "ll") = {}
    BY <2>1, IfPieces
  <2> QED
    BY <1>2, <2>2 DEF n
<1>4. Steps(m, m, {}, {})
  BY <1>1, TopFacts, TookFacts
<1>5. /\ tl # el /\ el # dl /\ tl # dl
      /\ \A l \in {tl, el, dl} : /\ l[3] \in em.nlab + 1..m.nlab /\ l[3] \in 0..m.nlab
                                 /\ l \notin Placed(m.code) /\ l \notin H
  BY <1>1, Three
<1>6. fl = (IF es # <<>> THEN el ELSE dl) /\ x = IF es # <<>> THEN es \o <<Join(dl, dl)>> ELSE <<>>
  OBVIOUS
<1>7. N = {tl, fl, dl} /\ es = Top.els
  OBVIOUS
<1>8. \A l : Named(l, "ll") = l
  BY DEF Named
<1> HIDE DEF tl, el, dl, th, es, fl, x, A, B, H, N
<1>9. Steps(m, h, {tl}, {tl, fl})
  <2> HIDE DEF m
  <2>1. Steps(m, c, {}, {} \cup {tl, fl})
    BY <1>4, CondStep
  <2> HIDE DEF c
  <2>2. tl \notin Placed(m.code) \cup {} /\ tl[3] \in 0..m.nlab
    BY <1>5
  <2>3. Steps(m, h, {} \cup {tl}, ({} \cup {tl, fl}) \cup {tl})
    BY <2>1, <2>2, PlaceStep
  <2>4. /\ {} \cup {tl} = {tl} /\ ({} \cup {tl, fl}) \cup {tl} = {tl, fl}
    OBVIOUS
  <2> QED
    BY <2>3, <2>4
<1>10. Piece(x, S, D, "ll", B \cup (IF es # <<>> THEN {dl} ELSE {}), IF es # <<>> THEN {dl} ELSE {})
  <2>1. CASE es = <<>>
    <3>1. x = <<>> /\ Piece(<<>>, S, D, "ll", {}, {})
      BY <1>6, <2>1, NoPiece
    <3>2. B = {}
      BY <1>3, <2>1, <3>1 DEF Piece
    <3> QED
      BY <2>1, <3>1, <3>2
  <2>2. CASE es # <<>>
    <3>1. Piece(<<Join(dl, dl)>>, S, D, "ll", {Named(dl, "ll")}, {dl, dl})
      BY JoinPiece
    <3>2. {dl, dl} = {dl} /\ Named(dl, "ll") = dl /\ B \cap {dl} = {} /\ {} \cup {dl} = {dl}
      BY <1>3, <1>5, <1>8
    <3>3. Piece(es \o <<Join(dl, dl)>>, S, D, "ll", B \cup {dl}, {} \cup {dl})
      BY <1>3, <3>1, <3>2, Pieces
    <3> QED
      BY <1>6, <2>2, <3>2, <3>3
  <2> QED
    BY <2>1, <2>2
<1>11. Piece(th \o <<Join(dl, fl)>>, S, D, "ll", A \cup {fl}, {dl, fl})
  <2>1. Piece(<<Join(dl, fl)>>, S, D, "ll", {Named(fl, "ll")}, {dl, fl})
    BY JoinPiece
  <2>2. {} \cup {dl, fl} = {dl, fl} /\ Named(fl, "ll") = fl /\ A \cap {fl} = {}
    BY <1>3, <1>5, <1>6, <1>8
  <2>3. Piece(th \o <<Join(dl, fl)>>, S, D, "ll", A \cup {fl}, {} \cup {dl, fl})
    BY <1>3, <2>1, <2>2, Pieces
  <2> QED
    BY <2>2, <2>3
<1>12. Piece(items, S, D, "ll", H \cup {fl, dl}, {dl, fl})
  <2> DEFINE y == th \o <<Join(dl, fl)>>
             J == IF es # <<>> THEN {dl} ELSE {}
  <2>1. Piece(y, S, D, "ll", A \cup {fl}, {dl, fl}) /\ Piece(x, S, D, "ll", B \cup J, J) /\ items = y \o x
    BY <1>10, <1>11
  <2>2. /\ (A \cup {fl}) \cap (B \cup J) = {}
        /\ (A \cup {fl}) \cup (B \cup J) = H \cup {fl, dl}
        /\ {dl, fl} \cup J = {dl, fl}
    <3>1. CASE es = <<>>
      BY <1>3, <1>5, <1>6, <3>1
    <3>2. CASE es # <<>>
      BY <1>3, <1>5, <1>6, <3>2
    <3> QED
      BY <3>1, <3>2
  <2> HIDE DEF y, J, items
  <2>3. Piece(y \o x, S, D, "ll", (A \cup {fl}) \cup (B \cup J), {dl, fl} \cup J)
    BY <2>1, <2>2, Pieces
  <2> QED
    BY <2>1, <2>2, <2>3
<1>13. \A l \in N : l[3] \in em.nlab + 1..m.nlab
  BY <1>5, <1>6, <1>7
<1>14. /\ {tl} \cap (H \cup {fl, dl}) = {}
       /\ {tl} \cup (H \cup {fl, dl}) = Defs(Top, D, "ll") \cup N
       /\ {dl, fl} \subseteq N /\ {tl} \subseteq N /\ {tl, fl} \subseteq N
  BY <1>5, <1>6, <1>7 DEF H
<1> HIDE DEF h, items
<1> DEFINE A1 == H \cup {fl, dl}
           U1 == {dl, fl}
           P1 == {tl}
           R1 == {tl, fl}
<1>15. /\ P1 \cap A1 = {} /\ P1 \cup A1 = Defs(Top, D, "ll") \cup N
       /\ P1 \subseteq N /\ R1 \subseteq N /\ U1 \subseteq N
       /\ Steps(took(em, 3), h, P1, R1) /\ Piece(items, S, D, "ll", A1, U1)
       /\ \A l \in N : l[3] \in em.nlab + 1..took(em, 3).nlab
       /\ todo # <<>> /\ Does(h, items)
  BY <1>1, <1>9, <1>12, <1>13, <1>14
<1> HIDE DEF A1, U1, P1, R1, m
<1> QED
  BY <1>15, Makes
LEMMA LlDoKeeps ==
    ASSUME NEW tree, NEW S, NEW D, Labelling(tree, S, D), Ready(em, todo, S, D, tree), LlDo
    PROVE  Ready(em', todo', S, D, tree)
<1> DEFINE bl == newlab(em, "body", 1)
           hl == newlab(em, "cond", 2)
           el == newlab(em, "end", 3)
           m == took(em, 3)
           c == br_to(m, bl)
           h == place_label(c, bl)
           t == <<TestOf(Top, hl, bl, el)>>
           b == Top.body
           items == b \o t
           H == Defs(Top, D, "ll")
           N == {bl, hl, el}
           A1 == H \cup {hl, el}
           P1 == {bl}
           U1 == {bl, hl, el}
<1>1. todo # <<>> /\ Top.k = "do" /\ Does(h, items)
  BY DEF LlDo, Emitting
<1>2. Top \in S /\ H = LabelNames(D[Top])
  <2>1. Top.k \in Lowered
    BY <1>1 DEF Lowered, Loops
  <2> QED
    BY <1>1, <2>1, TopStatement
<1>3. Piece(b, S, D, "ll", H, {})
  <2> DEFINE n == Top
  <2>1. n \in S /\ n.k = "do"
    BY <1>1, <1>2
  <2> HIDE DEF n
  <2>2. Piece(n.body, S, D, "ll", LabelNames(D[n]), {})
    BY <2>1, BodyPiece
  <2> QED
    BY <1>2, <2>2 DEF n
<1>4. Steps(m, m, {}, {})
  BY <1>1, TopFacts, TookFacts
<1>5. /\ bl # hl /\ hl # el /\ bl # el
      /\ \A l \in {bl, hl, el} : /\ l[3] \in em.nlab + 1..m.nlab /\ l[3] \in 0..m.nlab
                                 /\ l \notin Placed(m.code) /\ l \notin H
  BY <1>1, Three
<1> HIDE DEF bl, hl, el, b
<1>6. Piece(t, S, D, "ll", {hl, el}, {hl, bl, el})
  <2>1. Piece(t, S, D, "ll", {Named(hl, "ll"), Named(el, "ll")}, {hl, bl, el})
    BY <1>5, TestPiece
  <2> QED
    BY <2>1 DEF Named
<1> HIDE DEF H, t
<1>7. Piece(items, S, D, "ll", A1, U1)
  <2>1. H \cap {hl, el} = {} /\ {} \cup {hl, bl, el} = U1
    BY <1>5
  <2>2. Piece(items, S, D, "ll", H \cup {hl, el}, {} \cup {hl, bl, el})
    BY <1>3, <1>6, <2>1, Pieces
  <2> QED
    BY <2>1, <2>2
<1>8. Steps(m, h, P1, P1)
  <2> HIDE DEF m
  <2>1. Steps(m, c, {}, {} \cup {bl})
    BY <1>4, BrStep
  <2> HIDE DEF c
  <2>2. bl \notin Placed(m.code) \cup {} /\ bl[3] \in 0..m.nlab
    BY <1>5
  <2>3. Steps(m, h, {} \cup {bl}, ({} \cup {bl}) \cup {bl})
    BY <2>1, <2>2, PlaceStep
  <2>4. {} \cup {bl} = P1 /\ ({} \cup {bl}) \cup {bl} = P1
    OBVIOUS
  <2> QED
    BY <2>3, <2>4
<1>9. \A l \in N : l[3] \in em.nlab + 1..took(em, 3).nlab
  BY <1>5
<1>10. /\ P1 \cap A1 = {} /\ P1 \cup A1 = Defs(Top, D, "ll") \cup N
       /\ P1 \subseteq N /\ U1 \subseteq N
       /\ Steps(took(em, 3), h, P1, P1)
  BY <1>5, <1>8 DEF H
<1> HIDE DEF h, items, N, A1, P1, U1, m
<1> QED
  BY <1>1, <1>7, <1>9, <1>10, Makes

LEMMA LlLoopKeeps ==
    ASSUME NEW tree, NEW S, NEW D, Labelling(tree, S, D), Ready(em, todo, S, D, tree), LlLoop
    PROVE  Ready(em', todo', S, D, tree)
<1> DEFINE hl == newlab(em, "head", 1)
           bl == newlab(em, "body", 2)
           el == newlab(em, "end", 3)
           m == took(em, 3)
           a == Top.init
           x == <<HeadOf(Top, hl, bl, el)>>
           b == Top.body
           c == Top.inc
           j == <<Join(hl, el)>>
           items == (((a \o x) \o b) \o c) \o j
           H == Defs(Top, D, "ll")
           N == {hl, bl, el}
           A1 == H \cup {hl, bl, el}
           P1 == {}
           U1 == {hl, bl, el}
<1>1. todo # <<>> /\ Top.k \in {"while", "for"} /\ Does(m, items)
  BY DEF LlLoop, Emitting
<1>2. Top \in S /\ H = LabelNames(D[Top])
  <2>1. Top.k \in Lowered
    BY <1>1 DEF Lowered, Loops
  <2> QED
    BY <1>1, <2>1, TopStatement
<1>3. /\ Piece(a, S, D, "ll", {}, {}) /\ Piece(b, S, D, "ll", H, {}) /\ Piece(c, S, D, "ll", {}, {})
  <2> DEFINE n == Top
  <2>1. n \in S /\ n.k \in {"while", "for"}
    BY <1>1, <1>2
  <2> HIDE DEF n
  <2>2. /\ Piece(n.init, S, D, "ll", {}, {}) /\ Piece(n.body, S, D, "ll", LabelNames(D[n]), {})
        /\ Piece(n.inc, S, D, "ll", {}, {})
    BY <2>1, LoopPieces
  <2> QED
    BY <1>2, <2>2 DEF n
<1>4. Steps(m, m, {}, {})
  BY <1>1, TopFacts, TookFacts
<1>5. /\ hl # bl /\ bl # el /\ hl # el
      /\ \A l \in {hl, bl, el} : /\ l[3] \in em.nlab + 1..m.nlab /\ l \notin H
  BY <1>1, Three
<1> HIDE DEF hl, bl, el, a, b, c
<1>6. Piece(x, S, D, "ll", {hl, bl}, {hl, bl, el}) /\ Piece(j, S, D, "ll", {el}, {hl, el})
  <2>1. Piece(x, S, D, "ll", {Named(hl, "ll"), Named(bl, "ll")}, {hl, bl, el})
    BY <1>5, HeadPiece
  <2>2. Piece(j, S, D, "ll", {Named(el, "ll")}, {hl, el})
    BY JoinPiece
  <2> QED
    BY <2>1, <2>2 DEF Named
<1> HIDE DEF H, x, j
<1>7. Piece(items, S, D, "ll", A1, U1)
  <2>1. Piece(a \o x, S, D, "ll", {hl, bl}, {hl, bl, el})
    <3>1. {} \cap {hl, bl} = {} /\ {} \cup {hl, bl} = {hl, bl} /\ {} \cup {hl, bl, el} = {hl, bl, el}
      OBVIOUS
    <3>2. Piece(a \o x, S, D, "ll", {} \cup {hl, bl}, {} \cup {hl, bl, el})
      BY <1>3, <1>6, <3>1, Pieces
    <3> QED
      BY <3>1, <3>2
  <2>2. Piece((a \o x) \o b, S, D, "ll", {hl, bl} \cup H, {hl, bl, el})
    <3>1. {hl, bl} \cap H = {} /\ {hl, bl, el} \cup {} = {hl, bl, el}
      BY <1>5
    <3>2. Piece((a \o x) \o b, S, D, "ll", {hl, bl} \cup H, {hl, bl, el} \cup {})
      BY <1>3, <2>1, <3>1, Pieces
    <3> QED
      BY <3>1, <3>2
  <2>3. Piece(((a \o x) \o b) \o c, S, D, "ll", {hl, bl} \cup H, {hl, bl, el})
    <3>1. /\ ({hl, bl} \cup H) \cap {} = {} /\ ({hl, bl} \cup H) \cup {} = {hl, bl} \cup H
          /\ {hl, bl, el} \cup {} = {hl, bl, el}
      OBVIOUS
    <3>2. Piece(((a \o x) \o b) \o c, S, D, "ll", ({hl, bl} \cup H) \cup {}, {hl, bl, el} \cup {})
      BY <1>3, <2>2, <3>1, Pieces
    <3> QED
      BY <3>1, <3>2
  <2>4. /\ ({hl, bl} \cup H) \cap {el} = {} /\ ({hl, bl} \cup H) \cup {el} = A1
        /\ {hl, bl, el} \cup {hl, el} = U1
    BY <1>5
  <2>5. Piece(items, S, D, "ll", ({hl, bl} \cup H) \cup {el}, {hl, bl, el} \cup {hl, el})
    BY <1>6, <2>3, <2>4, Pieces
  <2> QED
    BY <2>4, <2>5
<1>8. \A l \in N : l[3] \in em.nlab + 1..took(em, 3).nlab
  BY <1>5
<1>9. /\ P1 \cap A1 = {} /\ P1 \cup A1 = Defs(Top, D, "ll") \cup N
      /\ P1 \subseteq N /\ U1 \subseteq N
      /\ Steps(took(em, 3), m, P1, P1)
  BY <1>4 DEF H
<1> HIDE DEF items, N, A1, P1, U1, m
<1> QED
  BY <1>1, <1>7, <1>8, <1>9, Makes

-----------------------------------------------------------------------------
(* LLVM: the finished code, and the machine that runs it. *)

\* Code that is closed and whose targets are all placed.
Finished(c) ==
    /\ IsSeq(c) /\ Shape(c, FALSE) /\ Once(c) /\ Aims(c) \subseteq Placed(c)

LEMMA FinishedCloses ==
    ASSUME Finished(code)
    PROVE  /\ BlocksClosed
           /\ Len(code) \in Nat /\ 1 \in DOMAIN code /\ DOMAIN code = 1..Len(code)
           /\ Terminator(code[Len(code)])
           /\ \A l \in Aims(code) : \E i \in DOMAIN code : code[i] = Lbl(l)
<1>1. /\ Len(code) \in Nat /\ DOMAIN code = 1..Len(code) /\ (code = <<>> <=> Len(code) = 0)
  BY SeqFacts DEF Finished
<1>2. /\ code # <<>> /\ Terminator(code[Len(code)])
      /\ \A i \in 1..Len(code) - 1 : Terminator(code[i]) <=> code[i + 1].op = "label"
  BY DEF Finished, Shape
<1>3. ASSUME NEW l \in Aims(code)
      PROVE  \E i \in DOMAIN code : code[i] = Lbl(l) /\ {j \in DOMAIN code : code[j] = Lbl(l)} = {i}
  <2>1. PICK i \in DOMAIN code : code[i].op = "label" /\ code[i].l = l
    BY <1>3 DEF Finished, Placed
  <2>2. code[i] = Lbl(l)
    BY <2>1 DEF Finished, Once
  <2>3. ASSUME NEW j \in DOMAIN code, code[j] = Lbl(l) PROVE j = i
    <3>1. code[j].op = "label" /\ code[j].l = l
      BY <2>3 DEF Lbl
    <3> QED
      BY <2>1, <3>1 DEF Finished, Once
  <2> QED
    BY <2>2, <2>3
<1>4. ASSUME NEW l \in Aims(code) PROVE Cardinality({j \in DOMAIN code : code[j] = Lbl(l)}) = 1
  <2>1. PICK i \in DOMAIN code : {j \in DOMAIN code : code[j] = Lbl(l)} = {i}
    BY <1>3
  <2> QED
    BY <2>1, FS_Singleton
<1>5. \A i \in DOMAIN code : Targets(code[i]) \subseteq Aims(code)
  BY DEF Aims
<1> QED
  BY <1>1, <1>2, <1>3, <1>4, <1>5 DEF BlocksClosed

\* The machine stays on the code, and reads no more than it may.
Runs ==
    /\ phase \in {"emit", "print", "run", "done", "starved", "toobig"}
    /\ phase = "run" => Finished(code) /\ pc \in DOMAIN code
    /\ phase \in {"emit", "print"} => pc = 1
    /\ ins \in Seq(Vals) /\ Len(ins) <= MaxInputs

LEMMA ReadsOne ==
    ASSUME NEW v \in Vals, Read(v), ins \in Seq(Vals)
    PROVE  ins' \in Seq(Vals) /\ Len(ins') <= MaxInputs
<1>1. ins' \in Seq(Vals) /\ Len(ins') = Len(ins) + 1 /\ Len(ins) \in Nat
  BY AppendProperties, LenProperties DEF Read
<1>2. MaxInputs \in Nat /\ Len(ins) < MaxInputs
  BY LinearAssumption DEF Read
<1> QED
  BY <1>1, <1>2

LEMMA ExecRuns == ASSUME Runs, Exec PROVE Runs'
<1>1. phase = "run" /\ Finished(code) /\ pc \in DOMAIN code /\ ins \in Seq(Vals) /\ Len(ins) <= MaxInputs
  BY DEF Exec, ExecLabel, ExecBr, ExecRet, ExecOut, ExecSet, ExecRead, ExecAsk, ExecTest, Starve,
         Wanting, At, Runs
<1>2. /\ Len(code) \in Nat /\ DOMAIN code = 1..Len(code) /\ Terminator(code[Len(code)])
      /\ \A l \in Aims(code) : \E i \in DOMAIN code : code[i] = Lbl(l)
  BY <1>1, FinishedCloses
<1>3. code' = code
  BY DEF Exec, ExecLabel, ExecBr, ExecRet, ExecOut, ExecSet, ExecRead, ExecAsk, ExecTest, Starve, Static
<1>4. ASSUME NEW l \in Targets(Ins), Goto(l) PROVE pc' \in DOMAIN code
  <2>1. l \in Aims(code)
    BY <1>1, <1>4 DEF Aims, Ins
  <2>2. \E i \in DOMAIN code : code[i] = Lbl(l)
    BY <1>2, <2>1
  <2> QED
    BY <1>4, <2>2 DEF Goto
<1>5. ASSUME Onwards, ~ Terminator(Ins) PROVE phase' = phase /\ pc' \in DOMAIN code
  <2>1. pc # Len(code)
    BY <1>2, <1>5 DEF Ins
  <2>2. pc \in 1..Len(code) /\ pc + 1 \in 1..Len(code)
    BY <1>1, <1>2, <2>1
  <2> QED
    BY <1>2, <1>5, <2>2 DEF Onwards
<1>6. Ins.op \in {"label", "expr"} => ~ Terminator(Ins)
  BY DEF Terminator
<1>7. /\ Ins.op = "br" => Targets(Ins) = {Ins.l}
      /\ Ins.op = "condbr" => Targets(Ins) = {Ins.t, Ins.f}
  BY DEF Targets
<1>8. CASE ExecLabel
  BY <1>1, <1>3, <1>5, <1>6, <1>8 DEF ExecLabel, At, Runs
<1>9. CASE ExecBr
  BY <1>1, <1>3, <1>4, <1>7, <1>9 DEF ExecBr, At, Runs
<1>10. CASE ExecRet
  BY <1>1, <1>3, <1>10 DEF ExecRet, run, Runs
<1>11. CASE ExecOut
  BY <1>1, <1>3, <1>5, <1>6, <1>11 DEF ExecOut, At, Runs
<1>12. CASE ExecSet
  BY <1>1, <1>3, <1>5, <1>6, <1>12 DEF ExecSet, At, Runs
<1>13. CASE ExecRead
  <2>1. Onwards /\ Ins.op = "expr" /\ \E v \in Vals : Read(v)
    BY <1>13 DEF ExecRead, At
  <2>2. ins' \in Seq(Vals) /\ Len(ins') <= MaxInputs
    BY <1>1, <2>1, ReadsOne
  <2> QED
    BY <1>1, <1>3, <1>5, <1>6, <2>1, <2>2 DEF Runs
<1>14. CASE ExecAsk
  <2>1. /\ Ins.op = "condbr" /\ phase' = phase
        /\ \E v \in Vals : Read(v) /\ Goto(IF v # 0 THEN Ins.t ELSE Ins.f)
    BY <1>14 DEF ExecAsk, At
  <2>2. ins' \in Seq(Vals) /\ Len(ins') <= MaxInputs
    BY <1>1, <2>1, ReadsOne
  <2>3. pc' \in DOMAIN code
    BY <1>4, <1>7, <2>1
  <2> QED
    BY <1>1, <1>3, <2>1, <2>2, <2>3 DEF Runs
<1>15. CASE ExecTest
  <2>1. /\ Ins.op = "condbr" /\ phase' = phase /\ ins' = ins
        /\ \E l \in {Ins.t, Ins.f} : Goto(l)
    BY <1>15 DEF ExecTest, At
  <2>2. pc' \in DOMAIN code
    BY <1>4, <1>7, <2>1
  <2> QED
    BY <1>1, <1>3, <2>1, <2>2 DEF Runs
<1>16. CASE Starve
  BY <1>1, <1>3, <1>16 DEF Starve, run, Runs
<1> QED
  BY <1>8, <1>9, <1>10, <1>11, <1>12, <1>13, <1>14, <1>15, <1>16 DEF Exec

LEMMA LlDoneCloses ==
    ASSUME NEW tree, NEW S, NEW D, Ready(em, todo, S, D, tree), LlDone
    PROVE  Finished(code')
<1>1. Lg(em) /\ IsSeq(em.code) /\ em.block_open \in BOOLEAN
  BY RecFacts DEF Ready, Lg
<1>2. code' = ll_end(em) /\ todo = <<>>
  BY DEF LlDone
<1>3. Aims(em.code) \subseteq Placed(em.code)
  BY <1>2, Nothing DEF Ready, Known
<1>4. Shape(em.code, em.block_open) /\ Once(em.code)
  BY <1>1 DEF Lg
<1>5. CASE ~ em.block_open
  <2>1. code' = em.code /\ Shape(em.code, FALSE)
    BY <1>2, <1>4, <1>5 DEF ll_end, Shape
  <2> QED
    BY <1>1, <1>3, <1>4, <2>1 DEF Finished
<1>6. CASE em.block_open
  <2> DEFINE d == Append(em.code, Ret)
  <2>1. Rec(em)
    BY <1>1 DEF Lg
  <2>2. code' = d
    BY <1>2, <1>6, <2>1, RecEmits DEF ll_end
  <2>3. Ret.op # "label" /\ Terminator(Ret) /\ Targets(Ret) = {}
    BY DEF Ret, Terminator, Targets
  <2>4. /\ Shape(d, ~ Terminator(Ret)) /\ Once(d)
        /\ Placed(d) = Placed(em.code) \cup (IF Ret.op = "label" THEN {Ret.l} ELSE {})
        /\ Aims(d) = Aims(em.code) \cup Targets(Ret)
    BY <1>1, <1>4, <1>6, <2>3, CodeGrows
  <2>5. IsSeq(d)
    BY <1>1, Appended
  <2> HIDE DEF d
  <2>6. Shape(d, FALSE)
    BY <2>3, <2>4 DEF Shape
  <2> QED
    BY <1>3, <2>2, <2>3, <2>4, <2>5, <2>6 DEF Finished
<1> QED
  BY <1>1, <1>5, <1>6

-----------------------------------------------------------------------------
(* LLVM: the theorems. *)

LlInv(tree, S, D) == Runs /\ phase \in {"emit", "run", "done", "starved"}
                     /\ (phase = "emit" => Ready(em, todo, S, D, tree))

LEMMA LlStarts ==
    ASSUME NEW tree, NEW S, NEW D, Labelling(tree, S, D), LlInit(tree)
    PROVE  LlInv(tree, S, D)
<1>1. Piece(tree, S, D, "ll", LabelNames(DefinedIn(tree, D)), {})
  <2>1. tree \in Seq(S) /\ DefinedOnce(tree, D) /\ Statements(S)
    BY DEF Labelling, Statements
  <2> QED
    BY <2>1, WorkBody DEF Piece
<1>2. em = LlStart /\ todo = tree /\ phase = "emit" /\ pc = 1 /\ ins = <<>>
  BY DEF LlInit, Idling
<1>3. /\ Rec(LlStart) /\ LlStart.code = <<>> /\ LlStart.block_open = TRUE /\ LlStart.nlab = 0
  <2>1. <<>> \in Seq({})
    BY EmptySeq
  <2>2. LlStart \in [code : Seq({}), block_open : BOOLEAN, nlab : Nat]
    BY <2>1 DEF LlStart
  <2> QED
    BY <2>2 DEF Rec, LlStart
<1>4. Lg(LlStart)
  BY <1>3, EmptyCode DEF Lg
<1>5. \A l \in LabelNames(DefinedIn(tree, D)) : l[3] \in 0..0
  BY DEF LabelNames, labname
<1>6. Ready(LlStart, tree, S, D, tree)
  BY <1>1, <1>3, <1>4, <1>5, EmptyCode DEF Ready, Known, Piece, LlDefs
<1>7. ins \in Seq(Vals) /\ Len(ins) <= MaxInputs
  BY <1>2, Empty, EmptySeq, LinearAssumption
<1> QED
  BY <1>2, <1>6, <1>7 DEF LlInv, Runs

LEMMA LlKeeps ==
    ASSUME NEW tree, NEW S, NEW D, Labelling(tree, S, D), LlInv(tree, S, D), [LlNext]_lvars
    PROVE  LlInv(tree, S, D)'
<1>1. CASE Exec
  <2>1. Runs'
    BY <1>1, ExecRuns DEF LlInv
  <2>2. phase' \in {"run", "done", "starved"}
    BY <1>1 DEF Exec, ExecLabel, ExecBr, ExecRet, ExecOut, ExecSet, ExecRead, ExecAsk, ExecTest, Starve,
         Wanting, At, Onwards, LlInv
  <2> QED
    BY <2>1, <2>2 DEF LlInv
<1>2. CASE LlDone
  <2>1. /\ phase = "emit" /\ phase' = "run" /\ pc' = pc /\ ins' = ins /\ pc = 1
        /\ ins \in Seq(Vals) /\ Len(ins) <= MaxInputs /\ Ready(em, todo, S, D, tree)
    BY <1>2 DEF LlDone, run, LlInv, Runs
  <2>2. Finished(code')
    BY <1>2, <2>1, LlDoneCloses
  <2>3. 1 \in DOMAIN code'
    <3>1. Len(code') \in Nat /\ DOMAIN code' = 1..Len(code') /\ (code' = <<>> <=> Len(code') = 0)
      BY <2>2, SeqFacts DEF Finished
    <3>2. code' # <<>>
      BY <2>2 DEF Finished, Shape
    <3> QED
      BY <3>1, <3>2
  <2> QED
    BY <2>1, <2>2, <2>3 DEF LlInv, Runs
<1>3. ASSUME LlStep, ~ LlDone PROVE LlInv(tree, S, D)'
  <2>1. phase = "emit" /\ phase' = phase /\ UNCHANGED <<code, pc, env, ins, out>>
    BY <1>3 DEF LlStep, LlExprStmt, LlBlock, LlReturn, LlGoto, LlLabel, LlIf, LlLoop, LlHead, LlDo,
                LlTest, LlJoin, Emitting, Does, run
  <2>2. Ready(em, todo, S, D, tree)
    BY <2>1 DEF LlInv
  <2>3. Ready(em', todo', S, D, tree)
    BY <1>3, <2>2, LlExprStmtKeeps, LlBlockKeeps, LlReturnKeeps, LlGotoKeeps, LlLabelKeeps, LlIfKeeps,
       LlLoopKeeps, LlHeadKeeps, LlDoKeeps, LlTestKeeps, LlJoinKeeps DEF LlStep
  <2>4. Runs'
    BY <2>1 DEF LlInv, Runs
  <2> QED
    BY <2>1, <2>3, <2>4 DEF LlInv
<1>4. CASE UNCHANGED lvars
  BY <1>4 DEF lvars, emission, run, LlInv, Runs, Ready
<1> QED
  BY <1>1, <1>2, <1>3, <1>4 DEF LlNext

LEMMA LlInvShows ==
    ASSUME NEW tree, NEW S, NEW D, LlInv(tree, S, D)
    PROVE  TypeOK /\ BlocksClosed
<1>1. CASE phase = "run"
  BY <1>1, FinishedCloses DEF LlInv, Runs, TypeOK
<1>2. CASE phase # "run"
  BY <1>2 DEF LlInv, Runs, TypeOK, BlocksClosed
<1> QED
  BY <1>1, <1>2

\* The LLVM backend closes every block of every function, and places each
\* label it jumps to exactly once (back_ll.c: ensure_block, br_to, place_label).
THEOREM LlBlocksClosed ==
    ASSUME NEW CONSTANT tree, WellLabelled(tree)
    PROVE  LlSpec(tree) => []BlocksClosed
<1>1. ASSUME NEW CONSTANT S, NEW CONSTANT D, Labelling(tree, S, D)
      PROVE  LlSpec(tree) => []BlocksClosed
  <2>1. LlInit(tree) => LlInv(tree, S, D)
    BY <1>1, LlStarts
  <2>2. LlInv(tree, S, D) /\ [LlNext]_lvars => LlInv(tree, S, D)'
    BY <1>1, LlKeeps
  <2>3. LlInv(tree, S, D) => BlocksClosed
    BY LlInvShows
  <2> QED
    BY <2>1, <2>2, <2>3, PTL DEF LlSpec
<1> QED
  BY <1>1 DEF WellLabelled

\* Its code never lets the machine run off the end, and every jump lands in it.
THEOREM LlStaysInCode ==
    ASSUME NEW CONSTANT tree, WellLabelled(tree)
    PROVE  LlSpec(tree) => []TypeOK
<1>1. ASSUME NEW CONSTANT S, NEW CONSTANT D, Labelling(tree, S, D)
      PROVE  LlSpec(tree) => []TypeOK
  <2>1. LlInit(tree) => LlInv(tree, S, D)
    BY <1>1, LlStarts
  <2>2. LlInv(tree, S, D) /\ [LlNext]_lvars => LlInv(tree, S, D)'
    BY <1>1, LlKeeps
  <2>3. LlInv(tree, S, D) => TypeOK
    BY LlInvShows
  <2> QED
    BY <2>1, <2>2, <2>3, PTL DEF LlSpec
<1> QED
  BY <1>1 DEF WellLabelled

-----------------------------------------------------------------------------
(* JavaScript: what the emitter's functions do to its record.              *)

Blocks(I) == [code : Seq(I), term : BOOLEAN]
JRec(g) == \E I, X : g \in [blocks : Seq(Blocks(I)), cur : Nat, lmap : [X -> Nat], i : Nat]

LEMMA JRecFacts ==
    ASSUME NEW g, JRec(g)
    PROVE  /\ IsSeq(g.blocks) /\ Len(g.blocks) \in Nat /\ DOMAIN g.blocks = 1..Len(g.blocks)
           /\ \A b \in DOMAIN g.blocks : IsSeq(g.blocks[b].code) /\ g.blocks[b].term \in BOOLEAN
<1>1. PICK I, X : g \in [blocks : Seq(Blocks(I)), cur : Nat, lmap : [X -> Nat], i : Nat]
  BY DEF JRec
<1>2. g.blocks \in Seq(Blocks(I))
  BY <1>1
<1>3. \A b \in DOMAIN g.blocks : g.blocks[b] \in Blocks(I)
  BY <1>2, ElementOfSeq, LenProperties
<1>4. \A b \in DOMAIN g.blocks : g.blocks[b].code \in Seq(I) /\ g.blocks[b].term \in BOOLEAN
  BY <1>3 DEF Blocks
<1>5. \A b \in DOMAIN g.blocks : IsSeq(g.blocks[b].code)
  BY <1>4 DEF IsSeq
<1>6. IsSeq(g.blocks)
  BY <1>2 DEF IsSeq
<1> QED
  BY <1>4, <1>5, <1>6, SeqFacts

LEMMA JNew ==
    ASSUME NEW g, JRec(g)
    PROVE  /\ JRec(new_block(g)) /\ new_block(g).blocks = Append(g.blocks, Blk)
           /\ new_block(g).cur = g.cur /\ new_block(g).lmap = g.lmap /\ new_block(g).i = g.i
           /\ Len(new_block(g).blocks) = Len(g.blocks) + 1
           /\ \A b \in DOMAIN g.blocks : new_block(g).blocks[b] = g.blocks[b]
           /\ new_block(g).blocks[Len(g.blocks) + 1] = Blk
<1>1. PICK I, X : g \in [blocks : Seq(Blocks(I)), cur : Nat, lmap : [X -> Nat], i : Nat]
  BY DEF JRec
<1>2. Blk \in Blocks(I) /\ g.blocks \in Seq(Blocks(I)) /\ IsSeq(g.blocks)
  BY <1>1, EmptySeq DEF Blk, Blocks, IsSeq
<1>3. Append(g.blocks, Blk) \in Seq(Blocks(I))
  BY <1>2, AppendProperties
<1>4. new_block(g) \in [blocks : Seq(Blocks(I)), cur : Nat, lmap : [X -> Nat], i : Nat]
  BY <1>1, <1>3 DEF new_block
<1>5. /\ new_block(g).blocks = Append(g.blocks, Blk)
      /\ new_block(g).cur = g.cur /\ new_block(g).lmap = g.lmap /\ new_block(g).i = g.i
  BY <1>1 DEF new_block
<1>6. JRec(new_block(g))
  BY <1>4 DEF JRec
<1> QED
  BY <1>2, <1>5, <1>6, Appended, SeqFacts

LEMMA JAt ==
    ASSUME NEW g, JRec(g), NEW b \in Nat
    PROVE  /\ JRec(at_block(g, b)) /\ at_block(g, b).blocks = g.blocks
           /\ at_block(g, b).cur = b /\ at_block(g, b).lmap = g.lmap /\ at_block(g, b).i = g.i
<1>1. PICK I, X : g \in [blocks : Seq(Blocks(I)), cur : Nat, lmap : [X -> Nat], i : Nat]
  BY DEF JRec
<1>2. at_block(g, b) \in [blocks : Seq(Blocks(I)), cur : Nat, lmap : [X -> Nat], i : Nat]
  BY <1>1 DEF at_block
<1> QED
  BY <1>1, <1>2 DEF JRec, at_block

\* The current block gets one more instruction.
Grown(b, c, i) == \E I : b \in Blocks(I) /\ c \in Blocks(I) /\ c.code = Append(b.code, i)
Write(g, b) == [g EXCEPT !.blocks = [g.blocks EXCEPT ![g.cur] = b]]

LEMMA JGrown ==
    ASSUME NEW g, JRec(g), g.cur \in DOMAIN g.blocks, NEW i
    PROVE  /\ Grown(g.blocks[g.cur], [g.blocks[g.cur] EXCEPT !.code = Append(@, i)], i)
           /\ [g.blocks[g.cur] EXCEPT !.code = Append(@, i)].term = g.blocks[g.cur].term
           /\ Grown(g.blocks[g.cur], [code |-> Append(g.blocks[g.cur].code, i), term |-> TRUE], i)
<1> DEFINE c == g.blocks[g.cur]
<1>1. PICK I, X : g \in [blocks : Seq(Blocks(I)), cur : Nat, lmap : [X -> Nat], i : Nat]
  BY DEF JRec
<1> DEFINE J == I \cup {i}
<1>2. c \in Blocks(I)
  <2>1. g.cur \in 1..Len(g.blocks) /\ g.blocks \in Seq(Blocks(I))
    BY <1>1, JRecFacts
  <2> QED
    BY <2>1, ElementOfSeq
<1> HIDE DEF c
<1>3. c \in [code : Seq(I), term : BOOLEAN]
  BY <1>2 DEF Blocks
<1>4. Append(c.code, i) \in Seq(J) /\ c.code \in Seq(J)
  <2>1. c.code \in Seq(J) /\ i \in J
    BY <1>3, SeqMonotonic
  <2> QED
    BY <2>1, AppendProperties
<1> HIDE DEF J
<1>5. c \in [code : Seq(J), term : BOOLEAN]
  BY <1>3, <1>4
<1>6. /\ [c EXCEPT !.code = Append(c.code, i)] \in [code : Seq(J), term : BOOLEAN]
      /\ [c EXCEPT !.code = Append(c.code, i)].code = Append(c.code, i)
      /\ [c EXCEPT !.code = Append(c.code, i)].term = c.term
  BY <1>3, <1>4
<1>7. [code |-> Append(c.code, i), term |-> TRUE] \in [code : Seq(J), term : BOOLEAN]
  BY <1>4
<1> QED
  BY <1>5, <1>6, <1>7 DEF Grown, Blocks, c

Wrote(g, h, i) ==
    /\ JRec(h) /\ h.cur = g.cur /\ h.lmap = g.lmap /\ h.i = g.i /\ Len(h.blocks) = Len(g.blocks)
    /\ \A b \in DOMAIN g.blocks : b # g.cur => h.blocks[b] = g.blocks[b]
    /\ h.blocks[g.cur].code = Append(g.blocks[g.cur].code, i)

LEMMA JWrite ==
    ASSUME NEW g, JRec(g), g.cur \in DOMAIN g.blocks, NEW b, NEW i, Grown(g.blocks[g.cur], b, i)
    PROVE  Wrote(g, Write(g, b), i) /\ Write(g, b).blocks[g.cur] = b
<1>1. PICK I, X : g \in [blocks : Seq(Blocks(I)), cur : Nat, lmap : [X -> Nat], i : Nat]
  BY DEF JRec
<1>2. PICK K : b \in Blocks(K) /\ b.code = Append(g.blocks[g.cur].code, i)
  BY DEF Grown
<1> DEFINE J == I \cup K
<1>3. g.blocks \in Seq(Blocks(I)) /\ g.cur \in 1..Len(g.blocks)
  BY <1>1, JRecFacts
<1>4. Blocks(I) \subseteq Blocks(J) /\ Blocks(K) \subseteq Blocks(J)
  BY SeqMonotonic DEF Blocks
<1>5. g.blocks \in Seq(Blocks(J)) /\ b \in Blocks(J)
  BY <1>2, <1>3, <1>4, SeqMonotonic
<1> HIDE DEF J
<1> DEFINE bs == [g.blocks EXCEPT ![g.cur] = b]
<1>7. /\ bs \in Seq(Blocks(J)) /\ Len(bs) = Len(g.blocks)
      /\ \A c \in 1..Len(g.blocks) : bs[c] = IF c = g.cur THEN b ELSE g.blocks[c]
  BY <1>3, <1>5, ExceptSeq
<1> DEFINE h == Write(g, b)
<1>8. h = [g EXCEPT !.blocks = bs]
  BY DEF Write
<1> HIDE DEF bs, h
<1>9. /\ h \in [blocks : Seq(Blocks(J)), cur : Nat, lmap : [X -> Nat], i : Nat]
      /\ h.blocks = bs /\ h.cur = g.cur /\ h.lmap = g.lmap /\ h.i = g.i
  BY <1>1, <1>7, <1>8
<1>10. JRec(h)
  BY <1>9 DEF JRec
<1>11. DOMAIN g.blocks = 1..Len(g.blocks)
  BY JRecFacts
<1> QED
  BY <1>2, <1>3, <1>7, <1>9, <1>10, <1>11 DEF h, Wrote

LEMMA JEmit ==
    ASSUME NEW g, JRec(g), g.cur \in DOMAIN g.blocks, NEW i
    PROVE  Wrote(g, EMIT(g, i), i) /\ EMIT(g, i).blocks[g.cur].term = g.blocks[g.cur].term
<1> DEFINE b == [g.blocks[g.cur] EXCEPT !.code = Append(@, i)]
<1>1. Grown(g.blocks[g.cur], b, i) /\ b.term = g.blocks[g.cur].term
  BY JGrown
<1>2. EMIT(g, i) = Write(g, b)
  BY DEF EMIT, Write
<1> HIDE DEF b
<1> QED
  BY <1>1, <1>2, JWrite

LEMMA JEnd ==
    ASSUME NEW g, JRec(g), g.cur \in DOMAIN g.blocks, NEW i
    PROVE  Wrote(g, js_end(g, i), i) /\ js_end(g, i).blocks[g.cur].term
<1> DEFINE b == [code |-> Append(g.blocks[g.cur].code, i), term |-> TRUE]
<1>1. Grown(g.blocks[g.cur], b, i) /\ b.term
  BY JGrown
<1>2. js_end(g, i) = Write(g, b)
  BY DEF js_end, Write
<1> HIDE DEF b
<1> QED
  BY <1>1, <1>2, JWrite

LEMMA JLabel ==
    ASSUME NEW g, JRec(g), NEW l, l \notin DOMAIN g.lmap
    PROVE  /\ JRec(label_block(g, l)) /\ label_block(g, l).blocks = new_block(g).blocks
           /\ label_block(g, l).cur = g.cur /\ label_block(g, l).i = g.i
           /\ DOMAIN label_block(g, l).lmap = DOMAIN g.lmap \cup {l}
           /\ label_block(g, l).lmap[l] = Len(g.blocks) + 1
           /\ \A x \in DOMAIN g.lmap : label_block(g, l).lmap[x] = g.lmap[x]
<1> DEFINE m == new_block(g)
           f == [x \in DOMAIN g.lmap \cup {l} |-> IF x = l THEN block_no(g, 1) ELSE g.lmap[x]]
           h == [m EXCEPT !.lmap = f]
<1>1. JRec(m) /\ m.cur = g.cur /\ m.i = g.i /\ m.lmap = g.lmap
  BY JNew
<1>2. label_block(g, l) = h
  BY DEF label_block
<1>3. PICK I, X : m \in [blocks : Seq(Blocks(I)), cur : Nat, lmap : [X -> Nat], i : Nat]
  BY <1>1 DEF JRec
<1>4. Len(g.blocks) \in Nat /\ block_no(g, 1) = Len(g.blocks) + 1
  BY JRecFacts DEF block_no
<1> HIDE DEF m
<1>5. f \in [X \cup {l} -> Nat]
  <2>1. g.lmap \in [X -> Nat]
    BY <1>1, <1>3
  <2> QED
    BY <1>4, <2>1
<1>6. /\ DOMAIN f = DOMAIN g.lmap \cup {l} /\ f[l] = Len(g.blocks) + 1
      /\ \A x \in DOMAIN g.lmap : f[x] = g.lmap[x]
  BY <1>4
<1> HIDE DEF f
<1>7. /\ h \in [blocks : Seq(Blocks(I)), cur : Nat, lmap : [X \cup {l} -> Nat], i : Nat]
      /\ h.blocks = m.blocks /\ h.cur = m.cur /\ h.i = m.i /\ h.lmap = f
  BY <1>3, <1>5
<1> HIDE DEF h
<1>8. JRec(h)
  BY <1>7 DEF JRec
<1> QED
  BY <1>1, <1>2, <1>6, <1>7, <1>8 DEF m

-----------------------------------------------------------------------------
(* JavaScript: the invariant while the blocks are written.  A block that   *)
(* is not closed is the current one, or one that an entry of todo will     *)
(* make the current one: under its number, or under a label it stands for. *)

Sealed(b) ==
    /\ IsSeq(b.code) /\ b.term \in BOOLEAN
    /\ b.term => b.code # <<>>
    /\ \A i \in DOMAIN b.code : /\ b.code[i].op # "label"
                                /\ Terminator(b.code[i]) <=> (b.term /\ i = Len(b.code))

Block(b) == Named(b, "js")
Waits(g, x, b) == x = Block(b) \/ \E l \in DOMAIN g.lmap : x = labname(l) /\ g.lmap[l] = b

JBlocks(g) ==
    /\ JRec(g) /\ g.cur \in DOMAIN g.blocks /\ g.i = 1
    /\ \A b \in DOMAIN g.blocks : Sealed(g.blocks[b]) /\ Aims(g.blocks[b].code) \subseteq DOMAIN g.blocks
    /\ \A l \in DOMAIN g.lmap : g.lmap[l] \in DOMAIN g.blocks
JWaits(g, N) ==
    /\ \A b \in DOMAIN g.blocks : ~ g.blocks[b].term => b = g.cur \/ \E x \in N : Waits(g, x, b)
    /\ \A b : \A x \in N : Waits(g, x, b) => b \in DOMAIN g.blocks /\ ~ g.blocks[b].term /\ b # g.cur
    /\ \A b : \A x, y \in N : Waits(g, x, b) /\ Waits(g, y, b) => x = y
\* The labels L of the tree are still to come, or have a block.
JLabels(g, N, L) == \A l \in L : labname(l) \in N \/ l \in DOMAIN g.lmap
JInv(g, N, L) == JBlocks(g) /\ JWaits(g, N) /\ JLabels(g, N, L)

LEMMA Names ==
    /\ \A b, c : Block(b) = Block(c) => b = c
    /\ \A l, m : labname(l) = labname(m) => l = m
    /\ \A b, l : Block(b) # labname(l)
BY DEF Block, Named, labname

LEMMA WaitsOnce ==
    ASSUME NEW g, NEW x, NEW b, NEW c, Waits(g, x, b), Waits(g, x, c)
    PROVE  b = c
BY Names DEF Waits

LEMMA JBlocksFacts ==
    ASSUME NEW g, JBlocks(g)
    PROVE  /\ IsSeq(g.blocks) /\ Len(g.blocks) \in Nat /\ DOMAIN g.blocks = 1..Len(g.blocks)
           /\ g.cur \in 1..Len(g.blocks) /\ js_term(g) \in BOOLEAN
BY JRecFacts DEF JBlocks, js_term, Sealed

LEMMA SealedGrows ==
    ASSUME NEW b, Sealed(b), ~ b.term, NEW i, i.op # "label",
           NEW c, c.code = Append(b.code, i), c.term \in BOOLEAN, c.term <=> Terminator(i)
    PROVE  Sealed(c) /\ Aims(c.code) = Aims(b.code) \cup Targets(i)
<1> DEFINE s == b.code
           d == c.code
           n == Len(s)
<1>1. /\ n \in Nat /\ DOMAIN s = 1..n /\ IsSeq(d) /\ d # <<>> /\ Len(d) = n + 1 /\ DOMAIN d = 1..n + 1
      /\ \A j \in 1..n : d[j] = s[j]
      /\ d[n + 1] = i
  <2>1. IsSeq(s) /\ d = Append(s, i)
    BY DEF Sealed
  <2> HIDE DEF s, d
  <2> QED
    BY <2>1, SeqFacts, Appended
<1>2. \A j \in DOMAIN s : s[j].op # "label" /\ ~ Terminator(s[j])
  BY DEF Sealed
<1> HIDE DEF s, d, n
<1>3. ASSUME NEW j \in DOMAIN d
      PROVE  d[j].op # "label" /\ (Terminator(d[j]) <=> (c.term /\ j = n + 1))
  <2>1. CASE j = n + 1
    BY <1>1, <2>1
  <2>2. CASE j # n + 1
    <3>1. j \in 1..n
      BY <1>1, <2>2
    <3> QED
      BY <1>1, <1>2, <2>2, <3>1
  <2> QED
    BY <2>1, <2>2
<1>4. Aims(d) = Aims(s) \cup Targets(i)
  <2>1. ASSUME NEW j \in DOMAIN d PROVE Targets(d[j]) \subseteq Aims(s) \cup Targets(i)
    <3>1. CASE j = n + 1
      BY <1>1, <3>1
    <3>2. CASE j # n + 1
      <4>1. j \in DOMAIN s /\ d[j] = s[j]
        BY <1>1, <3>2
      <4> QED
        BY <4>1 DEF Aims
    <3> QED
      BY <3>1, <3>2
  <2>2. ASSUME NEW j \in DOMAIN s PROVE Targets(s[j]) \subseteq Aims(d)
    <3>1. j \in DOMAIN d /\ d[j] = s[j]
      BY <1>1
    <3> QED
      BY <3>1 DEF Aims
  <2>3. Targets(i) \subseteq Aims(d)
    <3>1. n + 1 \in DOMAIN d
      BY <1>1
    <3> QED
      BY <1>1, <3>1 DEF Aims
  <2>4. Aims(d) \subseteq Aims(s) \cup Targets(i)
    BY <2>1 DEF Aims
  <2>5. Aims(s) \subseteq Aims(d)
    BY <2>2 DEF Aims
  <2> QED
    BY <2>3, <2>4, <2>5
<1>5. Sealed(c)
  <2>1. Len(c.code) = n + 1 /\ IsSeq(c.code) /\ c.code # <<>> /\ c.code = d
    BY <1>1 DEF d
  <2> QED
    BY <1>3, <2>1 DEF Sealed
<1> QED
  BY <1>4, <1>5 DEF d, s

\* Writing into the current block, which is open.
LEMMA JWriteStep ==
    ASSUME NEW g, NEW N, NEW L, JInv(g, N, L), ~ js_term(g), NEW i, i.op # "label",
           Targets(i) \subseteq DOMAIN g.blocks,
           NEW h, Wrote(g, h, i), h.blocks[g.cur].term <=> Terminator(i)
    PROVE  /\ JInv(h, N, L) /\ (js_term(h) <=> Terminator(i))
           /\ Len(h.blocks) = Len(g.blocks) /\ h.lmap = g.lmap
<1>1. /\ g.cur \in DOMAIN g.blocks /\ DOMAIN g.blocks = 1..Len(g.blocks) /\ g.i = 1
      /\ \A b \in DOMAIN g.blocks : Sealed(g.blocks[b]) /\ Aims(g.blocks[b].code) \subseteq DOMAIN g.blocks
  BY JBlocksFacts DEF JInv, JBlocks
<1>2. /\ JRec(h) /\ h.cur = g.cur /\ h.lmap = g.lmap /\ h.i = g.i /\ Len(h.blocks) = Len(g.blocks)
      /\ h.blocks[g.cur].code = Append(g.blocks[g.cur].code, i)
      /\ \A b \in DOMAIN g.blocks : b # g.cur => h.blocks[b] = g.blocks[b]
  BY DEF Wrote
<1>3. DOMAIN h.blocks = DOMAIN g.blocks /\ \A b \in DOMAIN h.blocks : h.blocks[b].term \in BOOLEAN
  BY <1>1, <1>2, JRecFacts
<1>4. Sealed(g.blocks[g.cur]) /\ ~ g.blocks[g.cur].term /\ h.blocks[g.cur].term \in BOOLEAN
  BY <1>1, <1>3 DEF js_term
<1>5. Sealed(h.blocks[g.cur]) /\ Aims(h.blocks[g.cur].code) = Aims(g.blocks[g.cur].code) \cup Targets(i)
  <2> DEFINE b == g.blocks[g.cur]
             c == h.blocks[g.cur]
  <2>1. /\ Sealed(b) /\ ~ b.term /\ c.term \in BOOLEAN /\ c.code = Append(b.code, i)
        /\ c.term <=> Terminator(i)
    BY <1>2, <1>4
  <2> HIDE DEF b, c
  <2>2. Sealed(c) /\ Aims(c.code) = Aims(b.code) \cup Targets(i)
    BY <2>1, SealedGrows
  <2> QED
    BY <2>2 DEF b, c
<1>6. JBlocks(h)
  <2>1. ASSUME NEW b \in DOMAIN h.blocks
        PROVE  Sealed(h.blocks[b]) /\ Aims(h.blocks[b].code) \subseteq DOMAIN h.blocks
    <3>1. CASE b = g.cur
      BY <1>1, <1>3, <1>5, <3>1
    <3>2. CASE b # g.cur
      BY <1>1, <1>2, <1>3, <3>2
    <3> QED
      BY <3>1, <3>2
  <2> QED
    BY <1>1, <1>2, <1>3, <2>1 DEF JBlocks, JInv
<1>7. \A x, b : Waits(h, x, b) <=> Waits(g, x, b)
  BY <1>2 DEF Waits
<1>8. JWaits(h, N)
  <2>1. JWaits(g, N)
    BY DEF JInv
  <2> QED
    BY <1>1, <1>2, <1>3, <1>7, <2>1 DEF JWaits
<1>9. JLabels(h, N, L)
  BY <1>2 DEF JInv, JLabels
<1> QED
  BY <1>2, <1>6, <1>8, <1>9 DEF JInv, js_term

LEMMA JEmitStep ==
    ASSUME NEW g, NEW N, NEW L, JInv(g, N, L), ~ js_term(g), NEW n
    PROVE  /\ JInv(EMIT(g, Expr(n)), N, L) /\ ~ js_term(EMIT(g, Expr(n)))
           /\ Len(EMIT(g, Expr(n)).blocks) = Len(g.blocks)
<1>1. Expr(n).op # "label" /\ ~ Terminator(Expr(n)) /\ Targets(Expr(n)) = {}
  BY DEF Expr, Terminator, Targets
<1>2. JRec(g) /\ g.cur \in DOMAIN g.blocks
  BY DEF JInv, JBlocks
<1> DEFINE h == EMIT(g, Expr(n))
<1>3. Wrote(g, h, Expr(n)) /\ h.blocks[g.cur].term = g.blocks[g.cur].term
  BY <1>2, JEmit
<1> HIDE DEF h
<1>4. ~ h.blocks[g.cur].term
  BY <1>3 DEF js_term
<1> QED
  BY <1>1, <1>3, <1>4, JWriteStep DEF h

LEMMA JEndStep ==
    ASSUME NEW g, NEW N, NEW L, JInv(g, N, L), ~ js_term(g), NEW i, Terminator(i),
           Targets(i) \subseteq DOMAIN g.blocks
    PROVE  /\ JInv(js_end(g, i), N, L) /\ js_term(js_end(g, i))
           /\ Len(js_end(g, i).blocks) = Len(g.blocks) /\ js_end(g, i).lmap = g.lmap
<1>1. i.op # "label"
  BY DEF Terminator
<1>2. JRec(g) /\ g.cur \in DOMAIN g.blocks
  BY DEF JInv, JBlocks
<1> DEFINE h == js_end(g, i)
<1>3. Wrote(g, h, i) /\ h.blocks[g.cur].term
  BY <1>2, JEnd
<1> HIDE DEF h
<1> QED
  BY <1>1, <1>3, JWriteStep DEF h

LEMMA JJumpStep ==
    ASSUME NEW g, NEW N, NEW L, JInv(g, N, L), ~ js_term(g), NEW b \in DOMAIN g.blocks
    PROVE  /\ JInv(jump_to(g, b), N, L) /\ js_term(jump_to(g, b))
           /\ Len(jump_to(g, b).blocks) = Len(g.blocks) /\ jump_to(g, b).lmap = g.lmap
<1>1. Terminator(Br(b)) /\ Targets(Br(b)) \subseteq DOMAIN g.blocks
  BY DEF Br, Terminator, Targets
<1> QED
  BY <1>1, JEndStep DEF jump_to

LEMMA JBranchStep ==
    ASSUME NEW g, NEW N, NEW L, JInv(g, N, L), ~ js_term(g), NEW c,
           NEW b \in DOMAIN g.blocks, NEW d \in DOMAIN g.blocks
    PROVE  /\ JInv(js_branch(g, c, b, d), N, L) /\ js_term(js_branch(g, c, b, d))
           /\ Len(js_branch(g, c, b, d).blocks) = Len(g.blocks)
<1>1. Terminator(CondBr(c, b, d)) /\ Targets(CondBr(c, b, d)) \subseteq DOMAIN g.blocks
  BY DEF CondBr, Terminator, Targets
<1> QED
  BY <1>1, JEndStep DEF js_branch

LEMMA JJumpIfOpenStep ==
    ASSUME NEW g, NEW N, NEW L, JInv(g, N, L), NEW b \in DOMAIN g.blocks
    PROVE  /\ JInv(jump_if_open(g, b), N, L) /\ js_term(jump_if_open(g, b))
           /\ Len(jump_if_open(g, b).blocks) = Len(g.blocks) /\ jump_if_open(g, b).lmap = g.lmap
<1>1. CASE js_term(g)
  BY <1>1 DEF jump_if_open
<1>2. CASE ~ js_term(g)
  BY <1>2, JJumpStep DEF jump_if_open
<1> QED
  BY <1>1, <1>2

LEMMA JNewStep ==
    ASSUME NEW g, NEW N, NEW L, JInv(g, N, L)
    PROVE  /\ JInv(new_block(g), N \cup {Block(Len(g.blocks) + 1)}, L)
           /\ (js_term(new_block(g)) <=> js_term(g))
           /\ Len(new_block(g).blocks) = Len(g.blocks) + 1
           /\ Block(Len(g.blocks) + 1) \notin N
<1> DEFINE h == new_block(g)
           n == Len(g.blocks)
           z == Block(n + 1)
<1>1. /\ n \in Nat /\ DOMAIN g.blocks = 1..n /\ g.cur \in 1..n /\ g.i = 1 /\ js_term(g) \in BOOLEAN
      /\ \A b \in 1..n : Sealed(g.blocks[b]) /\ Aims(g.blocks[b].code) \subseteq 1..n
  BY JBlocksFacts DEF JInv, JBlocks
<1>2. /\ JRec(h) /\ h.cur = g.cur /\ h.lmap = g.lmap /\ h.i = g.i /\ Len(h.blocks) = n + 1
      /\ \A b \in 1..n : h.blocks[b] = g.blocks[b]
      /\ h.blocks[n + 1] = Blk
  BY <1>1, JNew DEF JInv, JBlocks
<1>3. Sealed(Blk) /\ Aims(Blk.code) = {} /\ ~ Blk.term
  BY Empty DEF Blk, Sealed, Aims
<1> HIDE DEF h, n, z
<1>4. /\ DOMAIN h.blocks = 1..n + 1 /\ 1..n \subseteq 1..n + 1 /\ n + 1 \notin 1..n
      /\ n + 1 \in 1..n + 1 /\ \A b \in 1..n + 1 : b \in 1..n \/ b = n + 1
  BY <1>1, <1>2, JRecFacts
<1>5. JBlocks(h)
  <2>1. ASSUME NEW b \in DOMAIN h.blocks
        PROVE  Sealed(h.blocks[b]) /\ Aims(h.blocks[b].code) \subseteq DOMAIN h.blocks
    <3>1. CASE b = n + 1
      BY <1>2, <1>3, <3>1
    <3>2. CASE b \in 1..n
      BY <1>1, <1>2, <1>4, <3>2
    <3> QED
      BY <1>4, <3>1, <3>2
  <2>2. \A l \in DOMAIN g.lmap : g.lmap[l] \in 1..n
    BY <1>1 DEF JInv, JBlocks
  <2> QED
    BY <1>1, <1>2, <1>4, <2>1, <2>2 DEF JBlocks
<1>6. \A x, b : Waits(h, x, b) <=> Waits(g, x, b)
  BY <1>2 DEF Waits
<1>7. /\ \A b \in 1..n : ~ g.blocks[b].term => b = g.cur \/ \E x \in N : Waits(g, x, b)
      /\ \A b : \A x \in N : Waits(g, x, b) => b \in 1..n /\ ~ g.blocks[b].term /\ b # g.cur
      /\ \A b : \A x, y \in N : Waits(g, x, b) /\ Waits(g, y, b) => x = y
  BY <1>1 DEF JInv, JWaits
<1>8. Waits(g, z, n + 1) /\ \A b : Waits(g, z, b) => b = n + 1
  <2>1. Waits(g, z, n + 1)
    BY DEF Waits, z
  <2> QED
    BY <2>1, WaitsOnce
<1>9. z \notin N
  BY <1>4, <1>7, <1>8
<1>10. JWaits(h, N \cup {z})
  <2>1. ASSUME NEW b \in 1..n + 1, ~ h.blocks[b].term PROVE b = h.cur \/ \E x \in N \cup {z} : Waits(h, x, b)
    BY <1>2, <1>4, <1>6, <1>7, <1>8, <2>1
  <2>2. ASSUME NEW x \in N \cup {z}, NEW b, Waits(h, x, b)
        PROVE  b \in 1..n + 1 /\ ~ h.blocks[b].term /\ b # h.cur
    <3>1. CASE x \in N
      BY <1>2, <1>4, <1>6, <1>7, <2>2, <3>1
    <3>2. CASE x = z
      BY <1>1, <1>2, <1>3, <1>4, <1>6, <1>8, <2>2, <3>2
    <3> QED
      BY <3>1, <3>2
  <2>3. ASSUME NEW x \in N \cup {z}, NEW y \in N \cup {z}, NEW b, Waits(h, x, b), Waits(h, y, b)
        PROVE  x = y
    BY <1>4, <1>6, <1>7, <1>8, <2>3
  <2> QED
    BY <1>4, <2>1, <2>2, <2>3 DEF JWaits
<1>11. JLabels(h, N \cup {z}, L)
  BY <1>2 DEF JInv, JLabels
<1>12. js_term(h) <=> js_term(g)
  BY <1>1, <1>2 DEF js_term
<1> QED
  BY <1>2, <1>5, <1>9, <1>10, <1>11, <1>12 DEF JInv, h, z, n

\* A closed block gives way to one that was waited for.
LEMMA JAtStep ==
    ASSUME NEW g, NEW N, NEW L, JInv(g, N, L), js_term(g), NEW x \in N, NEW b, Waits(g, x, b)
    PROVE  /\ JInv(at_block(g, b), N \ {x}, L) /\ ~ js_term(at_block(g, b))
           /\ Len(at_block(g, b).blocks) = Len(g.blocks)
<1> DEFINE h == at_block(g, b)
<1>1. /\ JBlocks(g) /\ JWaits(g, N) /\ JLabels(g, N, L)
      /\ DOMAIN g.blocks = 1..Len(g.blocks) /\ JRec(g)
  BY JBlocksFacts DEF JInv, JBlocks
<1>2. b \in DOMAIN g.blocks /\ ~ g.blocks[b].term
  BY <1>1 DEF JWaits
<1>3. /\ JRec(h) /\ h.blocks = g.blocks /\ h.cur = b /\ h.lmap = g.lmap /\ h.i = g.i
  <2>1. b \in Nat
    BY <1>1, <1>2
  <2> QED
    BY <1>1, <2>1, JAt
<1> HIDE DEF h
<1>4. JBlocks(h)
  BY <1>1, <1>2, <1>3 DEF JBlocks
<1>5. \A y, c : Waits(h, y, c) <=> Waits(g, y, c)
  BY <1>3 DEF Waits
<1>6. JWaits(h, N \ {x})
  <2>1. ASSUME NEW c \in DOMAIN h.blocks, ~ h.blocks[c].term, c # b
        PROVE  \E y \in N \ {x} : Waits(h, y, c)
    <3>1. c # g.cur
      BY <1>3, <2>1 DEF js_term
    <3>2. PICK y \in N : Waits(g, y, c)
      BY <1>1, <1>3, <2>1, <3>1 DEF JWaits
    <3>3. y # x
      BY <2>1, <3>2, WaitsOnce
    <3> QED
      BY <1>5, <3>2, <3>3
  <2>2. ASSUME NEW y \in N \ {x}, NEW c, Waits(h, y, c)
        PROVE  c \in DOMAIN h.blocks /\ ~ h.blocks[c].term /\ c # b
    BY <1>1, <1>3, <1>5, <2>2 DEF JWaits
  <2> QED
    BY <1>1, <1>3, <1>5, <2>1, <2>2 DEF JWaits
<1>7. JLabels(h, N \ {x}, L)
  BY <1>1, <1>3, Names DEF JLabels, Waits
<1> QED
  BY <1>2, <1>3, <1>4, <1>6, <1>7 DEF JInv, js_term, h

LEMMA JOpenStep ==
    ASSUME NEW g, NEW N, NEW L, JInv(g, N, L), NEW n
    PROVE  /\ JInv(js_open(g, n), N, L) /\ Len(g.blocks) <= Len(js_open(g, n).blocks)
           /\ n.k # "label" => ~ js_term(js_open(g, n))
           /\ ~ js_term(g) => ~ js_term(js_open(g, n))
<1> DEFINE m == new_block(g)
           p == Len(g.blocks)
           z == Block(p + 1)
           h == at_block(m, p + 1)
<1>1. p \in Nat
  BY JBlocksFacts DEF JInv
<1>2. CASE js_term(g) /\ n.k # "label"
  <2>1. JInv(m, N \cup {z}, L) /\ (js_term(m) <=> js_term(g)) /\ Len(m.blocks) = p + 1 /\ z \notin N
    BY JNewStep
  <2>2. Waits(m, z, p + 1)
    BY DEF Waits
  <2> HIDE DEF m, z
  <2>3. JInv(h, (N \cup {z}) \ {z}, L) /\ ~ js_term(h) /\ Len(h.blocks) = Len(m.blocks)
    BY <1>2, <2>1, <2>2, JAtStep
  <2>4. (N \cup {z}) \ {z} = N
    BY <2>1
  <2>5. js_open(g, n) = h
    BY <1>2 DEF js_open, block_no, m
  <2>6. Len(g.blocks) <= Len(h.blocks)
    BY <1>1, <2>1, <2>3
  <2> HIDE DEF h
  <2> QED
    BY <2>3, <2>4, <2>5, <2>6
<1>3. CASE ~(js_term(g) /\ n.k # "label")
  <2>1. js_open(g, n) = g
    BY <1>3 DEF js_open
  <2> QED
    BY <1>1, <1>3, <2>1
<1> QED
  BY <1>2, <1>3

LEMMA JLabelStep ==
    ASSUME NEW g, NEW N, NEW L, JInv(g, N, L), NEW l \in L
    PROVE  /\ JInv(label_block(g, l), N, L) /\ l \in DOMAIN label_block(g, l).lmap
           /\ (js_term(label_block(g, l)) <=> js_term(g))
           /\ Len(g.blocks) <= Len(label_block(g, l).blocks)
           /\ label_block(g, l).lmap[l] \in DOMAIN label_block(g, l).blocks
           /\ Waits(label_block(g, l), labname(l), label_block(g, l).lmap[l])
<1> DEFINE h == label_block(g, l)
           m == new_block(g)
           n == Len(g.blocks)
           z == Block(n + 1)
           x == labname(l)
<1>1. /\ n \in Nat /\ DOMAIN g.blocks = 1..n /\ g.cur \in 1..n /\ JRec(g)
  BY JBlocksFacts DEF JInv, JBlocks
<1>2. CASE l \in DOMAIN g.lmap
  <2>1. h = g
    BY <1>2 DEF label_block
  <2>2. g.lmap[l] \in DOMAIN g.blocks /\ n <= n
    BY <1>1, <1>2 DEF JInv, JBlocks
  <2> HIDE DEF h
  <2>3. Waits(h, labname(l), h.lmap[l])
    BY <1>2, <2>1 DEF Waits
  <2> QED
    BY <1>2, <2>1, <2>2, <2>3 DEF h
<1>3. CASE l \notin DOMAIN g.lmap
  <2>1. /\ JRec(h) /\ h.blocks = m.blocks /\ h.cur = g.cur /\ h.i = g.i
        /\ DOMAIN h.lmap = DOMAIN g.lmap \cup {l} /\ h.lmap[l] = n + 1
        /\ \A y \in DOMAIN g.lmap : h.lmap[y] = g.lmap[y]
    BY <1>1, <1>3, JLabel
  <2>2. JInv(m, N \cup {z}, L) /\ (js_term(m) <=> js_term(g)) /\ Len(m.blocks) = n + 1 /\ z \notin N
    BY JNewStep
  <2>3. m.cur = g.cur /\ m.lmap = g.lmap /\ m.i = g.i
    BY <1>1, JNew
  <2>4. x \in N
    BY <1>3 DEF JInv, JLabels
  <2> HIDE DEF h, m, n, z, x
  <2>5. JBlocks(m) /\ JWaits(m, N \cup {z}) /\ JLabels(m, N \cup {z}, L)
    BY <2>2 DEF JInv
  <2>6. DOMAIN m.blocks = 1..n + 1 /\ n + 1 \in DOMAIN m.blocks
    BY <1>1, <2>2, <2>5, JBlocksFacts
  <2>7. JBlocks(h)
    BY <2>1, <2>3, <2>5, <2>6 DEF JBlocks
  <2>8. Waits(h, x, n + 1)
    BY <2>1 DEF Waits, x
  <2>9. \A y, b : Waits(m, y, b) => Waits(h, y, b)
    BY <2>1, <2>3 DEF Waits
  <2>10. ASSUME NEW y, NEW b, Waits(h, y, b) PROVE Waits(m, y, b) \/ (y = x /\ b = n + 1)
    BY <2>1, <2>3, <2>10 DEF Waits, x
  <2>11. Waits(m, z, n + 1)
    BY DEF Waits, z
  <2>12. \A b : Waits(m, z, b) => b = n + 1
    BY <2>11, WaitsOnce
  <2>13. \A y \in N : ~ Waits(m, y, n + 1)
    BY <2>2, <2>5, <2>11 DEF JWaits
  <2>14. JWaits(h, N)
    <3>1. ASSUME NEW b \in DOMAIN h.blocks, ~ h.blocks[b].term, b # h.cur
          PROVE  \E y \in N : Waits(h, y, b)
      <4>1. \E y \in N \cup {z} : Waits(m, y, b)
        BY <2>1, <2>3, <2>5, <3>1 DEF JWaits
      <4> QED
        BY <2>4, <2>8, <2>9, <2>12, <4>1
    <3>2. ASSUME NEW y \in N, NEW b, Waits(h, y, b)
          PROVE  b \in DOMAIN h.blocks /\ ~ h.blocks[b].term /\ b # h.cur
      <4>1. CASE Waits(m, y, b)
        BY <2>1, <2>3, <2>5, <4>1 DEF JWaits
      <4>2. CASE y = x /\ b = n + 1
        BY <2>1, <2>3, <2>5, <2>11, <4>2 DEF JWaits
      <4> QED
        BY <2>10, <3>2, <4>1, <4>2
    <3>3. ASSUME NEW y \in N, NEW w \in N, NEW b, Waits(h, y, b), Waits(h, w, b)
          PROVE  y = w
      BY <2>5, <2>10, <2>13, <3>3 DEF JWaits
    <3> QED
      BY <3>1, <3>2, <3>3 DEF JWaits
  <2>15. JLabels(h, N, L)
    <3>1. JLabels(g, N, L)
      BY DEF JInv
    <3> QED
      BY <2>1, <3>1 DEF JLabels
  <2>16. js_term(h) <=> js_term(g)
    BY <2>1, <2>2, <2>3 DEF js_term
  <2>17. n <= n + 1
    BY <1>1
  <2> QED
    BY <2>1, <2>2, <2>6, <2>7, <2>8, <2>14, <2>15, <2>16, <2>17 DEF JInv, h, x, n
<1> QED
  BY <1>2, <1>3

-----------------------------------------------------------------------------
(* JavaScript: every step of the emitter keeps the invariant.  A loop whose *)
(* clause is being emitted needs the current block open, and it stays so:  *)
(* what comes before it are expressions.                                   *)

NoLoops(ss) == \A i \in DOMAIN ss : ss[i].k # "loop"
Led(g, ss) ==
    \A i \in DOMAIN ss : ss[i].k = "loop" => ~ js_term(g) /\ \A j \in 1..i - 1 : Plain(ss[j])
JReady(g, ss, S, D, tree) ==
    /\ JInv(g, AllDefs(ss, D, "js"), DefinedIn(tree, D))
    /\ Work(ss, S, D, "js") /\ AllUses(ss) \subseteq DOMAIN g.blocks /\ Led(g, ss)

LEMMA NoLoopsLed == ASSUME NEW g, NEW ss, NoLoops(ss) PROVE Led(g, ss)
BY DEF NoLoops, Led

LEMMA NoLoopsJoined ==
    ASSUME NEW s, NEW t, IsSeq(s), IsSeq(t), NoLoops(s), NoLoops(t)
    PROVE  NoLoops(s \o t)
<1>1. ASSUME NEW i \in DOMAIN (s \o t) PROVE (s \o t)[i].k # "loop"
  <2>1. \/ i \in DOMAIN s /\ (s \o t)[i] = s[i]
        \/ \E j \in DOMAIN t : i = Len(s) + j /\ (s \o t)[i] = t[j]
    BY Positions
  <2> QED
    BY <2>1 DEF NoLoops
<1> QED
  BY <1>1 DEF NoLoops

LEMMA NoLoopsOne == ASSUME NEW x, x.k # "loop" PROVE NoLoops(<<x>>)
BY Single DEF NoLoops

LEMMA NoLoopsNone == NoLoops(<<>>)
BY Empty DEF NoLoops

LEMMA NoLoopsBody ==
    ASSUME NEW tree, NEW S, NEW D, Labelling(tree, S, D), NEW ss \in Seq(S)
    PROVE  IsSeq(ss) /\ NoLoops(ss)
<1>1. \A n \in S : n.k # "loop"
  BY DEF Labelling, Lowered, Simple, Loops
<1>2. \A i \in DOMAIN ss : ss[i] \in S
  BY ElementOfSeq, LenProperties
<1> QED
  BY <1>1, <1>2 DEF NoLoops, IsSeq

\* No loop waits behind an entry that is no expression.
LEMMA TailNoLoops ==
    ASSUME NEW g, NEW ss, IsSeq(ss), ss # <<>>, Led(g, ss), ~ Plain(Head(ss))
    PROVE  IsSeq(Tail(ss)) /\ NoLoops(Tail(ss))
<1>1. /\ 1 \in DOMAIN ss /\ ss[1] = Head(ss) /\ IsSeq(Tail(ss))
      /\ \A i \in DOMAIN Tail(ss) : i + 1 \in DOMAIN ss /\ Tail(ss)[i] = ss[i + 1] /\ i \in Nat \ {0}
  BY TailPositions
<1>2. ASSUME NEW i \in DOMAIN Tail(ss), Tail(ss)[i].k = "loop" PROVE FALSE
  <2>1. i + 1 \in DOMAIN ss /\ ss[i + 1].k = "loop" /\ i \in Nat \ {0}
    BY <1>1, <1>2
  <2>2. 1 \in 1..(i + 1) - 1
    BY <2>1
  <2>3. Plain(ss[1])
    BY <2>1, <2>2 DEF Led
  <2> QED
    BY <1>1, <2>3
<1> QED
  BY <1>1, <1>2 DEF NoLoops

\* Expressions in the place of expressions.
LEMMA PlainAhead ==
    ASSUME NEW g, NEW h, NEW ss, IsSeq(ss), ss # <<>>, Led(g, ss),
           ~ js_term(g) => ~ js_term(h),
           NEW items, IsSeq(items), Head(ss).k # "loop", \A i \in DOMAIN items : Plain(items[i])
    PROVE  Led(h, items \o Tail(ss))
<1> DEFINE t == Tail(ss)
           u == items \o t
           m == Len(items)
<1>1. /\ 1 \in DOMAIN ss /\ ss[1] = Head(ss) /\ IsSeq(t)
      /\ \A i \in DOMAIN t : i + 1 \in DOMAIN ss /\ t[i] = ss[i + 1] /\ i \in Nat \ {0}
  BY TailPositions
<1>2. /\ m \in Nat
      /\ \A i \in DOMAIN u : \/ i \in DOMAIN items /\ u[i] = items[i]
                            \/ \E j \in DOMAIN t : i = m + j /\ u[i] = t[j]
  BY <1>1, Positions
<1>3. /\ DOMAIN items = 1..m /\ DOMAIN t = 1..Len(t) /\ Len(t) \in Nat
      /\ \A i \in 1..m : u[i] = items[i]
      /\ \A i \in 1..Len(t) : u[m + i] = t[i]
  BY <1>1, Joined, SeqFacts
<1> HIDE DEF t, u, m
<1>4. \A n : Plain(n) => n.k # "loop"
  BY DEF Plain, Simple
<1>5. ASSUME NEW i \in DOMAIN u, u[i].k = "loop"
      PROVE  ~ js_term(h) /\ \A j \in 1..i - 1 : Plain(u[j])
  <2>1. PICK k \in DOMAIN t : i = m + k /\ u[i] = t[k]
    BY <1>2, <1>4, <1>5
  <2>2. k + 1 \in DOMAIN ss /\ ss[k + 1].k = "loop" /\ k \in Nat \ {0} /\ k \in 1..Len(t)
    BY <1>1, <1>3, <1>5, <2>1
  <2>3. ~ js_term(g) /\ \A j \in 1..(k + 1) - 1 : Plain(ss[j])
    BY <2>2 DEF Led
  <2>4. ASSUME NEW j \in 1..i - 1 PROVE Plain(u[j])
    <3>1. CASE j <= m
      <4>1. j \in 1..m
        BY <1>2, <2>1, <2>2, <2>4, <3>1
      <4> QED
        BY <1>3, <4>1
    <3>2. CASE ~(j <= m)
      <4> DEFINE q == j - m
      <4>1. q \in 1..k - 1 /\ q \in 1..Len(t) /\ m + q = j /\ q + 1 \in 1..(k + 1) - 1
        BY <1>2, <1>3, <2>1, <2>2, <2>4, <3>2
      <4> HIDE DEF q
      <4>2. u[j] = t[q] /\ t[q] = ss[q + 1]
        BY <1>1, <1>3, <4>1
      <4> QED
        BY <2>3, <4>1, <4>2
    <3> QED
      BY <3>1, <3>2
  <2> QED
    BY <2>3, <2>4
<1> QED
  BY <1>5 DEF Led, u, t

LEMMA JTopFacts ==
    ASSUME NEW tree, NEW S, NEW D, NEW g, NEW ss, JReady(g, ss, S, D, tree), ss # <<>>
    PROVE  /\ IsSeq(ss) /\ Item(Head(ss), S) /\ JInv(g, AllDefs(ss, D, "js"), DefinedIn(tree, D))
           /\ AllDefs(ss, D, "js") = Defs(Head(ss), D, "js") \cup AllDefs(Tail(ss), D, "js")
           /\ JInv(g, Defs(Head(ss), D, "js") \cup AllDefs(Tail(ss), D, "js"), DefinedIn(tree, D))
           /\ Defs(Head(ss), D, "js") \cap AllDefs(Tail(ss), D, "js") = {}
           /\ Uses(Head(ss)) \subseteq DOMAIN g.blocks /\ AllUses(Tail(ss)) \subseteq DOMAIN g.blocks
           /\ Work(Tail(ss), S, D, "js") /\ Led(g, ss)
           /\ Len(g.blocks) \in Nat /\ DOMAIN g.blocks = 1..Len(g.blocks)
<1>1. Work(ss, S, D, "js") /\ AllUses(ss) \subseteq DOMAIN g.blocks /\ Led(g, ss)
      /\ JInv(g, AllDefs(ss, D, "js"), DefinedIn(tree, D))
  BY DEF JReady
<1>2. Item(Head(ss), S) /\ Work(Tail(ss), S, D, "js")
  BY <1>1, WorkTail
<1>3. Defs(Head(ss), D, "js") \cap AllDefs(Tail(ss), D, "js") = {}
  BY <1>1, WorkTail
<1>4. IsSeq(ss)
  BY <1>1 DEF Work
<1>5. AllDefs(ss, D, "js") = Defs(Head(ss), D, "js") \cup AllDefs(Tail(ss), D, "js")
  BY <1>4, DefsTail
<1>6. AllUses(ss) = Uses(Head(ss)) \cup AllUses(Tail(ss))
  BY <1>4, UsesTail
<1>7. Len(g.blocks) \in Nat /\ DOMAIN g.blocks = 1..Len(g.blocks)
  BY <1>1, JBlocksFacts DEF JInv
<1> QED
  BY <1>1, <1>2, <1>3, <1>4, <1>5, <1>6, <1>7

\* The first entry gives way to items.
LEMMA JAdvance ==
    ASSUME NEW tree, NEW S, NEW D, NEW g, NEW ss, JReady(g, ss, S, D, tree), ss # <<>>,
           NEW h, NEW items, NEW A, NEW U, Piece(items, S, D, "js", A, U),
           A \cap AllDefs(Tail(ss), D, "js") = {},
           JInv(h, A \cup AllDefs(Tail(ss), D, "js"), DefinedIn(tree, D)),
           U \subseteq DOMAIN h.blocks, Len(g.blocks) <= Len(h.blocks), Led(h, items \o Tail(ss))
    PROVE  JReady(h, items \o Tail(ss), S, D, tree)
<1> DEFINE t == Tail(ss)
           T == AllDefs(t, D, "js")
<1>1. /\ Work(t, S, D, "js") /\ AllUses(t) \subseteq DOMAIN g.blocks
      /\ Len(g.blocks) \in Nat /\ DOMAIN g.blocks = 1..Len(g.blocks)
  BY JTopFacts
<1>2. Len(h.blocks) \in Nat /\ DOMAIN h.blocks = 1..Len(h.blocks)
  BY JBlocksFacts DEF JInv
<1>3. Piece(t, S, D, "js", T, AllUses(t))
  BY <1>1 DEF Piece
<1> HIDE DEF t, T
<1>4. A \cap T = {}
  BY DEF t, T
<1>5. Piece(items \o t, S, D, "js", A \cup T, U \cup AllUses(t))
  BY <1>3, <1>4, Pieces
<1>6. DOMAIN g.blocks \subseteq DOMAIN h.blocks
  BY <1>1, <1>2
<1>7. U \cup AllUses(t) \subseteq DOMAIN h.blocks
  BY <1>1, <1>6
<1> QED
  BY <1>5, <1>7 DEF JReady, Piece, t, T

\* The same for the state; the entry was no expression, and no loop follows it.
LEMMA JDoes ==
    ASSUME NEW tree, NEW S, NEW D, JReady(em, todo, S, D, tree), todo # <<>>,
           NEW h, NEW items, JsDoes(h, items), NEW A, NEW U, Piece(items, S, D, "js", A, U),
           NEW N, N = A \cup AllDefs(Tail(todo), D, "js"), A \cap AllDefs(Tail(todo), D, "js") = {},
           JInv(h, N, DefinedIn(tree, D)),
           U \subseteq DOMAIN h.blocks, Len(em.blocks) <= Len(h.blocks),
           ~ Plain(Top), NoLoops(items)
    PROVE  JReady(em', todo', S, D, tree)
<1>1. IsSeq(todo) /\ Led(em, todo)
  BY JTopFacts
<1>2. IsSeq(Tail(todo)) /\ NoLoops(Tail(todo))
  BY <1>1, TailNoLoops DEF Top
<1>3. IsSeq(items)
  BY DEF Piece, Work
<1>4. NoLoops(items \o Tail(todo))
  BY <1>2, <1>3, NoLoopsJoined
<1>5. Led(h, items \o Tail(todo))
  BY <1>4, NoLoopsLed
<1>6. JReady(h, items \o Tail(todo), S, D, tree)
  BY <1>5, JAdvance
<1> QED
  BY <1>6 DEF JsDoes

\* A statement on top.
LEMMA JTopStatement ==
    ASSUME NEW tree, NEW S, NEW D, JReady(em, todo, S, D, tree), todo # <<>>, Top.k \in Lowered
    PROVE  Top \in S /\ Defs(Top, D, "js") = LabelNames(D[Top])
<1>1. Item(Top, S)
  BY JTopFacts DEF Top
<1>2. Top.k \notin {"join", "head", "test", "loop", "inc"}
  BY DEF Lowered, Simple, Loops
<1> QED
  BY <1>1, <1>2 DEF Item, Defs

LEMMA JsExprStmtKeeps ==
    ASSUME NEW tree, NEW S, NEW D, Labelling(tree, S, D), JReady(em, todo, S, D, tree), JsExprStmt
    PROVE  JReady(em', todo', S, D, tree)
<1> DEFINE N == AllDefs(todo, D, "js")
           T == AllDefs(Tail(todo), D, "js")
           L == DefinedIn(tree, D)
           a == js_open(em, Top)
           h == EMIT(a, Expr(Top))
<1>1. /\ todo # <<>> /\ Top.k \in Simple /\ JsDoes(h, <<>>)
  BY DEF JsExprStmt, Emitting
<1>2. Top \in S /\ Defs(Top, D, "js") = {}
  <2>1. Top.k \in Lowered
    BY <1>1 DEF Lowered
  <2> QED
    BY <1>1, <2>1, JTopStatement, NoBody
<1>3. JInv(em, T, L) /\ IsSeq(todo) /\ Led(em, todo) /\ Len(em.blocks) \in Nat
  <2>1. {} \cup T = T
    OBVIOUS
  <2> QED
    BY <1>1, <1>2, <2>1, JTopFacts DEF Top
<1> HIDE DEF N, T, L
<1>4. JInv(a, T, L) /\ Len(em.blocks) <= Len(a.blocks) /\ ~ js_term(a)
  <2>1. Top.k # "label"
    BY <1>1 DEF Simple
  <2> QED
    BY <1>3, <2>1, JOpenStep
<1> HIDE DEF a
<1>5. JInv(h, T, L) /\ ~ js_term(h) /\ Len(h.blocks) = Len(a.blocks)
  BY <1>4, JEmitStep
<1> HIDE DEF h
<1>6. Piece(<<>>, S, D, "js", {}, {})
  BY NoPiece
<1>7. Led(h, <<>> \o Tail(todo))
  <2>1. Head(todo).k # "loop"
    BY <1>1 DEF Simple, Top
  <2> QED
    BY <1>1, <1>3, <1>5, <2>1, Empty, PlainAhead
<1>8. /\ {} \cap AllDefs(Tail(todo), D, "js") = {} /\ {} \cup AllDefs(Tail(todo), D, "js") = T
      /\ {} \subseteq DOMAIN h.blocks /\ Len(em.blocks) <= Len(h.blocks)
  BY <1>4, <1>5 DEF T
<1>9. JReady(h, <<>> \o Tail(todo), S, D, tree)
  BY <1>1, <1>5, <1>6, <1>7, <1>8, JAdvance DEF L
<1> QED
  BY <1>1, <1>9 DEF JsDoes

LEMMA JsBlockKeeps ==
    ASSUME NEW tree, NEW S, NEW D, Labelling(tree, S, D), JReady(em, todo, S, D, tree), JsBlock
    PROVE  JReady(em', todo', S, D, tree)
<1> DEFINE N == AllDefs(todo, D, "js")
           T == AllDefs(Tail(todo), D, "js")
           L == DefinedIn(tree, D)
           H == Defs(Top, D, "js")
           h == js_open(em, Top)
           b == Top.body
<1>1. /\ todo # <<>> /\ Top.k = "block" /\ JsDoes(h, b)
  BY DEF JsBlock, Emitting
<1>2. Top \in S /\ H = LabelNames(D[Top])
  <2>1. Top.k \in Lowered
    BY <1>1 DEF Lowered
  <2> QED
    BY <1>1, <2>1, JTopStatement
<1>3. JInv(em, H \cup T, L) /\ H \cap T = {} /\ IsSeq(todo) /\ Led(em, todo)
  BY <1>1, JTopFacts DEF Top
<1>4. Piece(b, S, D, "js", H, {}) /\ b \in Seq(S)
  <2> DEFINE n == Top
  <2>1. n \in S /\ n.k = "block"
    BY <1>1, <1>2
  <2> HIDE DEF n
  <2>2. Piece(n.body, S, D, "js", LabelNames(D[n]), {}) /\ n.body \in Seq(S)
    BY <2>1, BodyPiece
  <2> QED
    BY <1>2, <2>2 DEF n
<1>5. IsSeq(b) /\ NoLoops(b)
  BY <1>4, NoLoopsBody
<1> HIDE DEF N, T, L, H, b
<1>6. JInv(h, H \cup T, L) /\ Len(em.blocks) <= Len(h.blocks) /\ (~ js_term(em) => ~ js_term(h))
  BY <1>3, JOpenStep
<1> HIDE DEF h
<1>7. Led(h, b \o Tail(todo))
  <2>1. CASE Plain(Top)
    <3>1. \A i \in DOMAIN b : Plain(b[i])
      BY <1>1, <2>1 DEF Plain, Simple, b
    <3>2. Head(todo).k # "loop"
      BY <1>1 DEF Top
    <3> QED
      BY <1>1, <1>3, <1>5, <1>6, <3>1, <3>2, PlainAhead
  <2>2. CASE ~ Plain(Top)
    <3>1. IsSeq(Tail(todo)) /\ NoLoops(Tail(todo))
      BY <1>1, <1>3, <2>2, TailNoLoops DEF Top
    <3>2. NoLoops(b \o Tail(todo))
      BY <1>5, <3>1, NoLoopsJoined
    <3> QED
      BY <3>2, NoLoopsLed
  <2> QED
    BY <2>1, <2>2
<1>8. H \cap AllDefs(Tail(todo), D, "js") = {} /\ H \cup AllDefs(Tail(todo), D, "js") = H \cup T
      /\ {} \subseteq DOMAIN h.blocks
  BY <1>3 DEF T
<1>9. JReady(h, b \o Tail(todo), S, D, tree)
  BY <1>1, <1>4, <1>6, <1>7, <1>8, JAdvance DEF L
<1> QED
  BY <1>1, <1>9 DEF JsDoes

\* Blocks made one after the other.
LEMMA JTwo ==
    ASSUME NEW g, NEW N, NEW L, JInv(g, N, L), NEW p, p = Len(g.blocks)
    PROVE  /\ JInv(new_block(new_block(g)), N \cup {Block(p + 1), Block(p + 2)}, L)
           /\ (js_term(new_block(new_block(g))) <=> js_term(g))
           /\ Len(new_block(new_block(g)).blocks) = p + 2
           /\ Block(p + 1) \notin N /\ Block(p + 2) \notin N
           /\ p \in Nat /\ Block(p + 1) # Block(p + 2)
<1> DEFINE m == new_block(g)
           h == new_block(m)
<1>1. p \in Nat
  BY JBlocksFacts DEF JInv
<1>2. /\ JInv(m, N \cup {Block(p + 1)}, L) /\ (js_term(m) <=> js_term(g))
      /\ Len(m.blocks) = p + 1 /\ Block(p + 1) \notin N
  BY JNewStep
<1> HIDE DEF m
<1>3. /\ JInv(h, (N \cup {Block(p + 1)}) \cup {Block(Len(m.blocks) + 1)}, L) /\ (js_term(h) <=> js_term(m))
      /\ Len(h.blocks) = Len(m.blocks) + 1 /\ Block(Len(m.blocks) + 1) \notin N \cup {Block(p + 1)}
  BY <1>2, JNewStep
<1>4. Len(m.blocks) + 1 = p + 2
  BY <1>1, <1>2
<1>5. (N \cup {Block(p + 1)}) \cup {Block(p + 2)} = N \cup {Block(p + 1), Block(p + 2)}
  OBVIOUS
<1> HIDE DEF h
<1> QED
  BY <1>1, <1>2, <1>3, <1>4, <1>5 DEF h, m

LEMMA JThree ==
    ASSUME NEW g, NEW N, NEW L, JInv(g, N, L), NEW p, p = Len(g.blocks)
    PROVE  /\ JInv(new_block(new_block(new_block(g))), N \cup {Block(p + 1), Block(p + 2), Block(p + 3)}, L)
           /\ (js_term(new_block(new_block(new_block(g)))) <=> js_term(g))
           /\ Len(new_block(new_block(new_block(g))).blocks) = p + 3
           /\ Block(p + 1) \notin N /\ Block(p + 2) \notin N /\ Block(p + 3) \notin N
           /\ p \in Nat /\ Block(p + 1) # Block(p + 2) /\ Block(p + 1) # Block(p + 3)
           /\ Block(p + 2) # Block(p + 3)
<1> DEFINE m == new_block(new_block(g))
           h == new_block(m)
           M == N \cup {Block(p + 1), Block(p + 2)}
<1>1. /\ JInv(m, M, L) /\ (js_term(m) <=> js_term(g)) /\ Len(m.blocks) = p + 2
      /\ Block(p + 1) \notin N /\ Block(p + 2) \notin N
      /\ p \in Nat /\ Block(p + 1) # Block(p + 2)
  BY JTwo
<1> HIDE DEF m, M
<1>2. /\ JInv(h, M \cup {Block(Len(m.blocks) + 1)}, L) /\ (js_term(h) <=> js_term(m))
      /\ Len(h.blocks) = Len(m.blocks) + 1 /\ Block(Len(m.blocks) + 1) \notin M
  BY <1>1, JNewStep
<1>3. Len(m.blocks) + 1 = p + 3
  BY <1>1
<1>4. M \cup {Block(p + 3)} = N \cup {Block(p + 1), Block(p + 2), Block(p + 3)}
  BY DEF M
<1>5. Block(p + 3) \notin N /\ Block(p + 1) # Block(p + 3) /\ Block(p + 2) # Block(p + 3)
  BY <1>2, <1>3 DEF M
<1> HIDE DEF h
<1> QED
  BY <1>1, <1>2, <1>3, <1>4, <1>5 DEF h, m

LEMMA WaitsBlock == ASSUME NEW g, NEW b PROVE Waits(g, Block(b), b)
BY DEF Waits

LEMMA JsReturnKeeps ==
    ASSUME NEW tree, NEW S, NEW D, Labelling(tree, S, D), JReady(em, todo, S, D, tree), JsReturn
    PROVE  JReady(em', todo', S, D, tree)
<1> DEFINE T == AllDefs(Tail(todo), D, "js")
           L == DefinedIn(tree, D)
           a == js_open(em, Top)
           h == js_end(a, Ret)
<1>1. /\ todo # <<>> /\ Top.k = "return" /\ JsDoes(h, <<>>)
  BY DEF JsReturn, Emitting
<1>2. Top \in S /\ Defs(Top, D, "js") = {}
  <2>1. Top.k \in Lowered
    BY <1>1 DEF Lowered
  <2> QED
    BY <1>1, <2>1, JTopStatement, NoBody
<1>3. JInv(em, T, L) /\ Len(em.blocks) \in Nat
  <2>1. {} \cup T = T
    OBVIOUS
  <2> QED
    BY <1>1, <1>2, <2>1, JTopFacts DEF Top
<1> HIDE DEF T, L
<1>4. JInv(a, T, L) /\ Len(em.blocks) <= Len(a.blocks) /\ ~ js_term(a)
  BY <1>1, <1>3, JOpenStep
<1> HIDE DEF a
<1>5. JInv(h, T, L) /\ Len(h.blocks) = Len(a.blocks)
  <2>1. Terminator(Ret) /\ Targets(Ret) \subseteq DOMAIN a.blocks
    BY DEF Ret, Terminator, Targets
  <2> QED
    BY <1>4, <2>1, JEndStep
<1> HIDE DEF h
<1>6. Piece(<<>>, S, D, "js", {}, {}) /\ NoLoops(<<>>)
  BY NoPiece, NoLoopsNone
<1>7. ~ Plain(Top)
  BY <1>1 DEF Plain, Simple
<1>8. /\ T = {} \cup AllDefs(Tail(todo), D, "js") /\ {} \cap AllDefs(Tail(todo), D, "js") = {}
      /\ {} \subseteq DOMAIN h.blocks /\ Len(em.blocks) <= Len(h.blocks)
  BY <1>4, <1>5 DEF T
<1> QED
  BY <1>1, <1>5, <1>6, <1>7, <1>8, JDoes DEF L

LEMMA JsGotoKeeps ==
    ASSUME NEW tree, NEW S, NEW D, Labelling(tree, S, D), JReady(em, todo, S, D, tree), JsGoto
    PROVE  JReady(em', todo', S, D, tree)
<1> DEFINE T == AllDefs(Tail(todo), D, "js")
           L == DefinedIn(tree, D)
           a == js_open(em, Top)
           g == label_block(a, Top.l)
           b == g.lmap[Top.l]
           h == jump_to(g, b)
<1>1. /\ todo # <<>> /\ Top.k = "goto" /\ JsDoes(h, <<>>)
  BY DEF JsGoto, Emitting
<1>2. Top \in S /\ Defs(Top, D, "js") = {}
  <2>1. Top.k \in Lowered
    BY <1>1 DEF Lowered
  <2> QED
    BY <1>1, <2>1, JTopStatement, NoBody
<1>3. JInv(em, T, L) /\ Len(em.blocks) \in Nat
  <2>1. {} \cup T = T
    OBVIOUS
  <2> QED
    BY <1>1, <1>2, <2>1, JTopFacts DEF Top
<1>4. Top.l \in L
  BY <1>1, <1>2 DEF Labelling
<1> HIDE DEF T, L
<1>5. JInv(a, T, L) /\ Len(em.blocks) <= Len(a.blocks) /\ ~ js_term(a)
  BY <1>1, <1>3, JOpenStep
<1> HIDE DEF a
<1>6. JInv(g, T, L) /\ ~ js_term(g) /\ Len(a.blocks) <= Len(g.blocks) /\ b \in DOMAIN g.blocks
  BY <1>4, <1>5, JLabelStep
<1> HIDE DEF g, b
<1>7. JInv(h, T, L) /\ Len(h.blocks) = Len(g.blocks)
  BY <1>6, JJumpStep
<1> HIDE DEF h
<1>8. Piece(<<>>, S, D, "js", {}, {}) /\ NoLoops(<<>>)
  BY NoPiece, NoLoopsNone
<1>9. ~ Plain(Top)
  BY <1>1 DEF Plain, Simple
<1>10. Len(em.blocks) <= Len(h.blocks)
  <2>1. Len(a.blocks) \in Nat /\ Len(g.blocks) \in Nat
    BY <1>5, <1>6, JBlocksFacts DEF JInv
  <2> QED
    BY <1>3, <1>5, <1>6, <1>7, <2>1
<1>11. /\ T = {} \cup AllDefs(Tail(todo), D, "js") /\ {} \cap AllDefs(Tail(todo), D, "js") = {}
       /\ {} \subseteq DOMAIN h.blocks
  BY DEF T
<1> QED
  BY <1>1, <1>7, <1>8, <1>9, <1>10, <1>11, JDoes DEF L

LEMMA JsLabelKeeps ==
    ASSUME NEW tree, NEW S, NEW D, Labelling(tree, S, D), JReady(em, todo, S, D, tree), JsLabel
    PROVE  JReady(em', todo', S, D, tree)
<1> DEFINE T == AllDefs(Tail(todo), D, "js")
           L == DefinedIn(tree, D)
           x == labname(Top.l)
           N == {x} \cup T
           g == label_block(em, Top.l)
           b == g.lmap[Top.l]
           c == jump_if_open(g, b)
           h == at_block(c, b)
<1>1. /\ todo # <<>> /\ Top.k = "label" /\ JsDoes(h, <<>>)
  BY DEF JsLabel, Emitting
<1>2. Top \in S /\ Defs(Top, D, "js") = {x}
  <2>1. Top.k \in Lowered
    BY <1>1 DEF Lowered
  <2>2. Top \in S /\ Defs(Top, D, "js") = LabelNames(D[Top])
    BY <1>1, <2>1, JTopStatement
  <2>3. D[Top] = {Top.l}
    BY <1>1, <2>2 DEF Labelling
  <2> QED
    BY <2>2, <2>3 DEF LabelNames
<1>3. JInv(em, N, L) /\ Len(em.blocks) \in Nat /\ x \notin T
  BY <1>1, <1>2, JTopFacts DEF Top
<1>4. JInv(g, N, L) /\ Len(em.blocks) <= Len(g.blocks) /\ b \in DOMAIN g.blocks /\ Waits(g, x, b)
  <2> HIDE DEF L, N
  <2>1. CASE Top.l \in L
    BY <1>3, <2>1, JLabelStep
  <2>2. CASE Top.l \notin L
    <3> DEFINE K == L \cup {Top.l}
    <3>1. JInv(em, N, K)
      BY <1>3 DEF JInv, JLabels, N
    <3>2. Top.l \in K
      OBVIOUS
    <3> HIDE DEF K
    <3>3. JInv(g, N, K) /\ Len(em.blocks) <= Len(g.blocks) /\ b \in DOMAIN g.blocks /\ Waits(g, x, b)
      BY <3>1, <3>2, JLabelStep
    <3>4. JInv(g, N, L)
      BY <3>3 DEF JInv, JLabels, K
    <3> QED
      BY <3>3, <3>4
  <2> QED
    BY <2>1, <2>2
<1> HIDE DEF g, b, x, L
<1>5. JInv(c, N, L) /\ js_term(c) /\ Len(c.blocks) = Len(g.blocks) /\ c.lmap = g.lmap
  BY <1>4, JJumpIfOpenStep
<1> HIDE DEF c
<1>6. Waits(c, x, b) /\ x \in N
  BY <1>4, <1>5 DEF Waits
<1> HIDE DEF N
<1>7. JInv(h, N \ {x}, L) /\ Len(h.blocks) = Len(c.blocks)
  BY <1>5, <1>6, JAtStep
<1> HIDE DEF h
<1>8. N \ {x} = T
  BY <1>3 DEF N
<1> HIDE DEF T
<1>9. JInv(h, T, L) /\ Len(em.blocks) <= Len(h.blocks)
  BY <1>4, <1>5, <1>7, <1>8
<1>10. Piece(<<>>, S, D, "js", {}, {}) /\ NoLoops(<<>>)
  BY NoPiece, NoLoopsNone
<1>11. ~ Plain(Top)
  BY <1>1 DEF Plain, Simple
<1>12. /\ T = {} \cup AllDefs(Tail(todo), D, "js") /\ {} \cap AllDefs(Tail(todo), D, "js") = {}
       /\ {} \subseteq DOMAIN h.blocks
  BY DEF T
<1> QED
  BY <1>1, <1>9, <1>10, <1>11, <1>12, JDoes DEF L

LEMMA JsJoinKeeps ==
    ASSUME NEW tree, NEW S, NEW D, JReady(em, todo, S, D, tree), JsJoin
    PROVE  JReady(em', todo', S, D, tree)
<1> DEFINE T == AllDefs(Tail(todo), D, "js")
           L == DefinedIn(tree, D)
           x == Block(Top.at)
           N == {x} \cup T
           c == jump_if_open(em, Top.l)
           h == at_block(c, Top.at)
<1>1. /\ todo # <<>> /\ Top.k = "join" /\ JsDoes(h, <<>>)
  BY DEF JsJoin, Emitting
<1>2. Defs(Top, D, "js") = {x} /\ Uses(Top) = {Top.l, Top.at}
  BY <1>1 DEF Defs, Uses, Block
<1>3. JInv(em, N, L) /\ Len(em.blocks) \in Nat /\ x \notin T /\ Top.l \in DOMAIN em.blocks
  BY <1>1, <1>2, JTopFacts DEF Top
<1> HIDE DEF L, x, N
<1>4. JInv(c, N, L) /\ js_term(c) /\ Len(c.blocks) = Len(em.blocks)
  BY <1>3, JJumpIfOpenStep
<1> HIDE DEF c
<1>5. Waits(c, x, Top.at) /\ x \in N
  BY WaitsBlock DEF x, N
<1>6. JInv(h, N \ {x}, L) /\ Len(h.blocks) = Len(c.blocks)
  BY <1>4, <1>5, JAtStep
<1> HIDE DEF h
<1>7. N \ {x} = T
  BY <1>3 DEF N
<1> HIDE DEF T
<1>8. JInv(h, T, L) /\ Len(em.blocks) <= Len(h.blocks)
  <2>1. JInv(h, T, L)
    BY <1>6, <1>7
  <2>2. Len(em.blocks) <= Len(h.blocks)
    BY <1>3, <1>4, <1>6
  <2> QED
    BY <2>1, <2>2
<1>9. Piece(<<>>, S, D, "js", {}, {}) /\ NoLoops(<<>>)
  BY NoPiece, NoLoopsNone
<1>10. ~ Plain(Top)
  BY <1>1 DEF Plain, Simple
<1>11. /\ T = {} \cup AllDefs(Tail(todo), D, "js") /\ {} \cap AllDefs(Tail(todo), D, "js") = {}
       /\ {} \subseteq DOMAIN h.blocks
  BY DEF T
<1> QED
  BY <1>1, <1>8, <1>9, <1>10, <1>11, JDoes DEF L

LEMMA JsTestKeeps ==
    ASSUME NEW tree, NEW S, NEW D, JReady(em, todo, S, D, tree), JsTest
    PROVE  JReady(em', todo', S, D, tree)
<1> DEFINE T == AllDefs(Tail(todo), D, "js")
           L == DefinedIn(tree, D)
           x == Block(Top.hl)
           y == Block(Top.el)
           N == {x, y} \cup T
           c == jump_if_open(em, Top.hl)
           g == at_block(c, Top.hl)
           d == js_branch(g, Top.cond, Top.bl, Top.el)
           h == at_block(d, Top.el)
<1>1. /\ todo # <<>> /\ Top.k = "test" /\ JsDoes(h, <<>>)
  BY DEF JsTest, Emitting
<1>2. Defs(Top, D, "js") = {x, y} /\ Uses(Top) = {Top.hl, Top.bl, Top.el} /\ x # y
  <2>1. Item(Top, S)
    BY <1>1, JTopFacts DEF Top
  <2>2. Top.hl # Top.el
    BY <1>1, <2>1 DEF Item
  <2> QED
    BY <1>1, <2>2, Names DEF Defs, Uses, Block
<1>3. /\ JInv(em, N, L) /\ Len(em.blocks) \in Nat /\ x \notin T /\ y \notin T
      /\ {Top.hl, Top.bl, Top.el} \subseteq DOMAIN em.blocks
  BY <1>1, <1>2, JTopFacts DEF Top
<1>4. DOMAIN em.blocks = 1..Len(em.blocks)
  BY <1>3, JBlocksFacts DEF JInv
<1> HIDE DEF L, x, y, N
<1>5. JInv(c, N, L) /\ js_term(c) /\ Len(c.blocks) = Len(em.blocks)
  BY <1>3, JJumpIfOpenStep
<1> HIDE DEF c
<1>6. Waits(c, x, Top.hl) /\ x \in N
  BY WaitsBlock DEF x, N
<1>7. JInv(g, N \ {x}, L) /\ ~ js_term(g) /\ Len(g.blocks) = Len(c.blocks)
  BY <1>5, <1>6, JAtStep
<1> HIDE DEF g
<1>8. Top.bl \in DOMAIN g.blocks /\ Top.el \in DOMAIN g.blocks
  <2>1. DOMAIN g.blocks = 1..Len(g.blocks)
    BY <1>7, JBlocksFacts DEF JInv
  <2> QED
    BY <1>3, <1>4, <1>5, <1>7, <2>1
<1>9. JInv(d, N \ {x}, L) /\ js_term(d) /\ Len(d.blocks) = Len(g.blocks)
  BY <1>7, <1>8, JBranchStep
<1> HIDE DEF d
<1>10. Waits(d, y, Top.el) /\ y \in N \ {x}
  BY <1>2, WaitsBlock DEF y, N
<1>11. JInv(h, (N \ {x}) \ {y}, L) /\ Len(h.blocks) = Len(d.blocks)
  BY <1>9, <1>10, JAtStep
<1> HIDE DEF h
<1>12. (N \ {x}) \ {y} = T
  BY <1>3 DEF N
<1> HIDE DEF T
<1>13. JInv(h, T, L) /\ Len(em.blocks) <= Len(h.blocks)
  <2>1. JInv(h, T, L)
    BY <1>11, <1>12
  <2>2. Len(em.blocks) <= Len(h.blocks)
    BY <1>3, <1>5, <1>7, <1>9, <1>11
  <2> QED
    BY <2>1, <2>2
<1>14. Piece(<<>>, S, D, "js", {}, {}) /\ NoLoops(<<>>)
  BY NoPiece, NoLoopsNone
<1>15. ~ Plain(Top)
  BY <1>1 DEF Plain, Simple
<1>16. /\ T = {} \cup AllDefs(Tail(todo), D, "js") /\ {} \cap AllDefs(Tail(todo), D, "js") = {}
       /\ {} \subseteq DOMAIN h.blocks
  BY DEF T
<1> QED
  BY <1>1, <1>13, <1>14, <1>15, <1>16, JDoes DEF L

LEMMA JsIncKeeps ==
    ASSUME NEW tree, NEW S, NEW D, Labelling(tree, S, D), JReady(em, todo, S, D, tree), JsInc
    PROVE  JReady(em', todo', S, D, tree)
<1> DEFINE T == AllDefs(Tail(todo), D, "js")
           L == DefinedIn(tree, D)
           items == IF js_term(em) THEN <<>> ELSE Top.inc
<1>1. /\ todo # <<>> /\ Top.k = "inc" /\ JsDoes(em, items)
  BY DEF JsInc, Emitting
<1>2. Defs(Top, D, "js") = {}
  BY <1>1 DEF Defs
<1>3. JInv(em, T, L) /\ Len(em.blocks) \in Nat
  <2>1. {} \cup T = T
    OBVIOUS
  <2> QED
    BY <1>1, <1>2, <2>1, JTopFacts DEF Top
<1>4. Piece(items, S, D, "js", {}, {}) /\ NoLoops(items)
  <2>1. Item(Top, S)
    BY <1>1, JTopFacts DEF Top
  <2>2. Top.inc \in Seq(S) /\ \A i \in DOMAIN Top.inc : Plain(Top.inc[i])
    BY <1>1, <2>1 DEF Item
  <2>3. Piece(Top.inc, S, D, "js", {}, {}) /\ NoLoops(Top.inc)
    BY <2>2, PlainPiece, NoLoopsBody
  <2> QED
    BY <2>3, NoPiece, NoLoopsNone
<1> HIDE DEF items, L
<1>5. ~ Plain(Top)
  BY <1>1 DEF Plain, Simple
<1>6. /\ T = {} \cup AllDefs(Tail(todo), D, "js") /\ {} \cap AllDefs(Tail(todo), D, "js") = {}
      /\ {} \subseteq DOMAIN em.blocks /\ Len(em.blocks) <= Len(em.blocks)
  BY <1>3
<1> HIDE DEF T
<1> QED
  BY <1>1, <1>3, <1>4, <1>5, <1>6, JDoes DEF L

LEMMA JsIfKeeps ==
    ASSUME NEW tree, NEW S, NEW D, Labelling(tree, S, D), JReady(em, todo, S, D, tree), JsIf
    PROVE  JReady(em', todo', S, D, tree)
<1> DEFINE T == AllDefs(Tail(todo), D, "js")
           L == DefinedIn(tree, D)
           H == Defs(Top, D, "js")
           g == js_open(em, Top)
           p == Len(g.blocks)
           has == Top.els # <<>>
           two == new_block(new_block(g))
           m == IF has THEN new_block(two) ELSE two
           tb == p + 1
           fb == p + 2
           db == p + (IF has THEN 3 ELSE 2)
           x == Block(tb)
           y == Block(fb)
           z == Block(db)
           c == js_branch(m, Top.cond, tb, fb)
           h == at_block(c, tb)
           th == Top.then
           es == Top.els
           e == IF has THEN es \o <<Join(db, db)>> ELSE <<>>
           items == (th \o <<Join(db, fb)>>) \o e
           A == AllDefs(th, D, "js")
           B == AllDefs(es, D, "js")
           A1 == H \cup {y, z}
           U1 == {fb, db}
<1>1. todo # <<>> /\ Top.k = "if" /\ JsDoes(h, items)
  BY DEF JsIf, Emitting, block_no
<1>2. Top \in S /\ H = LabelNames(D[Top])
  <2>1. Top.k \in Lowered
    BY <1>1 DEF Lowered
  <2> QED
    BY <1>1, <2>1, JTopStatement
<1>3. /\ Piece(th, S, D, "js", A, {}) /\ Piece(es, S, D, "js", B, {})
      /\ th \in Seq(S) /\ es \in Seq(S) /\ A \cup B = H /\ A \cap B = {}
  <2> DEFINE n == Top
  <2>1. n \in S /\ n.k = "if"
    BY <1>1, <1>2
  <2> HIDE DEF n
  <2>2. /\ Piece(n.then, S, D, "js", AllDefs(n.then, D, "js"), {}) /\ n.then \in Seq(S)
        /\ Piece(n.els, S, D, "js", AllDefs(n.els, D, "js"), {}) /\ n.els \in Seq(S)
        /\ AllDefs(n.then, D, "js") \cup AllDefs(n.els, D, "js") = LabelNames(D[n])
        /\ AllDefs(n.then, D, "js") \cap AllDefs(n.els, D, "js") = {}
    BY <2>1, IfPieces
  <2> QED
    BY <1>2, <2>2 DEF n
<1>4. JInv(em, H \cup T, L) /\ H \cap T = {} /\ Len(em.blocks) \in Nat
  BY <1>1, JTopFacts DEF Top
<1>5. \A b : Block(b) \notin H
  BY <1>2, Names DEF LabelNames
<1> HIDE DEF T, L, H
<1>6. JInv(g, H \cup T, L) /\ Len(em.blocks) <= Len(g.blocks) /\ ~ js_term(g)
  BY <1>1, <1>4, JOpenStep
<1> HIDE DEF g
<1>7. /\ JInv(m, (H \cup T) \cup {x, y, z}, L) /\ ~ js_term(m) /\ p \in Nat
      /\ x \notin H \cup T /\ y \notin H \cup T /\ z \notin H \cup T
      /\ x # y /\ x # z /\ (has <=> y # z)
      /\ Len(m.blocks) \in Nat /\ {tb, fb, db} \subseteq 1..Len(m.blocks) /\ p <= Len(m.blocks)
  <2> DEFINE N == H \cup T
             q == p
  <2> HIDE DEF N, p
  <2>1. CASE ~ has
    <3>1. /\ JInv(two, N \cup {Block(q + 1), Block(q + 2)}, L) /\ (js_term(two) <=> js_term(g))
          /\ Len(two.blocks) = q + 2 /\ Block(q + 1) \notin N /\ Block(q + 2) \notin N
          /\ q \in Nat /\ Block(q + 1) # Block(q + 2)
      BY <1>6, JTwo DEF N, p
    <3>2. m = two /\ db = fb /\ {x, y, z} = {Block(q + 1), Block(q + 2)}
      BY <2>1
    <3> HIDE DEF two, m
    <3>3. JInv(m, N \cup {x, y, z}, L)
      BY <3>1, <3>2
    <3>4. {tb, fb, db} \subseteq 1..Len(m.blocks) /\ p <= Len(m.blocks) /\ Len(m.blocks) \in Nat
      BY <3>1, <3>2
    <3> QED
      BY <1>6, <2>1, <3>1, <3>2, <3>3, <3>4 DEF N
  <2>2. CASE has
    <3> DEFINE r == new_block(two)
    <3>1. /\ JInv(r, N \cup {Block(q + 1), Block(q + 2), Block(q + 3)}, L) /\ (js_term(r) <=> js_term(g))
          /\ Len(r.blocks) = q + 3
          /\ Block(q + 1) \notin N /\ Block(q + 2) \notin N /\ Block(q + 3) \notin N
          /\ q \in Nat /\ Block(q + 1) # Block(q + 2) /\ Block(q + 1) # Block(q + 3)
          /\ Block(q + 2) # Block(q + 3)
      BY <1>6, JThree DEF N, p
    <3>2. m = r /\ db = q + 3
      BY <2>2
    <3> HIDE DEF r, m, two
    <3>3. JInv(m, N \cup {x, y, z}, L)
      BY <3>1, <3>2
    <3>4. {tb, fb, db} \subseteq 1..Len(m.blocks) /\ p <= Len(m.blocks) /\ Len(m.blocks) \in Nat
      BY <3>1, <3>2
    <3> QED
      BY <1>6, <2>2, <3>1, <3>2, <3>3, <3>4 DEF N
  <2> QED
    BY <2>1, <2>2
<1> DEFINE M == (H \cup T) \cup {x, y, z}
<1>8. DOMAIN m.blocks = 1..Len(m.blocks)
  BY <1>7, JBlocksFacts DEF JInv
<1>9. JInv(c, M, L) /\ js_term(c) /\ Len(c.blocks) = Len(m.blocks)
  <2>1. tb \in DOMAIN m.blocks /\ fb \in DOMAIN m.blocks
    BY <1>7, <1>8
  <2> HIDE DEF m, M, tb, fb
  <2> QED
    BY <1>7, <2>1, JBranchStep DEF M
<1>10. Waits(c, x, tb) /\ x \in M
  BY WaitsBlock
<1> HIDE DEF c, M
<1>11. JInv(h, M \ {x}, L) /\ Len(h.blocks) = Len(c.blocks)
  <2> HIDE DEF tb, x
  <2> QED
    BY <1>9, <1>10, JAtStep
<1>12. DOMAIN h.blocks = 1..Len(m.blocks)
  <2>1. DOMAIN h.blocks = 1..Len(h.blocks)
    BY <1>11, JBlocksFacts DEF JInv
  <2> QED
    BY <1>9, <1>11, <2>1
<1>13. M \ {x} = A1 \cup T /\ A1 \cap T = {}
  <2>1. /\ H \cap T = {} /\ x \notin H \cup T /\ y \notin H \cup T /\ z \notin H \cup T
        /\ x # y /\ x # z
    BY <1>4, <1>7
  <2> HIDE DEF x, y, z
  <2> QED
    BY <2>1 DEF M
<1>14. JInv(h, A1 \cup T, L) /\ U1 \subseteq DOMAIN h.blocks
  BY <1>7, <1>11, <1>12, <1>13
<1>15. Len(em.blocks) <= Len(h.blocks)
  BY <1>4, <1>6, <1>7, <1>9, <1>11
<1> HIDE DEF h, m, th, es, fb, db, has, p, x, y, z, A, B
<1>16. y \notin A \cup B /\ z \notin A \cup B
  BY <1>3, <1>5 DEF y, z
<1>17. Piece(items, S, D, "js", A1, U1)
  <2>1. Piece(<<Join(db, fb)>>, S, D, "js", {y}, {db, fb}) /\ Piece(<<Join(db, db)>>, S, D, "js", {z}, {db})
    <3>1. /\ Piece(<<Join(db, fb)>>, S, D, "js", {Named(fb, "js")}, {db, fb})
          /\ Piece(<<Join(db, db)>>, S, D, "js", {Named(db, "js")}, {db, db})
      BY JoinPiece
    <3> QED
      BY <3>1 DEF y, z, Block
  <2>2. Piece(th \o <<Join(db, fb)>>, S, D, "js", A \cup {y}, {db, fb})
    <3>1. A \cap {y} = {} /\ {} \cup {db, fb} = {db, fb}
      BY <1>16
    <3>2. Piece(th \o <<Join(db, fb)>>, S, D, "js", A \cup {y}, {} \cup {db, fb})
      BY <1>3, <2>1, <3>1, Pieces
    <3> QED
      BY <3>1, <3>2
  <2>3. CASE has
    <3>1. Piece(es \o <<Join(db, db)>>, S, D, "js", B \cup {z}, {db})
      <4>1. B \cap {z} = {} /\ {} \cup {db} = {db}
        BY <1>16
      <4>2. Piece(es \o <<Join(db, db)>>, S, D, "js", B \cup {z}, {} \cup {db})
        BY <1>3, <2>1, <4>1, Pieces
      <4> QED
        BY <4>1, <4>2
    <3>2. e = es \o <<Join(db, db)>>
      BY <2>3
    <3> HIDE DEF e
    <3>3. /\ (A \cup {y}) \cap (B \cup {z}) = {} /\ (A \cup {y}) \cup (B \cup {z}) = A1
          /\ {db, fb} \cup {db} = U1
      BY <1>3, <1>7, <1>16, <2>3
    <3>4. Piece(items, S, D, "js", (A \cup {y}) \cup (B \cup {z}), {db, fb} \cup {db})
      BY <2>2, <3>1, <3>2, <3>3, Pieces
    <3> QED
      BY <3>3, <3>4
  <2>4. CASE ~ has
    <3>1. e = <<>> /\ es = <<>>
      BY <2>4 DEF has, es
    <3> HIDE DEF e
    <3>2. B = {}
      BY <3>1, Ones DEF B
    <3>3. /\ (A \cup {y}) \cap {} = {} /\ (A \cup {y}) \cup {} = A1 /\ {db, fb} \cup {} = U1
      BY <1>3, <1>7, <2>4, <3>2
    <3>4. Piece(<<>>, S, D, "js", {}, {})
      BY NoPiece
    <3>5. Piece(items, S, D, "js", (A \cup {y}) \cup {}, {db, fb} \cup {})
      BY <2>2, <3>1, <3>3, <3>4, Pieces
    <3> QED
      BY <3>3, <3>5
  <2> QED
    BY <2>3, <2>4
<1>18. NoLoops(items)
  <2>1. IsSeq(th) /\ NoLoops(th) /\ IsSeq(es) /\ NoLoops(es)
    BY <1>3, NoLoopsBody
  <2>2. \A l, at : IsSeq(<<Join(l, at)>>) /\ NoLoops(<<Join(l, at)>>)
    BY Single, NoLoopsOne DEF Join
  <2>3. IsSeq(th \o <<Join(db, fb)>>) /\ NoLoops(th \o <<Join(db, fb)>>)
    BY <2>1, <2>2, Joined, NoLoopsJoined
  <2>4. IsSeq(es \o <<Join(db, db)>>) /\ NoLoops(es \o <<Join(db, db)>>)
    BY <2>1, <2>2, Joined, NoLoopsJoined
  <2>5. IsSeq(e) /\ NoLoops(e)
    BY <2>4, Empty, NoLoopsNone
  <2> HIDE DEF e
  <2> QED
    BY <2>3, <2>5, NoLoopsJoined
<1>19. ~ Plain(Top)
  BY <1>1 DEF Plain, Simple
<1> HIDE DEF items, A1, U1
<1>20. A1 \cup T = A1 \cup AllDefs(Tail(todo), D, "js") /\ A1 \cap AllDefs(Tail(todo), D, "js") = {}
  BY <1>13 DEF T
<1> DEFINE N1 == A1 \cup T
<1>21. JInv(h, N1, DefinedIn(tree, D)) /\ N1 = A1 \cup AllDefs(Tail(todo), D, "js")
  BY <1>14, <1>20 DEF L
<1> HIDE DEF N1
<1> QED
  BY <1>1, <1>14, <1>15, <1>17, <1>18, <1>19, <1>20, <1>21, JDoes

LEMMA JsLoopKeeps ==
    ASSUME NEW tree, NEW S, NEW D, Labelling(tree, S, D), JReady(em, todo, S, D, tree), JsLoop
    PROVE  JReady(em', todo', S, D, tree)
<1> DEFINE T == AllDefs(Tail(todo), D, "js")
           L == DefinedIn(tree, D)
           H == Defs(Top, D, "js")
           n == Top
           h == js_open(em, n)
           x == LoopOf(n)
           items == n.init \o <<x>>
<1>1. todo # <<>> /\ n.k \in {"while", "for"} /\ JsDoes(h, items)
  BY DEF JsLoop, Emitting
<1>2. n \in S /\ H = LabelNames(D[n])
  <2>1. Top.k \in Lowered
    BY <1>1 DEF Lowered, Loops
  <2> QED
    BY <1>1, <2>1, JTopStatement
<1>3. JInv(em, H \cup T, L) /\ H \cap T = {} /\ IsSeq(todo) /\ Led(em, todo)
  BY <1>1, JTopFacts DEF Top
<1>4. ~ Plain(Top)
  BY <1>1 DEF Plain, Simple
<1>5. IsSeq(Tail(todo)) /\ NoLoops(Tail(todo))
  BY <1>1, <1>3, <1>4, TailNoLoops DEF Top
<1> HIDE DEF T, L, H, n
<1>6. /\ Piece(n.init, S, D, "js", {}, {}) /\ n.init \in Seq(S) /\ \A i \in DOMAIN n.init : Plain(n.init[i])
      /\ H = LabelNames(DefinedIn(n.body, D))
  <2>1. /\ Piece(n.init, S, D, "js", {}, {}) /\ n.init \in Seq(S) /\ \A i \in DOMAIN n.init : Plain(n.init[i])
    BY <1>1, <1>2, LoopPieces
  <2>2. /\ Piece(n.body, S, D, "js", LabelNames(D[n]), {})
        /\ Piece(n.body, S, D, "js", LabelNames(DefinedIn(n.body, D)), {})
    BY <1>1, <1>2, LoopPieces
  <2> QED
    BY <1>2, <2>1, <2>2 DEF Piece
<1>7. JInv(h, H \cup T, L) /\ Len(em.blocks) <= Len(h.blocks) /\ ~ js_term(h)
  BY <1>1, <1>3, JOpenStep
<1> HIDE DEF h
<1>8. x.k = "loop" /\ x.n = n
  BY DEF LoopOf
<1> HIDE DEF x
<1>9. Piece(<<x>>, S, D, "js", H, {})
  <2>1. Item(x, S) /\ Defs(x, D, "js") = H /\ Uses(x) = {}
    BY <1>1, <1>2, <1>6, <1>8 DEF Item, Defs, Uses
  <2>2. Piece(<<x>>, S, D, "js", Defs(x, D, "js"), Uses(x))
    BY <2>1, PieceOf
  <2> QED
    BY <2>1, <2>2
<1>10. Piece(items, S, D, "js", H, {})
  <2>1. {} \cap H = {} /\ {} \cup H = H /\ {} \cup {} = {}
    OBVIOUS
  <2>2. Piece(items, S, D, "js", {} \cup H, {} \cup {})
    BY <1>6, <1>9, <2>1, Pieces
  <2> QED
    BY <2>1, <2>2
<1>11. Led(h, items \o Tail(todo))
  <2> DEFINE a == n.init
             q == Len(a)
             t == Tail(todo)
             u == items \o t
  <2>1. IsSeq(a) /\ IsSeq(<<x>>) /\ DOMAIN <<x>> = {1} /\ <<x>>[1] = x
    BY <1>6, Single DEF IsSeq
  <2>2. \A i \in DOMAIN a : a[i].k # "loop" /\ Plain(a[i])
    BY <1>6 DEF Plain, Simple
  <2>3. /\ q \in Nat /\ DOMAIN a = 1..q /\ IsSeq(items) /\ Len(items) = q + 1
        /\ \A i \in 1..q : items[i] = a[i]
    BY <2>1, SeqFacts, Joined, Single
  <2>4. \A i \in DOMAIN items : i \in 1..q + 1
    BY <2>3, SeqFacts
  <2> HIDE DEF a, q, items, t
  <2>5. \A i \in DOMAIN u : \/ i \in DOMAIN items /\ u[i] = items[i]
                            \/ \E j \in DOMAIN t : i = Len(items) + j /\ u[i] = t[j]
    BY <1>5, <2>3, Positions DEF t
  <2>6. \A i \in 1..Len(items) : u[i] = items[i]
    BY <1>5, <2>3, Joined DEF t
  <2>7. \A j \in DOMAIN t : t[j].k # "loop"
    BY <1>5 DEF NoLoops, t
  <2> HIDE DEF u
  <2>8. ASSUME NEW i \in DOMAIN u, u[i].k = "loop", NEW j \in 1..i - 1 PROVE Plain(u[j])
    <3>1. i \in DOMAIN items
      BY <2>5, <2>7, <2>8
    <3>2. i \in 1..q + 1
      BY <2>4, <3>1
    <3>3. j \in 1..q
      BY <2>3, <2>8, <3>2
    <3>4. j \in 1..Len(items)
      BY <2>3, <3>3
    <3>5. u[j] = a[j] /\ j \in DOMAIN a
      BY <2>3, <2>6, <3>3, <3>4
    <3> QED
      BY <2>2, <3>5
  <2> QED
    BY <1>7, <2>8 DEF Led, u, t
<1>12. /\ H \cap AllDefs(Tail(todo), D, "js") = {} /\ H \cup AllDefs(Tail(todo), D, "js") = H \cup T
       /\ {} \subseteq DOMAIN h.blocks
  BY <1>3 DEF T
<1> HIDE DEF items
<1>13. JReady(h, items \o Tail(todo), S, D, tree)
  BY <1>1, <1>7, <1>10, <1>11, <1>12, JAdvance DEF L
<1> QED
  BY <1>1, <1>13 DEF JsDoes

LEMMA JsDoKeeps ==
    ASSUME NEW tree, NEW S, NEW D, Labelling(tree, S, D), JReady(em, todo, S, D, tree), JsDo
    PROVE  JReady(em', todo', S, D, tree)
<1> DEFINE T == AllDefs(Tail(todo), D, "js")
           L == DefinedIn(tree, D)
           H == Defs(Top, D, "js")
           n == Top
           g == js_open(em, n)
           p == Len(g.blocks)
           bb == p + 1
           hb == p + 2
           db == p + 3
           x == Block(bb)
           y == Block(hb)
           z == Block(db)
           m == new_block(new_block(new_block(g)))
           c == jump_to(m, bb)
           h == at_block(c, bb)
           t == <<TestOf(n, hb, bb, db)>>
           items == n.body \o t
           A1 == H \cup {y, z}
           U1 == {hb, bb, db}
<1>1. todo # <<>> /\ n.k = "do" /\ JsDoes(h, items)
  BY DEF JsDo, Emitting, block_no
<1>2. n \in S /\ H = LabelNames(D[n])
  <2>1. Top.k \in Lowered
    BY <1>1 DEF Lowered, Loops
  <2> QED
    BY <1>1, <2>1, JTopStatement
<1>3. JInv(em, H \cup T, L) /\ H \cap T = {} /\ Len(em.blocks) \in Nat
  BY <1>1, JTopFacts DEF Top
<1>4. ~ Plain(Top)
  BY <1>1 DEF Plain, Simple
<1>5. \A b : Block(b) \notin H
  BY <1>2, Names DEF LabelNames
<1> HIDE DEF T, L, H, n
<1>6. Piece(n.body, S, D, "js", H, {}) /\ n.body \in Seq(S)
  BY <1>1, <1>2, BodyPiece
<1>7. JInv(g, H \cup T, L) /\ Len(em.blocks) <= Len(g.blocks) /\ ~ js_term(g)
  BY <1>1, <1>3, JOpenStep
<1> HIDE DEF g, p
<1>8. /\ JInv(m, (H \cup T) \cup {x, y, z}, L) /\ ~ js_term(m) /\ p \in Nat
      /\ x \notin H \cup T /\ y \notin H \cup T /\ z \notin H \cup T
      /\ x # y /\ x # z /\ y # z /\ Len(m.blocks) = p + 3
  BY <1>7, JThree DEF p
<1> DEFINE M == (H \cup T) \cup {x, y, z}
<1>9. DOMAIN m.blocks = 1..p + 3 /\ {bb, hb, db} \subseteq 1..p + 3
  BY <1>8, JBlocksFacts DEF JInv
<1> HIDE DEF m
<1>10. JInv(c, M, L) /\ js_term(c) /\ Len(c.blocks) = p + 3
  <2>1. bb \in DOMAIN m.blocks
    BY <1>9
  <2> HIDE DEF M, bb
  <2> QED
    BY <1>8, <2>1, JJumpStep DEF M
<1>11. Waits(c, x, bb) /\ x \in M
  BY WaitsBlock
<1> HIDE DEF c, M
<1>12. JInv(h, M \ {x}, L) /\ Len(h.blocks) = p + 3
  <2> HIDE DEF bb, x
  <2> QED
    BY <1>10, <1>11, JAtStep
<1>13. DOMAIN h.blocks = 1..p + 3
  BY <1>12, JBlocksFacts DEF JInv
<1>14. M \ {x} = A1 \cup T /\ A1 \cap T = {}
  <2>1. /\ H \cap T = {} /\ x \notin H \cup T /\ y \notin H \cup T /\ z \notin H \cup T
        /\ x # y /\ x # z
    BY <1>3, <1>8
  <2> HIDE DEF x, y, z
  <2> QED
    BY <2>1 DEF M
<1>15. JInv(h, A1 \cup T, L) /\ U1 \subseteq DOMAIN h.blocks
  BY <1>9, <1>12, <1>13, <1>14
<1>16. Len(em.blocks) <= Len(h.blocks)
  BY <1>3, <1>7, <1>8, <1>12 DEF p
<1>17. hb # db /\ y \notin H /\ z \notin H
  BY <1>5, <1>8
<1> HIDE DEF h, bb, hb, db
<1>18. Piece(t, S, D, "js", {y, z}, U1)
  <2>1. Piece(t, S, D, "js", {Named(hb, "js"), Named(db, "js")}, {hb, bb, db})
    BY <1>17, TestPiece
  <2> QED
    BY <2>1 DEF Block
<1>19. IsSeq(t) /\ NoLoops(t) /\ IsSeq(n.body) /\ NoLoops(n.body)
  <2>1. TestOf(n, hb, bb, db).k # "loop"
    BY DEF TestOf
  <2> QED
    BY <1>6, <2>1, Single, NoLoopsOne, NoLoopsBody
<1> HIDE DEF t
<1>20. Piece(items, S, D, "js", A1, U1)
  <2>1. H \cap {y, z} = {} /\ {} \cup U1 = U1
    BY <1>17
  <2> HIDE DEF U1
  <2>2. Piece(items, S, D, "js", H \cup {y, z}, {} \cup U1)
    BY <1>6, <1>18, <2>1, Pieces
  <2> QED
    BY <2>1, <2>2
<1>21. NoLoops(items)
  BY <1>19, NoLoopsJoined
<1> HIDE DEF items, A1, U1
<1>22. A1 \cap AllDefs(Tail(todo), D, "js") = {}
  BY <1>14 DEF T
<1> DEFINE N1 == A1 \cup T
<1>23. JInv(h, N1, DefinedIn(tree, D)) /\ N1 = A1 \cup AllDefs(Tail(todo), D, "js")
  BY <1>15 DEF L, T
<1> HIDE DEF N1
<1> QED
  BY <1>1, <1>4, <1>15, <1>16, <1>20, <1>21, <1>22, <1>23, JDoes

LEMMA IncPiece ==
    ASSUME NEW tree, NEW S, NEW D, Labelling(tree, S, D), NEW n \in S, n.k \in {"while", "for"}
    PROVE  Piece(<<IncOf(n)>>, S, D, "js", {}, {}) /\ IncOf(n).k # "loop"
<1> DEFINE x == IncOf(n)
<1>1. n.inc \in Seq(S) /\ \A i \in DOMAIN n.inc : Plain(n.inc[i])
  BY LoopPieces
<1>2. x.k = "inc" /\ x.inc = n.inc
  BY DEF IncOf
<1> HIDE DEF x
<1>3. Item(x, S) /\ Defs(x, D, "js") = {} /\ Uses(x) = {}
  BY <1>1, <1>2 DEF Item, Defs, Uses
<1>4. Piece(<<x>>, S, D, "js", Defs(x, D, "js"), Uses(x))
  BY <1>3, PieceOf
<1> QED
  BY <1>2, <1>3, <1>4 DEF x

LEMMA JsHeadKeeps ==
    ASSUME NEW tree, NEW S, NEW D, Labelling(tree, S, D), JReady(em, todo, S, D, tree), JsHead
    PROVE  JReady(em', todo', S, D, tree)
<1> DEFINE T == AllDefs(Tail(todo), D, "js")
           L == DefinedIn(tree, D)
           H == Defs(Top, D, "js")
           n == Top.n
           p == Len(em.blocks)
           hb == p + 1
           bb == p + 2
           db == p + 3
           x == Block(hb)
           y == Block(bb)
           z == Block(db)
           m == new_block(new_block(new_block(em)))
           c == jump_to(m, hb)
           g == at_block(c, hb)
           d == IF n.cond.t = "always" THEN jump_to(g, bb) ELSE js_branch(g, n.cond, bb, db)
           h == at_block(d, bb)
           u == <<IncOf(n)>>
           v == <<Join(hb, db)>>
           items == n.body \o (u \o v)
           A1 == H \cup {z}
           U1 == {hb, db}
<1>1. todo # <<>> /\ Top.k = "loop" /\ JsDoes(h, items)
  <2>1. <<IncOf(n), Join(hb, db)>> = u \o v
    OBVIOUS
  <2> HIDE DEF u, v
  <2> QED
    BY <2>1 DEF JsHead, Emitting, block_no
<1>2. n \in S /\ n.k \in {"while", "for"} /\ H = LabelNames(DefinedIn(n.body, D))
  <2>1. Item(Top, S)
    BY <1>1, JTopFacts DEF Top
  <2> QED
    BY <1>1, <2>1 DEF Item, Defs
<1>3. JInv(em, H \cup T, L) /\ H \cap T = {} /\ Len(em.blocks) \in Nat /\ IsSeq(todo) /\ Led(em, todo)
  BY <1>1, JTopFacts DEF Top
<1>4. ~ Plain(Top)
  BY <1>1 DEF Plain, Simple
<1>5. ~ js_term(em)
  <2>1. 1 \in DOMAIN todo /\ todo[1] = Head(todo)
    BY <1>1, <1>3, TailPositions
  <2> QED
    BY <1>1, <1>3, <2>1 DEF Led, Top
<1>6. \A b : Block(b) \notin H
  BY <1>2, Names DEF LabelNames
<1> HIDE DEF T, L, H, n
<1>7. Piece(n.body, S, D, "js", H, {}) /\ n.body \in Seq(S)
  <2>1. Piece(n.body, S, D, "js", LabelNames(DefinedIn(n.body, D)), {}) /\ n.body \in Seq(S)
    BY <1>2, LoopPieces
  <2> QED
    BY <1>2, <2>1
<1> HIDE DEF p
<1>8. /\ JInv(m, (H \cup T) \cup {x, y, z}, L) /\ ~ js_term(m) /\ p \in Nat
      /\ x \notin H \cup T /\ y \notin H \cup T /\ z \notin H \cup T
      /\ x # y /\ x # z /\ y # z /\ Len(m.blocks) = p + 3
  BY <1>3, <1>5, JThree DEF p
<1> DEFINE M == (H \cup T) \cup {x, y, z}
<1>9. DOMAIN m.blocks = 1..p + 3 /\ {hb, bb, db} \subseteq 1..p + 3
  BY <1>8, JBlocksFacts DEF JInv
<1> HIDE DEF m
<1>10. JInv(c, M, L) /\ js_term(c) /\ Len(c.blocks) = p + 3
  <2>1. hb \in DOMAIN m.blocks
    BY <1>9
  <2> HIDE DEF M, hb
  <2> QED
    BY <1>8, <2>1, JJumpStep DEF M
<1>11. Waits(c, x, hb) /\ x \in M
  BY WaitsBlock
<1> HIDE DEF c, M
<1>12. JInv(g, M \ {x}, L) /\ ~ js_term(g) /\ Len(g.blocks) = p + 3
  <2> HIDE DEF hb, x
  <2> QED
    BY <1>10, <1>11, JAtStep
<1>13. bb \in DOMAIN g.blocks /\ db \in DOMAIN g.blocks
  <2>1. DOMAIN g.blocks = 1..p + 3
    BY <1>12, JBlocksFacts DEF JInv
  <2> QED
    BY <1>9, <2>1
<1> HIDE DEF g
<1>14. JInv(d, M \ {x}, L) /\ js_term(d) /\ Len(d.blocks) = p + 3
  <2> DEFINE q == p + 3
  <2>1. Len(g.blocks) = q
    BY <1>12
  <2> HIDE DEF bb, db, q
  <2>2. CASE n.cond.t = "always"
    BY <1>12, <1>13, <2>1, <2>2, JJumpStep
  <2>3. CASE n.cond.t # "always"
    BY <1>12, <1>13, <2>1, <2>3, JBranchStep
  <2> QED
    BY <2>2, <2>3 DEF q
<1>15. Waits(d, y, bb) /\ y \in M \ {x}
  BY <1>8, WaitsBlock DEF M
<1> HIDE DEF d
<1>16. JInv(h, (M \ {x}) \ {y}, L) /\ Len(h.blocks) = p + 3
  <2> DEFINE K == M \ {x}
             q == p + 3
  <2>1. JInv(d, K, L) /\ js_term(d) /\ Len(d.blocks) = q /\ y \in K
    BY <1>14, <1>15
  <2> HIDE DEF bb, y, K, q
  <2>2. JInv(h, K \ {y}, L) /\ Len(h.blocks) = q
    BY <1>15, <2>1, JAtStep
  <2> QED
    BY <2>2 DEF K, q
<1>17. DOMAIN h.blocks = 1..p + 3
  BY <1>16, JBlocksFacts DEF JInv
<1>18. (M \ {x}) \ {y} = A1 \cup T /\ A1 \cap T = {}
  <2>1. /\ H \cap T = {} /\ x \notin H \cup T /\ y \notin H \cup T /\ z \notin H \cup T
        /\ x # y /\ x # z /\ y # z
    BY <1>3, <1>8
  <2> HIDE DEF x, y, z
  <2> QED
    BY <2>1 DEF M
<1>19. JInv(h, A1 \cup T, L) /\ U1 \subseteq DOMAIN h.blocks
  BY <1>9, <1>16, <1>17, <1>18
<1>20. Len(em.blocks) <= Len(h.blocks)
  BY <1>3, <1>8, <1>16 DEF p
<1> HIDE DEF h, hb, bb, db
<1>21. Piece(u, S, D, "js", {}, {}) /\ Piece(v, S, D, "js", {z}, U1)
  <2>1. Piece(v, S, D, "js", {Named(db, "js")}, {hb, db})
    BY JoinPiece
  <2> QED
    BY <1>2, <2>1, IncPiece DEF Block
<1>22. IsSeq(u) /\ NoLoops(u) /\ IsSeq(v) /\ NoLoops(v) /\ IsSeq(n.body) /\ NoLoops(n.body)
  <2>1. IncOf(n).k # "loop" /\ Join(hb, db).k # "loop"
    BY DEF IncOf, Join
  <2> QED
    BY <1>7, <2>1, Single, NoLoopsOne, NoLoopsBody
<1> HIDE DEF u, v, z, U1
<1>23. Piece(u \o v, S, D, "js", {z}, U1) /\ IsSeq(u \o v) /\ NoLoops(u \o v)
  <2>1. {} \cap {z} = {} /\ {} \cup {z} = {z} /\ {} \cup U1 = U1
    OBVIOUS
  <2>2. Piece(u \o v, S, D, "js", {} \cup {z}, {} \cup U1)
    BY <1>21, <2>1, Pieces
  <2>3. IsSeq(u \o v) /\ NoLoops(u \o v)
    BY <1>22, Joined, NoLoopsJoined
  <2> QED
    BY <2>1, <2>2, <2>3
<1>24. Piece(items, S, D, "js", A1, U1)
  <2>1. H \cap {z} = {} /\ {} \cup U1 = U1
    BY <1>6 DEF z
  <2>2. Piece(items, S, D, "js", H \cup {z}, {} \cup U1)
    BY <1>7, <1>23, <2>1, Pieces
  <2> QED
    BY <2>1, <2>2
<1>25. NoLoops(items)
  BY <1>22, <1>23, NoLoopsJoined
<1> HIDE DEF items, A1
<1>26. A1 \cap AllDefs(Tail(todo), D, "js") = {}
  BY <1>18 DEF T
<1> DEFINE N1 == A1 \cup T
<1>27. JInv(h, N1, DefinedIn(tree, D)) /\ N1 = A1 \cup AllDefs(Tail(todo), D, "js")
  BY <1>19 DEF L, T
<1> HIDE DEF N1
<1> QED
  BY <1>1, <1>4, <1>19, <1>20, <1>24, <1>25, <1>26, <1>27, JDoes

-----------------------------------------------------------------------------
(* JavaScript: the blocks become the cases of one switch. *)

ClosedCode(s) ==
    /\ IsSeq(s) /\ s # <<>>
    /\ \A i \in DOMAIN s : s[i].op # "label" /\ (Terminator(s[i]) <=> i = Len(s))
Printing(g, c) ==
    /\ JRec(g) /\ g.i \in 1..Len(g.blocks) + 1
    /\ \A b \in DOMAIN g.blocks : /\ ClosedCode(g.blocks[b].code)
                                  /\ Aims(g.blocks[b].code) \subseteq DOMAIN g.blocks
    /\ IsSeq(c) /\ Shape(c, c = <<>>) /\ Once(c)
    /\ Placed(c) = 1..g.i - 1 /\ Aims(c) \subseteq DOMAIN g.blocks

\* The code c followed by the case l, whose block has the code s, is d.
Adds(c, l, s, d) ==
    /\ IsSeq(d) /\ d # <<>> /\ Shape(d, FALSE) /\ Once(d)
    /\ Placed(d) = Placed(c) \cup {l} /\ Aims(d) = Aims(c) \cup Aims(s)

LEMMA CasePrinted ==
    ASSUME NEW c, IsSeq(c), Shape(c, c = <<>>), Once(c), NEW l, l \notin Placed(c),
           NEW s, ClosedCode(s), NEW d, d = (c \o <<Lbl(l)>>) \o s
    PROVE  Adds(c, l, s, d)
<1> DEFINE n == Len(c)
           m == Len(s)
           x == Lbl(l)
<1>1. /\ n \in Nat /\ m \in Nat /\ m >= 1 /\ DOMAIN c = 1..n /\ DOMAIN s = 1..m /\ (c = <<>> <=> n = 0)
  BY SeqFacts DEF ClosedCode
<1>2. /\ IsSeq(d) /\ Len(d) = n + 1 + m /\ DOMAIN d = 1..n + 1 + m
      /\ \A i \in 1..n : d[i] = c[i]
      /\ d[n + 1] = x
      /\ \A j \in 1..m : d[n + 1 + j] = s[j]
  <2> HIDE DEF n, m, x
  <2> DEFINE e == c \o <<x>>
  <2>1. IsSeq(<<x>>) /\ Len(<<x>>) = 1 /\ <<x>>[1] = x
    BY Single
  <2>2. /\ IsSeq(e) /\ Len(e) = n + 1
        /\ (\A i \in 1..n : e[i] = c[i]) /\ \A i \in 1..Len(<<x>>) : e[n + i] = <<x>>[i]
    BY <2>1, Joined DEF n
  <2>3. e[n + 1] = x
    BY <2>1, <2>2
  <2>4. IsSeq(e) /\ IsSeq(s)
    BY <2>2 DEF ClosedCode
  <2> HIDE DEF e
  <2>5. /\ IsSeq(e \o s) /\ Len(e \o s) = Len(e) + Len(s) /\ DOMAIN (e \o s) = 1..Len(e) + Len(s)
        /\ \A i \in 1..Len(e) : (e \o s)[i] = e[i]
        /\ \A i \in 1..Len(s) : (e \o s)[Len(e) + i] = s[i]
    BY <2>4, Joined
  <2>6. d = e \o s /\ Len(s) = m
    BY DEF e, m, x
  <2>7. \A i \in 1..n + 1 : d[i] = e[i]
    BY <2>2, <2>5, <2>6
  <2>8. n + 1 \in 1..n + 1 /\ 1..n \subseteq 1..n + 1
    BY <1>1
  <2> QED
    BY <2>2, <2>3, <2>5, <2>6, <2>7, <2>8
<1>3. /\ \A i \in DOMAIN s : s[i].op # "label" /\ (Terminator(s[i]) <=> i = m)
      /\ x.op = "label" /\ x = Lbl(x.l) /\ x.l = l /\ ~ Terminator(x) /\ Targets(x) = {}
  BY DEF ClosedCode, Lbl, Terminator, Targets
<1> HIDE DEF n, m, x
<1>4. ASSUME NEW i \in DOMAIN d
      PROVE  \/ i \in 1..n /\ d[i] = c[i]
             \/ i = n + 1 /\ d[i] = x
             \/ \E j \in 1..m : i = n + 1 + j /\ d[i] = s[j]
  <2>1. CASE i <= n
    <3>1. i \in 1..n
      BY <1>1, <1>2, <2>1
    <3> QED
      BY <1>2, <3>1
  <2>2. CASE i = n + 1
    BY <1>2, <2>2
  <2>3. CASE i > n + 1
    <3> DEFINE j == i - (n + 1)
    <3>1. j \in 1..m /\ n + 1 + j = i
      BY <1>1, <1>2, <2>3
    <3> HIDE DEF j
    <3> QED
      BY <1>2, <3>1
  <2> QED
    BY <1>1, <1>2, <2>1, <2>2, <2>3
<1>5. d # <<>> /\ Terminator(d[Len(d)])
  <2>1. m \in 1..m /\ m \in DOMAIN s
    BY <1>1
  <2>2. d[n + 1 + m] = s[m] /\ Terminator(s[m])
    BY <1>2, <1>3, <2>1
  <2>3. d # <<>>
    BY <1>1, <1>2, Empty
  <2> QED
    BY <1>2, <2>2, <2>3
<1>6. ASSUME NEW i \in 1..Len(d) - 1 PROVE Terminator(d[i]) <=> d[i + 1].op = "label"
  <2>1. i \in 1..n + m /\ i \in DOMAIN d /\ i + 1 \in DOMAIN d
    BY <1>1, <1>2
  <2>2. CASE i < n
    <3>1. i \in 1..Len(c) - 1 /\ i \in 1..n /\ i + 1 \in 1..n
      BY <1>1, <2>1, <2>2 DEF n
    <3> QED
      BY <1>2, <3>1 DEF Shape
  <2>3. CASE i = n
    <3>1. c # <<>> /\ n \in 1..n
      BY <1>1, <2>1, <2>3
    <3>2. Terminator(c[n])
      BY <3>1 DEF Shape, n
    <3> QED
      BY <1>2, <1>3, <2>3, <3>1, <3>2
  <2>4. CASE i = n + 1
    <3>1. 1 \in 1..m /\ d[n + 1 + 1] = s[1]
      BY <1>1, <1>2
    <3> QED
      BY <1>1, <1>2, <1>3, <2>4, <3>1
  <2>5. CASE i > n + 1
    <3> DEFINE j == i - (n + 1)
    <3>1. j \in 1..m /\ j + 1 \in 1..m /\ n + 1 + j = i /\ n + 1 + (j + 1) = i + 1 /\ j # m
      <4>1. n \in Nat /\ m \in Nat /\ i \in 1..n + m /\ i > n + 1
        BY <1>1, <2>1, <2>5
      <4> QED
        BY <4>1
    <3> HIDE DEF j
    <3>2. d[i] = s[j] /\ d[i + 1] = s[j + 1]
      BY <1>2, <3>1
    <3> QED
      BY <1>1, <1>3, <3>1, <3>2
  <2>6. i < n \/ i = n \/ i = n + 1 \/ i > n + 1
    BY <1>1, <2>1
  <2> QED
    BY <2>2, <2>3, <2>4, <2>5, <2>6
<1>7. Shape(d, FALSE)
  BY <1>5, <1>6 DEF Shape
<1>8. ASSUME NEW i \in DOMAIN d, d[i].op = "label"
      PROVE  (i \in 1..n /\ d[i] = c[i]) \/ (i = n + 1 /\ d[i] = x)
  <2>1. \A j \in 1..m : s[j].op # "label"
    BY <1>1, <1>3
  <2> QED
    BY <1>4, <1>8, <2>1
<1>9. \A i \in 1..n : i # n + 1 /\ (c[i].op = "label" => c[i].l # l)
  <2>1. \A i \in 1..n : c[i].op = "label" => c[i].l \in Placed(c)
    BY <1>1 DEF Placed
  <2> QED
    BY <1>1, <2>1
<1>10. Once(d)
  <2>1. ASSUME NEW i \in DOMAIN d, d[i].op = "label" PROVE d[i] = Lbl(d[i].l)
    <3>1. CASE i \in 1..n /\ d[i] = c[i]
      BY <1>1, <2>1, <3>1 DEF Once
    <3>2. CASE i = n + 1 /\ d[i] = x
      BY <1>3, <3>2
    <3> QED
      BY <1>8, <2>1, <3>1, <3>2
  <2>2. ASSUME NEW i \in DOMAIN d, NEW j \in DOMAIN d, d[i].op = "label", d[j].op = "label", d[i].l = d[j].l
        PROVE  i = j
    <3>1. CASE i \in 1..n /\ j \in 1..n
      BY <1>1, <1>2, <2>2, <3>1 DEF Once
    <3>2. CASE i = n + 1 /\ d[i] = x /\ j \in 1..n
      <4>1. d[j] = c[j] /\ d[i].l = l
        BY <1>2, <1>3, <3>2
      <4> QED
        BY <1>9, <2>2, <3>2, <4>1
    <3>3. CASE j = n + 1 /\ d[j] = x /\ i \in 1..n
      <4>1. d[i] = c[i] /\ d[j].l = l
        BY <1>2, <1>3, <3>3
      <4> QED
        BY <1>9, <2>2, <3>3, <4>1
    <3> QED
      BY <1>8, <2>2, <3>1, <3>2, <3>3
  <2> QED
    BY <2>1, <2>2 DEF Once
<1>11. Placed(d) = Placed(c) \cup {l}
  <2>1. ASSUME NEW i \in DOMAIN d, d[i].op = "label" PROVE d[i].l \in Placed(c) \cup {l}
    <3>1. CASE i \in 1..n /\ d[i] = c[i]
      BY <1>1, <2>1, <3>1 DEF Placed
    <3>2. CASE i = n + 1 /\ d[i] = x
      BY <1>3, <3>2
    <3> QED
      BY <1>8, <2>1, <3>1, <3>2
  <2>2. ASSUME NEW i \in DOMAIN c, c[i].op = "label" PROVE c[i].l \in Placed(d)
    <3>1. i \in DOMAIN d /\ d[i] = c[i]
      BY <1>1, <1>2
    <3> QED
      BY <2>2, <3>1 DEF Placed
  <2>3. l \in Placed(d)
    <3>1. n + 1 \in DOMAIN d
      BY <1>1, <1>2
    <3> QED
      BY <1>2, <1>3, <3>1 DEF Placed
  <2>4. Placed(c) \subseteq Placed(d)
    BY <2>2 DEF Placed
  <2>5. Placed(d) \subseteq Placed(c) \cup {l}
    BY <2>1 DEF Placed
  <2> QED
    BY <2>3, <2>4, <2>5
<1>12. Aims(d) = Aims(c) \cup Aims(s)
  <2>1. ASSUME NEW i \in DOMAIN d PROVE Targets(d[i]) \subseteq Aims(c) \cup Aims(s)
    <3>1. CASE i \in 1..n /\ d[i] = c[i]
      BY <1>1, <3>1 DEF Aims
    <3>2. CASE i = n + 1 /\ d[i] = x
      BY <1>3, <3>2
    <3>3. CASE \E j \in 1..m : i = n + 1 + j /\ d[i] = s[j]
      BY <1>1, <3>3 DEF Aims
    <3> QED
      BY <1>4, <3>1, <3>2, <3>3
  <2>2. ASSUME NEW i \in DOMAIN c PROVE Targets(c[i]) \subseteq Aims(d)
    <3>1. i \in DOMAIN d /\ d[i] = c[i]
      BY <1>1, <1>2
    <3> QED
      BY <3>1 DEF Aims
  <2>3. ASSUME NEW j \in DOMAIN s PROVE Targets(s[j]) \subseteq Aims(d)
    <3>1. n + 1 + j \in DOMAIN d /\ d[n + 1 + j] = s[j]
      BY <1>1, <1>2
    <3> QED
      BY <3>1 DEF Aims
  <2>4. Aims(c) \subseteq Aims(d)
    BY <2>2 DEF Aims
  <2>5. Aims(s) \subseteq Aims(d)
    BY <2>3 DEF Aims
  <2>6. Aims(d) \subseteq Aims(c) \cup Aims(s)
    BY <2>1 DEF Aims
  <2> QED
    BY <2>4, <2>5, <2>6
<1> QED
  BY <1>2, <1>5, <1>7, <1>10, <1>11, <1>12 DEF Adds

LEMMA SealedIsClosed ==
    ASSUME NEW b, Sealed(b), b.term PROVE ClosedCode(b.code)
BY DEF Sealed, ClosedCode

\* Nothing is left to do: only the current block may still be open.
LEMMA JsDoneCloses ==
    ASSUME NEW tree, NEW S, NEW D, JReady(em, todo, S, D, tree), JsDone, code = <<>>
    PROVE  Printing(em', code')
<1> DEFINE L == DefinedIn(tree, D)
<1>1. todo = <<>> /\ code' = code /\ em' = IF js_term(em) THEN em ELSE EMIT(em, Ret)
  BY DEF JsDone
<1>2. JInv(em, {}, L)
  <2>1. AllDefs(todo, D, "js") = {}
    BY <1>1, Ones
  <2> QED
    BY <2>1 DEF JReady
<1>3. JBlocks(em) /\ JRec(em) /\ em.i = 1 /\ em.cur \in DOMAIN em.blocks
      /\ \A b \in DOMAIN em.blocks : em.blocks[b].term \/ b = em.cur
  BY <1>2 DEF JInv, JBlocks, JWaits
<1>4. \A b \in DOMAIN em.blocks : Sealed(em.blocks[b]) /\ Aims(em.blocks[b].code) \subseteq DOMAIN em.blocks
  BY <1>3 DEF JBlocks
<1>5. DOMAIN em.blocks = 1..Len(em.blocks) /\ Len(em.blocks) \in Nat
  BY <1>3, JBlocksFacts
<1>6. /\ IsSeq(code') /\ Shape(code', code' = <<>>) /\ Once(code') /\ Placed(code') = 1..1 - 1 /\ Aims(code') = {}
  <2>1. code' = <<>> /\ 1..1 - 1 = {}
    BY <1>1
  <2>2. Shape(<<>>, <<>> = <<>>)
    BY EmptyCode DEF Shape
  <2> QED
    BY <2>1, <2>2, Empty, EmptyCode
<1>7. CASE js_term(em)
  <2>1. \A b \in DOMAIN em.blocks : ClosedCode(em.blocks[b].code)
    BY <1>3, <1>4, <1>7, SealedIsClosed DEF js_term
  <2>2. em' = em /\ em'.i \in 1..Len(em.blocks) + 1
    BY <1>1, <1>3, <1>5, <1>7
  <2> QED
    BY <1>3, <1>4, <1>6, <2>1, <2>2 DEF Printing
<1>8. CASE ~ js_term(em)
  <2> DEFINE h == EMIT(em, Ret)
             k == em.cur
             e == [code |-> h.blocks[k].code, term |-> TRUE]
  <2>1. Wrote(em, h, Ret)
    BY <1>3, JEmit
  <2>2. Ret.op # "label" /\ Terminator(Ret) /\ Targets(Ret) = {}
    BY DEF Ret, Terminator, Targets
  <2>3. em' = h
    BY <1>1, <1>8
  <2> HIDE DEF h
  <2>4. /\ JRec(h) /\ h.i = em.i /\ Len(h.blocks) = Len(em.blocks)
        /\ \A b \in DOMAIN em.blocks : b # k => h.blocks[b] = em.blocks[b]
        /\ h.blocks[k].code = Append(em.blocks[k].code, Ret)
    BY <2>1 DEF Wrote
  <2>5. DOMAIN h.blocks = DOMAIN em.blocks
    BY <1>5, <2>4, JRecFacts
  <2>6. Sealed(em.blocks[k]) /\ ~ em.blocks[k].term
    BY <1>3, <1>4, <1>8 DEF js_term
  <2>7. e.code = h.blocks[k].code /\ e.term
    OBVIOUS
  <2> HIDE DEF e
  <2>8. Sealed(e) /\ Aims(e.code) = Aims(em.blocks[k].code) \cup Targets(Ret)
    <3>1. e.code = Append(em.blocks[k].code, Ret) /\ e.term \in BOOLEAN /\ (e.term <=> Terminator(Ret))
      <4>1. e.term = TRUE
        BY DEF e
      <4> QED
        BY <2>2, <2>4, <2>7, <4>1
    <3> DEFINE b == em.blocks[k]
    <3>2. Sealed(b) /\ ~ b.term /\ e.code = Append(b.code, Ret)
      BY <2>6, <3>1
    <3> HIDE DEF b
    <3>3. Sealed(e) /\ Aims(e.code) = Aims(b.code) \cup Targets(Ret)
      BY <2>2, <3>1, <3>2, SealedGrows
    <3> QED
      BY <3>3 DEF b
  <2>9. ClosedCode(h.blocks[k].code) /\ Aims(h.blocks[k].code) \subseteq DOMAIN h.blocks
    BY <1>3, <1>4, <2>2, <2>5, <2>7, <2>8, SealedIsClosed
  <2>10. ASSUME NEW b \in DOMAIN h.blocks
         PROVE  ClosedCode(h.blocks[b].code) /\ Aims(h.blocks[b].code) \subseteq DOMAIN h.blocks
    <3>1. CASE b = k
      BY <2>9, <3>1
    <3>2. CASE b # k
      <4>1. h.blocks[b] = em.blocks[b] /\ em.blocks[b].term /\ b \in DOMAIN em.blocks
        BY <1>3, <2>4, <2>5, <3>2
      <4> QED
        BY <1>4, <2>5, <4>1, SealedIsClosed
    <3> QED
      BY <3>1, <3>2
  <2>11. h.i \in 1..Len(h.blocks) + 1 /\ h.i = 1
    BY <1>3, <1>5, <2>4
  <2> QED
    BY <1>6, <2>3, <2>4, <2>10, <2>11 DEF Printing
<1> QED
  BY <1>7, <1>8

LEMMA JsPrintKeeps ==
    ASSUME Printing(em, code), JsPrint
    PROVE  Printing(em', code')
<1> DEFINE i == em.i
           s == em.blocks[i].code
           h == [em EXCEPT !.i = i + 1]
<1>1. em' = h /\ code' = (code \o <<Lbl(i)>>) \o s /\ i <= Len(em.blocks)
  BY DEF JsPrint
<1>2. /\ JRec(em) /\ i \in 1..Len(em.blocks) + 1 /\ Len(em.blocks) \in Nat /\ DOMAIN em.blocks = 1..Len(em.blocks)
      /\ IsSeq(code) /\ Shape(code, code = <<>>) /\ Once(code)
      /\ Placed(code) = 1..i - 1 /\ Aims(code) \subseteq DOMAIN em.blocks
  BY JRecFacts DEF Printing
<1>3. i \in DOMAIN em.blocks /\ i \notin Placed(code)
  BY <1>1, <1>2
<1>4. ClosedCode(s) /\ Aims(s) \subseteq DOMAIN em.blocks
  BY <1>3 DEF Printing
<1>5. JRec(h) /\ h.blocks = em.blocks /\ h.i = i + 1
  <2>1. PICK I, X : em \in [blocks : Seq(Blocks(I)), cur : Nat, lmap : [X -> Nat], i : Nat]
    BY <1>2 DEF JRec
  <2>2. i + 1 \in Nat
    BY <1>2
  <2>3. h \in [blocks : Seq(Blocks(I)), cur : Nat, lmap : [X -> Nat], i : Nat]
    BY <2>1, <2>2
  <2> QED
    BY <2>1, <2>3 DEF JRec
<1> HIDE DEF s, h, i
<1>6. /\ IsSeq(code') /\ code' # <<>> /\ Shape(code', FALSE) /\ Once(code')
      /\ Placed(code') = Placed(code) \cup {i} /\ Aims(code') = Aims(code) \cup Aims(s)
  <2>1. Adds(code, i, s, code')
    BY <1>1, <1>2, <1>3, <1>4, CasePrinted
  <2> QED
    BY <2>1 DEF Adds
<1>7. Placed(code') = 1..(i + 1) - 1 /\ i + 1 \in 1..Len(em.blocks) + 1
  <2>1. (1..i - 1) \cup {i} = 1..(i + 1) - 1
    BY <1>2, <1>3
  <2> QED
    BY <1>2, <1>3, <1>6, <2>1
<1>8. Shape(code', code' = <<>>)
  BY <1>6 DEF Shape
<1>9. \A b \in DOMAIN em.blocks : ClosedCode(em.blocks[b].code) /\ Aims(em.blocks[b].code) \subseteq DOMAIN em.blocks
  BY DEF Printing
<1> QED
  BY <1>1, <1>2, <1>4, <1>5, <1>6, <1>7, <1>8, <1>9 DEF Printing

LEMMA JsPrintedCloses ==
    ASSUME Printing(em, code), JsPrinted
    PROVE  Finished(code')
<1> DEFINE i == em.i
           s == <<Ret>>
<1>1. code' = code \o <<Lbl(i), Ret>> /\ i > Len(em.blocks)
  BY DEF JsPrinted
<1>2. /\ i \in 1..Len(em.blocks) + 1 /\ Len(em.blocks) \in Nat /\ DOMAIN em.blocks = 1..Len(em.blocks)
      /\ IsSeq(code) /\ Shape(code, code = <<>>) /\ Once(code)
      /\ Placed(code) = 1..i - 1 /\ Aims(code) \subseteq DOMAIN em.blocks
  BY JRecFacts DEF Printing
<1>3. i = Len(em.blocks) + 1 /\ i \notin Placed(code)
  BY <1>1, <1>2
<1>4. ClosedCode(s) /\ Aims(s) = {}
  BY Single DEF ClosedCode, Ret, Terminator, Aims, Targets
<1>5. code' = (code \o <<Lbl(i)>>) \o s
  <2>1. PICK I : code \in Seq(I)
    BY <1>2 DEF IsSeq
  <2> DEFINE J == I \cup {Lbl(i), Ret}
  <2>2. code \in Seq(J) /\ <<Lbl(i)>> \in Seq(J) /\ s \in Seq(J)
    BY <2>1, SeqMonotonic
  <2>3. <<Lbl(i), Ret>> = <<Lbl(i)>> \o s
    OBVIOUS
  <2> HIDE DEF J, s
  <2> QED
    BY <1>1, <2>2, <2>3, ConcatAssociative
<1> HIDE DEF s, i
<1>6. /\ IsSeq(code') /\ Shape(code', FALSE) /\ Once(code')
      /\ Placed(code') = Placed(code) \cup {i} /\ Aims(code') = Aims(code) \cup Aims(s)
  <2>1. Adds(code, i, s, code')
    BY <1>2, <1>3, <1>4, <1>5, CasePrinted
  <2> QED
    BY <2>1 DEF Adds
<1>7. DOMAIN em.blocks \subseteq Placed(code')
  BY <1>2, <1>3, <1>6
<1> QED
  BY <1>2, <1>4, <1>6, <1>7 DEF Finished

-----------------------------------------------------------------------------
(* JavaScript: the theorems.                                               *)

JsInv(tree, S, D) == /\ Runs /\ phase \in {"emit", "print", "toobig", "run", "done", "starved"}
                     /\ phase \in {"emit", "toobig"} => code = <<>>
                     /\ phase = "emit" => JReady(em, todo, S, D, tree)
                     /\ phase = "print" => Printing(em, code)

LEMMA JsStartsReady ==
    ASSUME NEW tree, NEW S, NEW D, Labelling(tree, S, D)
    PROVE  JReady(JsStart, tree, S, D, tree)
<1> DEFINE N == LabelNames(DefinedIn(tree, D))
           L == DefinedIn(tree, D)
           g == JsStart
<1>1. Piece(tree, S, D, "js", N, {}) /\ tree \in Seq(S)
  <2>1. tree \in Seq(S) /\ DefinedOnce(tree, D) /\ Statements(S)
    BY DEF Labelling, Statements
  <2> QED
    BY <2>1, WorkBody DEF Piece
<1>2. /\ g.blocks = <<Blk>> /\ g.cur = 1 /\ g.i = 1 /\ DOMAIN g.lmap = {}
      /\ g = [blocks |-> <<Blk>>, cur |-> 1, lmap |-> [l \in {} |-> 0], i |-> 1]
  BY DEF JsStart
<1> HIDE DEF g
<1>3. JRec(g)
  <2>1. <<>> \in Seq({})
    BY EmptySeq
  <2>2. Blk \in Blocks({})
    BY <2>1 DEF Blk, Blocks
  <2>3. <<Blk>> \in Seq(Blocks({}))
    BY <2>2
  <2>4. [l \in {} |-> 0] \in [{} -> Nat]
    OBVIOUS
  <2>5. g \in [blocks : Seq(Blocks({})), cur : Nat, lmap : [{} -> Nat], i : Nat]
    BY <1>2, <2>3, <2>4
  <2> QED
    BY <2>5 DEF JRec
<1>4. DOMAIN g.blocks = {1} /\ g.blocks[1] = Blk
  BY <1>2, Single
<1>5. Sealed(Blk) /\ Aims(Blk.code) = {} /\ ~ Blk.term
  BY Empty DEF Blk, Sealed, Aims
<1>6. JBlocks(g)
  BY <1>2, <1>3, <1>4, <1>5 DEF JBlocks
<1>7. \A x \in N : \A b : ~ Waits(g, x, b)
  <2>1. \A x \in N : \A b : x # Block(b)
    BY Names DEF LabelNames
  <2> QED
    BY <1>2, <2>1 DEF Waits
<1>8. JWaits(g, N)
  BY <1>2, <1>4, <1>7 DEF JWaits
<1>9. JLabels(g, N, L)
  BY DEF JLabels, LabelNames
<1>10. JInv(g, N, L)
  BY <1>6, <1>8, <1>9 DEF JInv
<1>11. Led(g, tree)
  BY <1>1, NoLoopsBody, NoLoopsLed
<1> QED
  BY <1>1, <1>10, <1>11 DEF JReady, Piece, g

LEMMA JsStarts ==
    ASSUME NEW tree, NEW S, NEW D, Labelling(tree, S, D), JsInit(tree)
    PROVE  JsInv(tree, S, D)
<1>1. em = JsStart /\ todo = tree /\ phase = "emit" /\ code = <<>> /\ pc = 1 /\ ins = <<>>
  BY DEF JsInit, Idling
<1>2. ins \in Seq(Vals) /\ Len(ins) <= MaxInputs
  BY <1>1, Empty, EmptySeq, LinearAssumption
<1> QED
  BY <1>1, <1>2, JsStartsReady DEF JsInv, Runs

LEMMA JsKeeps ==
    ASSUME NEW tree, NEW S, NEW D, Labelling(tree, S, D), JsInv(tree, S, D), [JsNext]_lvars
    PROVE  JsInv(tree, S, D)'
<1>1. CASE Exec
  <2>1. Runs'
    BY <1>1, ExecRuns DEF JsInv
  <2>2. phase' \in {"run", "done", "starved"}
    BY <1>1 DEF Exec, ExecLabel, ExecBr, ExecRet, ExecOut, ExecSet, ExecRead, ExecAsk, ExecTest, Starve,
         Wanting, At, Onwards, JsInv
  <2> QED
    BY <2>1, <2>2 DEF JsInv
<1>2. CASE JsDone
  <2>1. /\ phase = "emit" /\ phase' = "print" /\ ins' = ins /\ pc' = pc /\ pc = 1
        /\ ins \in Seq(Vals) /\ Len(ins) <= MaxInputs /\ JReady(em, todo, S, D, tree) /\ code = <<>>
    BY <1>2 DEF JsDone, run, JsInv, Runs
  <2>2. Printing(em', code')
    BY <1>2, <2>1, JsDoneCloses
  <2> QED
    BY <2>1, <2>2 DEF JsInv, Runs
<1>3. CASE JsPrint
  <2>1. /\ phase = "print" /\ phase' = "print" /\ ins' = ins /\ pc' = pc /\ pc = 1
        /\ ins \in Seq(Vals) /\ Len(ins) <= MaxInputs /\ Printing(em, code)
    BY <1>3 DEF JsPrint, run, JsInv, Runs
  <2>2. Printing(em', code')
    BY <1>3, <2>1, JsPrintKeeps
  <2> QED
    BY <2>1, <2>2 DEF JsInv, Runs
<1>4. CASE JsPrinted
  <2>1. /\ phase = "print" /\ phase' = "run" /\ ins' = ins /\ pc' = pc /\ pc = 1
        /\ ins \in Seq(Vals) /\ Len(ins) <= MaxInputs /\ Printing(em, code)
    BY <1>4 DEF JsPrinted, run, JsInv, Runs
  <2>2. Finished(code')
    BY <1>4, <2>1, JsPrintedCloses
  <2>3. 1 \in DOMAIN code'
    <3>1. Len(code') \in Nat /\ DOMAIN code' = 1..Len(code') /\ (code' = <<>> <=> Len(code') = 0)
      BY <2>2, SeqFacts DEF Finished
    <3>2. code' # <<>>
      BY <2>2 DEF Finished, Shape
    <3> QED
      BY <3>1, <3>2
  <2> QED
    BY <2>1, <2>2, <2>3 DEF JsInv, Runs
<1>5. ASSUME JsStep, ~ JsDone, ~ JsPrint, ~ JsPrinted PROVE JsInv(tree, S, D)'
  <2>1. phase = "emit" /\ phase' \in {"emit", "toobig"} /\ UNCHANGED <<code, pc, env, ins, out>>
    BY <1>5 DEF JsStep, JsExprStmt, JsBlock, JsReturn, JsGoto, JsLabel, JsIf, JsLoop, JsHead, JsInc,
                JsDo, JsTest, JsJoin, Emitting, JsDoes, run
  <2>2. JReady(em, todo, S, D, tree) /\ code = <<>>
    BY <2>1 DEF JsInv
  <2>3. JReady(em', todo', S, D, tree)
    BY <1>5, <2>2, JsExprStmtKeeps, JsBlockKeeps, JsReturnKeeps, JsGotoKeeps, JsLabelKeeps, JsIfKeeps,
       JsLoopKeeps, JsHeadKeeps, JsIncKeeps, JsDoKeeps, JsTestKeeps, JsJoinKeeps DEF JsStep
  <2>4. Runs'
    BY <2>1 DEF JsInv, Runs
  <2> QED
    BY <2>1, <2>2, <2>3, <2>4 DEF JsInv
<1>6. CASE UNCHANGED lvars
  BY <1>6 DEF lvars, emission, run, JsInv, Runs, JReady, Printing
<1> QED
  BY <1>1, <1>2, <1>3, <1>4, <1>5, <1>6 DEF JsNext

LEMMA JsInvShows ==
    ASSUME NEW tree, NEW S, NEW D, JsInv(tree, S, D)
    PROVE  TypeOK /\ BlocksClosed
<1>1. CASE phase = "run"
  BY <1>1, FinishedCloses DEF JsInv, Runs, TypeOK
<1>2. CASE phase # "run"
  BY <1>2 DEF JsInv, Runs, TypeOK, BlocksClosed
<1> QED
  BY <1>1, <1>2

\* The JavaScript backend ends every block of a function with gotos by a jump
\* or a return, so that no case of the switch runs into the next, and a jump
\* finds exactly one case (back_js.c: js_open, jump_if_open, label_block).
THEOREM JsBlocksClosed ==
    ASSUME NEW CONSTANT tree, WellLabelled(tree)
    PROVE  JsSpec(tree) => []BlocksClosed
<1>1. ASSUME NEW CONSTANT S, NEW CONSTANT D, Labelling(tree, S, D)
      PROVE  JsSpec(tree) => []BlocksClosed
  <2>1. JsInit(tree) => JsInv(tree, S, D)
    BY <1>1, JsStarts
  <2>2. JsInv(tree, S, D) /\ [JsNext]_lvars => JsInv(tree, S, D)'
    BY <1>1, JsKeeps
  <2>3. JsInv(tree, S, D) => BlocksClosed
    BY JsInvShows
  <2> QED
    BY <2>1, <2>2, <2>3, PTL DEF JsSpec
<1> QED
  BY <1>1 DEF WellLabelled

\* The switch never falls out of its last case, and every value of the block
\* counter that a jump sets has a case (back_js.c: emit_func, after the body).
THEOREM JsStaysInCode ==
    ASSUME NEW CONSTANT tree, WellLabelled(tree)
    PROVE  JsSpec(tree) => []TypeOK
<1>1. ASSUME NEW CONSTANT S, NEW CONSTANT D, Labelling(tree, S, D)
      PROVE  JsSpec(tree) => []TypeOK
  <2>1. JsInit(tree) => JsInv(tree, S, D)
    BY <1>1, JsStarts
  <2>2. JsInv(tree, S, D) /\ [JsNext]_lvars => JsInv(tree, S, D)'
    BY <1>1, JsKeeps
  <2>3. JsInv(tree, S, D) => TypeOK
    BY JsInvShows
  <2> QED
    BY <2>1, <2>2, <2>3, PTL DEF JsSpec
<1> QED
  BY <1>1 DEF WellLabelled
=============================================================================
