----------------------------- MODULE MCControl -----------------------------
(* Functions for Control, built from a small grammar. *)
EXTENDS Control

Out == [k |-> "out", by |-> 0]
Bump(n) == [k |-> "out", by |-> n]   \* v++ where v points to n bytes
Brk == [k |-> "break"]
Rtn == [k |-> "return"]
Lab == [k |-> "label", l |-> UserLabel]
If(a, b) == [k |-> "if", cond |-> Ask, then |-> a, els |-> b]
Go == If(<<[k |-> "goto", l |-> UserLabel]>>, <<>>)
IfBrk == If(<<Brk>>, <<>>)
Compound(a) == [k |-> "block", body |-> a]
AnyLoop(k, init, c, inc, b) == [k |-> k, init |-> init, cond |-> c, inc |-> inc, body |-> b]
While(b) == AnyLoop("while", <<>>, Ask, <<>>, b)
Do(b) == AnyLoop("do", <<>>, Ask, <<>>, b)
For(init, inc, b) == AnyLoop("for", init, Ask, inc, b)
Forever(inc, b) == AnyLoop("for", <<>>, [t |-> "always"], inc, <<IfBrk>> \o b)
Switch(b) == [k |-> "switch", body |-> b]
Case == [k |-> "case", vals |-> <<>>]
Cases(lo, hi) == [k |-> "case", vals |-> <<lo, hi>>]
Default == [k |-> "default"]
GrpStart == [k |-> "start"]
GrpEnd == [k |-> "end"]

\* Names for the outs, loops and switches: their places in the function.
RECURSIVE Tag(_, _), TagAll(_, _)
TagAll(ss, path) == [i \in DOMAIN ss |-> Tag(ss[i], Append(path, i))]
Tag(s, path) ==
    CASE s.k = "out" -> [k |-> "out", by |-> s.by, e |-> path]
      [] s.k = "if" -> [s EXCEPT !.then = TagAll(@, path \o <<1>>), !.els = TagAll(@, path \o <<2>>)]
      [] s.k \in Loops -> [k |-> s.k, cond |-> s.cond, id |-> path,
                           init |-> TagAll(s.init, path \o <<1>>),
                           inc |-> TagAll(s.inc, path \o <<2>>),
                           body |-> TagAll(s.body, path \o <<3>>)]
      [] s.k = "switch" -> [k |-> "switch", id |-> path, body |-> TagAll(s.body, path)]
      [] s.k = "block" -> [s EXCEPT !.body = TagAll(@, path)]
      [] OTHER -> s
Tagged(S) == {TagAll(ss, <<>>) : ss \in S}

Short == {<<>>, <<Out>>, <<Out, IfBrk>>, <<Out, Brk>>, <<IfBrk, Out>>, <<If(<<Rtn>>, <<Brk>>), Out>>,
          <<If(<<Out>>, <<Out, Brk>>), Out>>, <<Rtn, Out>>, <<Compound(<<Out, IfBrk>>), Out>>}
Incs == {<<>>, <<Out>>, <<Bump(1)>>}
LoopsOver(b) == {While(b), Do(b), For(<<Out>>, <<Bump(1)>>, b), For(<<>>, <<Out>>, b), Forever(<<Out>>, b)}
AllLoops == UNION {LoopsOver(b) : b \in Short}
Looping == {<<>>} \cup {<<l, Out>> : l \in AllLoops} \cup {<<For(<<Out, Out>>, inc, b)>> : inc \in Incs, b \in Short}
             \cup {<<While(<<Out, l, IfBrk>>)>> : l \in {While(<<Brk>>), Do(<<IfBrk, Out>>), Forever(<<>>, <<Out>>)}}

\* goto forwards and backwards, into, out of and between loops.
Jumping ==
    {<<Lab, Out, Go>>, <<Go, Out, Lab>>, <<Go, Out>>, <<Brk, Out>>, <<Out, Rtn, Lab, Out>>,
     <<If(<<Go, Out>>, <<Lab, Out>>), Out>>, <<Out, Go, Rtn, Lab>>}
      \cup {<<Go, l, Out>> : l \in LoopsOver(<<Out, Lab, Out>>) \cup LoopsOver(<<Out, Brk, Lab>>)}
      \cup {<<While(<<l, Out>>), Out, Lab, Out>> : l \in LoopsOver(<<Go, Out>>)}

\* Every switch body of up to SwLen items.
CONSTANT SwLen
Items == {Case, Cases(1, 2), Default, GrpStart, GrpEnd, Out, Brk}
One(ss, k) == Cardinality({i \in DOMAIN ss : ss[i].k = k}) <= 1
Bodied == {ss \in BoundedSeq(Items, SwLen) :
             /\ One(ss, "default")
             /\ Len(ss) > 0 => ss[1].k \notin {"out", "break"}
             /\ \A i \in 1 .. Len(ss) - 1 : ss[i].k \in {"out", "break"} => ss[i + 1].k \notin {"out", "break"}}
Grouped ==
    {<<Case, Out, GrpStart, Out, Case, Out, Case, Out, Brk, GrpEnd, Out>>,
     <<GrpStart, Out, IfBrk, Cases(0, 0), Out, Default, Out, GrpEnd, Out, Brk, Case, Out>>,
     <<GrpStart, Out, Cases(2, 2), Out, Brk, Case, GrpEnd, Out, GrpStart, Out, Cases(0, 1), Out, GrpEnd, Out>>,
     <<GrpStart, Out, Case, While(<<Out, Brk>>), Brk, Case, Out, GrpEnd, Out>>,
     <<GrpStart, Switch(<<Case, Out, GrpStart, Out, Case, Out, Brk, Case, GrpEnd, Out>>), Case, Brk, Case, Out, GrpEnd, Out>>,
     <<Case, Switch(<<Case, Out, Brk, Default, IfBrk, Out>>), Out, Brk, Case, Out>>,
     <<Case, Out, Go, Brk, Case, Out, Brk, Default, Lab, Out>>,
     <<GrpStart, Out, GrpEnd, GrpStart, GrpStart, GrpEnd, GrpEnd>>,
     <<GrpStart, Case, GrpEnd, GrpStart, Case, Out, GrpEnd, GrpStart, Out, Case, GrpEnd>>}
Switching == {<<Switch(b), Out>> : b \in Bodied} \cup {<<While(<<Switch(b), Out>>)>> : b \in Grouped}
               \cup {<<Switch(b), Out>> : b \in Grouped}

\* More labels than the JavaScript backend has room for.
Large == {[i \in 1 .. MaxLabels + 1 |-> While(<<Brk>>)]}

\* A for loop with two initialisers that steps a wide pointer.
ForClauses == {<<For(<<Out, Out>>, <<Bump(8)>>, <<Out>>)>>}

MCPrograms == Tagged(Looping \cup Jumping \cup Switching \cup Large)
MCForClauses == Tagged(ForClauses)
=============================================================================
