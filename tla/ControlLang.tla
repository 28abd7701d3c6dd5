---------------------------- MODULE ControlLang ----------------------------
(***************************************************************************)
(* The statements that move control, and what they promise.                *)
(*                                                                         *)
(* Run is the meaning of a statement "as in C" (doc/language.md:255-279):  *)
(* a goto ends every enclosing statement and the function body is entered  *)
(* again at the label.  No labels are made up and nothing is flattened, so *)
(* it is independent of how the parser and the backends work.              *)
(***************************************************************************)
EXTENDS ControlTree, SequencesExt, TLC

\* F(x); a bound variable has a value, so TLC evaluates x before F.
Then(x, F(_)) == CHOOSE y \in {F(v) : v \in {x}} : TRUE

\* The statements directly inside a statement.
Parts(s) == FlattenSeq(Bodies(s))

RECURSIVE Has(_, _)
Has(s, l) == (s.k = "label" /\ s.l = l) \/ \E i \in DOMAIN Parts(s) : Has(Parts(s)[i], l)
HasIn(ss, l) == \E i \in DOMAIN ss : Has(ss[i], l)

\* Every statement of ss, the nested ones included.
RECURSIVE Within(_)
Within(ss) == UNION {{ss[i]} \cup Within(Parts(ss[i])) : i \in DOMAIN ss}

(***************************************************************************)
(* Cases of a switch body, by position.                                    *)
(***************************************************************************)
IsCase(s) == s.k = "case"
RECURSIVE CaseLo(_, _), CaseHi(_, _)
CasesBefore(ss, i) == {j \in 1 .. i - 1 : IsCase(ss[j])}
Latest(J) == CHOOSE j \in J : \A n \in J : n <= j
Earliest(J) == CHOOSE j \in J : \A n \in J : j <= n
CaseLo(ss, i) ==
    IF ss[i].vals # <<>> THEN ss[i].vals[1]
    ELSE IF CasesBefore(ss, i) = {} THEN 0
    ELSE CaseHi(ss, Latest(CasesBefore(ss, i))) + 1
CaseHi(ss, i) == IF ss[i].vals # <<>> THEN ss[i].vals[2] ELSE CaseLo(ss, i)

\* The start: of the group that position i lies in, 0 outside groups.
GroupOf(ss, i) ==
    LET J == {j \in 1 .. i - 1 : ss[j].k \in {"start", "end"}}
    IN IF J = {} \/ ss[Latest(J)].k = "end" THEN 0 ELSE Latest(J)
GroupCases(ss, g) == {j \in DOMAIN ss : IsCase(ss[j]) /\ GroupOf(ss, j) = g}
GroupEnd(ss, g) == Earliest({j \in DOMAIN ss : j > g /\ ss[j].k = "end"})

(***************************************************************************)
(* Execution.  how: "run", or why the statement ended early.               *)
(***************************************************************************)
Start(ins) == [out |-> <<>>, ins |-> ins, env |-> <<>>, how |-> "run", to |-> NoLabel]
Event(st, e) == [st EXCEPT !.out = Append(@, e)]
Leave(st, how, l) == [st EXCEPT !.how = how, !.to = l]
Bind(st, v, n) == [st EXCEPT !.env = (v :> n) @@ @]

RECURSIVE Run(_, _, _), RunFrom(_, _, _, _), Loop(_, _), RunSwitch(_, _, _, _)

\* Statements of ss from position i; at names the label to enter at, if any.
RunFrom(ss, i, at, st) ==
    IF i > Len(ss) THEN st
    ELSE IF at # NoLabel /\ ~ Has(ss[i], at) THEN RunFrom(ss, i + 1, at, st)
    ELSE LET r == Run(ss[i], at, st)
         IN IF r.how = "run" THEN RunFrom(ss, i + 1, NoLabel, r) ELSE r

\* A condition's value, and the state after it.
Test(c, st) ==
    CASE c.t = "in" -> <<Value(st.env, c.v) \in c.lo .. c.hi, st>>
      [] c.t = "always" -> <<TRUE, st>>
      [] c.t = "ask" /\ st.ins = <<>> -> <<FALSE, Leave(st, "starved", NoLabel)>>
      [] OTHER -> <<Head(st.ins) # 0, [st EXCEPT !.ins = Tail(@)]>>

\* One pass of a loop has ended in r; whether it goes round again.
Broken(r) == IF r.how = "break" THEN Leave(r, "run", NoLabel) ELSE r
Again(s, r) ==
    IF r.how # "run" THEN Broken(r)
    ELSE Loop(s, RunFrom(s.inc, 1, NoLabel, r))
Loop(s, st) ==
    LET t == Test(s.cond, st) IN
    IF t[2].how # "run" \/ ~ t[1] THEN t[2]
    ELSE Again(s, RunFrom(s.body, 1, NoLabel, t[2]))

\* Positions of a switch body from i on; break leaves the group or the switch.
RunSwitch(ss, i, at, st) ==
    LET r == Run(ss[i], at, st)
        g == GroupOf(ss, i)
    IN IF i > Len(ss) THEN st
       ELSE IF r.how = "run" THEN RunSwitch(ss, i + 1, NoLabel, r)
       ELSE IF r.how # "break" THEN r
       ELSE IF g = 0 THEN Broken(r)
       ELSE RunSwitch(ss, GroupEnd(ss, g), NoLabel, Broken(r))

\* The porch of a group stands before its first case and runs before the case.
Porch(ss, g) == SubSeq(ss, g + 1, Earliest(GroupCases(ss, g)) - 1)
ViaPorch(ss, g, i, st) ==
    LET r == RunFrom(Porch(ss, g), 1, NoLabel, st) IN
    CASE r.how = "run" -> RunSwitch(ss, i, NoLabel, r)
      [] r.how = "break" -> RunSwitch(ss, GroupEnd(ss, g), NoLabel, Broken(r))
      [] OTHER -> r

\* The first case that holds the value, then default:, which has no porch.
Dispatch(ss, v, st) ==
    LET Match == {i \in DOMAIN ss : IsCase(ss[i]) /\ v \in CaseLo(ss, i) .. CaseHi(ss, i)}
        Default == {i \in DOMAIN ss : ss[i].k = "default"}
    IN IF Match # {}
       THEN LET i == Earliest(Match)
                g == GroupOf(ss, i)
            IN IF g = 0 THEN RunSwitch(ss, i, NoLabel, st) ELSE ViaPorch(ss, g, i, st)
       ELSE IF Default # {} THEN RunSwitch(ss, Latest(Default), NoLabel, st)
       ELSE st

Run(s, at, st) ==
    CASE s.k = "out" -> Event(st, <<s.e, s.by>>)
      [] s.k = "set" -> Bind(st, s.v, s.n)
      [] s.k = "read" -> IF st.ins = <<>> THEN Leave(st, "starved", NoLabel)
                         ELSE Bind([st EXCEPT !.ins = Tail(@)], s.v, Head(st.ins))
      [] s.k \in {"break", "return"} -> Leave(st, s.k, NoLabel)
      [] s.k = "goto" -> Leave(st, "goto", s.l)
      [] s.k = "block" -> RunFrom(s.body, 1, at, st)
      [] s.k = "if" ->
           IF at # NoLabel
           THEN RunFrom(IF HasIn(s.then, at) THEN s.then ELSE s.els, 1, at, st)
           ELSE LET t == Test(s.cond, st) IN
                IF t[2].how # "run" THEN t[2]
                ELSE RunFrom(IF t[1] THEN s.then ELSE s.els, 1, NoLabel, t[2])
      [] s.k \in Loops ->
           IF at # NoLabel \/ s.k = "do" THEN Again(s, RunFrom(s.body, 1, at, st))
           ELSE LET r == RunFrom(s.init, 1, NoLabel, st) IN Loop(s, r)
      [] s.k = "switch" ->
           IF at # NoLabel
           THEN LET i == Earliest({j \in DOMAIN s.body : Has(s.body[j], at)})
                IN RunSwitch(s.body, i, at, st)
           ELSE IF st.ins = <<>> THEN Leave(st, "starved", NoLabel)
           ELSE Dispatch(s.body, Head(st.ins), [st EXCEPT !.ins = Tail(@)])
      [] OTHER -> st   \* labels and the case labels of a switch

RECURSIVE Enter(_, _, _)
Enter(body, at, st) ==
    LET r == RunFrom(body, 1, at, st)
    IN IF r.how = "goto" THEN Enter(body, r.to, Leave(r, "run", NoLabel)) ELSE r

(***************************************************************************)
(* Functions that mean something: break stands in a loop or a switch,      *)
(* groups open and close in turn, and a goto has a label to go to.         *)
(***************************************************************************)
RECURSIVE BreaksInside(_)
BreaksInside(ss) ==
    \A i \in DOMAIN ss :
      /\ ss[i].k # "break"
      /\ ss[i].k \notin Loops \cup {"switch"} => BreaksInside(Parts(ss[i]))
GroupsPaired(ss, max) ==
    LET marks == SelectSeq(ss, LAMBDA s : s.k \in {"start", "end"}) IN
    /\ Len(marks) % 2 = 0 /\ Len(marks) \div 2 <= max
    /\ \A i \in DOMAIN marks : marks[i].k = IF i % 2 = 1 THEN "start" ELSE "end"
Legal(body, max) ==
    /\ BreaksInside(body)
    /\ \A s \in Within(body) : /\ s.k = "switch" => GroupsPaired(s.body, max)
                               /\ s.k = "goto" => HasIn(body, s.l)

\* What a function with this body does with the inputs ins.
Meaning(body, ins) == Enter(body, NoLabel, Start(ins))
=============================================================================
