---------------------------- MODULE ControlParse ----------------------------
(***************************************************************************)
(* The parser's lowering of control flow (src/parse.c): loops get an end   *)
(* label, break becomes a goto, and switch becomes a chain of tests and    *)
(* gotos in front of its body.  The result is the tree the backends get.   *)
(* A diagnostic (error_tok) ends the compilation: it is an "error" node,   *)
(* and a tree with one is rejected.                                        *)
(***************************************************************************)
EXTENDS ControlLang

CONSTANT MaxGroups   \* start:/end: groups of one switch (64 in the code)
ASSUME GroupsAssumption == MaxGroups \in Nat \ {0}

Error == [k |-> "error"]
Block(body) == [k |-> "block", body |-> body]
new_goto(l) == [k |-> "goto", l |-> l]
new_labelstmt(l) == [k |-> "label", l |-> l]
new_if(c, then) == [k |-> "if", cond |-> c, then |-> then, els |-> <<>>]
new_assign(v, n) == [k |-> "set", v |-> v, n |-> n]

\* label_counter makes names unique; here the statement and a number within it do.
new_label(hint, id, n) == <<hint, id, n>>
swval(id) == <<"swval", id>>
grp_var(id) == <<"grp", id>>

\* for (I64 i=.., j=..;;): more than one initialiser makes a block.
local_decl(init) == IF Len(init) > 1 THEN <<Block(init)>> ELSE init

(***************************************************************************)
(* switch, first pass: one step per item of the body.                      *)
(***************************************************************************)
SwInit(exit) ==
    [cases |-> <<>>, next_case_val |-> 0, ngroups |-> 0, cur_group |-> -1,
     in_porch |-> FALSE, chain |-> <<>>, break_label |-> exit]
sw_append(sw, nodes) == [sw EXCEPT !.chain = @ \o nodes]

porch_label(id, g) == new_label("porch", id, g)
gend_label(id, g) == new_label("gend", id, g)
Anchor(g) == [k |-> "anchor", g |-> g]

sw_case(sw, s, id) ==
    LET lo == IF s.vals = <<>> THEN sw.next_case_val ELSE s.vals[1]
        hi == IF s.vals = <<>> THEN lo ELSE s.vals[2]
        l == new_label("case", id, Len(sw.cases))
        first == sw.cur_group >= 0 /\ sw.in_porch
    IN sw_append([sw EXCEPT
          !.next_case_val = hi + 1,
          !.cases = Append(@, [lo |-> lo, hi |-> hi, is_default |-> FALSE,
                               label |-> l, group |-> sw.cur_group]),
          !.in_porch = @ /\ ~ first],
        (IF first THEN <<Anchor(sw.cur_group)>> ELSE <<>>) \o <<new_labelstmt(l)>>)

sw_default(sw, id) ==
    LET l == new_label("default", id, Len(sw.cases))
    IN sw_append([sw EXCEPT
          !.cases = Append(@, [lo |-> 0, hi |-> 0, is_default |-> TRUE,
                               label |-> l, group |-> sw.cur_group])],
        <<new_labelstmt(l)>>)

\* Mutant: falling into the porch keeps the case selected before.
sw_start_keeps(sw, id) ==
    LET g == sw.ngroups IN
    IF sw.cur_group >= 0 \/ g >= MaxGroups THEN sw_append(sw, <<Error>>)
    ELSE sw_append([sw EXCEPT !.cur_group = g, !.ngroups = g + 1, !.in_porch = TRUE,
                              !.break_label = gend_label(id, g)],
                   <<new_labelstmt(porch_label(id, g))>>)

\* Mutant: a group may open inside a group.
sw_start_nests(sw, id) ==
    LET g == sw.ngroups IN
    IF g >= MaxGroups THEN sw_append(sw, <<Error>>)
    ELSE sw_append([sw EXCEPT !.cur_group = g, !.ngroups = g + 1, !.in_porch = TRUE,
                              !.break_label = gend_label(id, g)],
                   <<new_assign(grp_var(id), -1), new_labelstmt(porch_label(id, g))>>)

\* Falling into the porch selects the group's first case.
sw_start(sw, id) ==
    LET g == sw.ngroups IN
    IF sw.cur_group >= 0 \/ g >= MaxGroups THEN sw_append(sw, <<Error>>)
    ELSE sw_append([sw EXCEPT !.cur_group = g, !.ngroups = g + 1, !.in_porch = TRUE,
                              !.break_label = gend_label(id, g)],
                   <<new_assign(grp_var(id), -1), new_labelstmt(porch_label(id, g))>>)

sw_end(sw, id, exit) ==
    IF sw.cur_group < 0 THEN sw_append(sw, <<Error>>)
    ELSE sw_append([sw EXCEPT !.cur_group = -1, !.break_label = exit],
                   <<new_labelstmt(gend_label(id, sw.cur_group))>>)

(***************************************************************************)
(* switch, second pass: the tests before the body, and in each porch.      *)
(***************************************************************************)
default_label(cases, exit) ==
    LET D == {i \in DOMAIN cases : cases[i].is_default}
    IN IF D = {} THEN exit ELSE cases[Latest(D)].label

\* The number of a case among the cases of its group.
IndexInGroup(cases, i) ==
    Cardinality({j \in 1 .. i - 1 : cases[j].group = cases[i].group /\ ~ cases[j].is_default})

dispatch_case(cases, i, id) ==
    LET c == cases[i] IN
    IF c.is_default THEN <<>>
    ELSE <<new_if(In(swval(id), c.lo, c.hi),
                  IF c.group < 0 THEN <<new_goto(c.label)>>
                  ELSE <<new_assign(grp_var(id), IndexInGroup(cases, i)),
                         new_goto(porch_label(id, c.group))>>)>>
dispatch(cases, id) == FlattenSeq([i \in DOMAIN cases |-> dispatch_case(cases, i, id)])

\* -1 matches no test and falls to the first case, which follows the anchor.
porch_test(cases, g, i, id) ==
    LET c == cases[i]
        n == IndexInGroup(cases, i)
    IN IF c.group # g \/ c.is_default THEN <<>>
       ELSE <<new_if(In(grp_var(id), n, n), <<new_goto(c.label)>>)>>
splice(chain, cases, id) ==
    FlattenSeq([j \in DOMAIN chain |->
        IF chain[j].k # "anchor" THEN <<chain[j]>>
        ELSE FlattenSeq([i \in DOMAIN cases |-> porch_test(cases, chain[j].g, i, id)])])

sw_build(sw, id, exit) ==
    Block(<<[k |-> "read", v |-> swval(id)]>>
            \o dispatch(sw.cases, id)
            \o <<new_goto(default_label(sw.cases, exit))>>
            \o splice(sw.chain, sw.cases, id)
            \o <<new_labelstmt(exit)>>)

(***************************************************************************)
(* Statements.  brk is ps->break_label while the statement is parsed.      *)
(***************************************************************************)
RECURSIVE stmt(_, _), block_stmt(_, _), switch_stmt(_)

block_stmt(ss, brk) == FlattenSeq([i \in DOMAIN ss |-> stmt(ss[i], brk)])

sw_item(sw, s, id, exit) ==
    CASE s.k = "case" -> sw_case(sw, s, id)
      [] s.k = "default" -> sw_default(sw, id)
      [] s.k = "start" -> sw_start(sw, id)
      [] s.k = "end" -> sw_end(sw, id, exit)
      [] OTHER -> sw_append(sw, stmt(s, sw.break_label))

switch_stmt(s) ==
    LET exit == new_label("swend", s.id, 0)
        sw == FoldLeft(LAMBDA w, item : sw_item(w, item, s.id, exit), SwInit(exit), s.body)
    IN IF sw.cur_group >= 0 THEN Error ELSE sw_build(sw, s.id, exit)

break_stmt(brk) == IF brk = NoLabel THEN Error ELSE new_goto(brk)

loop_stmt(s) ==
    LET hint == CASE s.k = "while" -> "wend" [] s.k = "do" -> "dend" [] OTHER -> "fend"
        end == new_label(hint, s.id, 0)
    IN Block(<<[s EXCEPT !.init = local_decl(@), !.body = <<Block(block_stmt(@, end))>>],
               new_labelstmt(end)>>)

stmt(s, brk) ==
    CASE s.k = "if" ->
           <<[s EXCEPT !.then = <<Block(block_stmt(@, brk))>>,
                       !.els = IF @ = <<>> THEN @ ELSE <<Block(block_stmt(@, brk))>>]>>
      [] s.k = "block" -> <<Block(block_stmt(s.body, brk))>>
      [] s.k \in Loops -> <<loop_stmt(s)>>
      [] s.k = "switch" -> <<switch_stmt(s)>>
      [] s.k = "break" -> <<break_stmt(brk)>>
      [] OTHER -> <<s>>

\* goto to undefined label: every use is met by a definition in the function.
check_labels(body) == HasIn(body, UserLabel) \/ new_goto(UserLabel) \notin Within(body)

parse(body) == block_stmt(body, NoLabel)
rejected(body) == Error \in Within(parse(body)) \/ ~ check_labels(body)
=============================================================================
