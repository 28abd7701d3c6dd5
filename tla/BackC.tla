-------------------------------- MODULE BackC --------------------------------
(***************************************************************************)
(* The C backend's statements (src/back_c.c): C has goto and the same      *)
(* statements, so only the for loop changes shape.                         *)
(***************************************************************************)
EXTENDS ControlLang

\* if (!cond) break;
c_exit(c) == [k |-> "if", cond |-> c, then |-> <<>>, els |-> <<[k |-> "break"]>>]

RECURSIVE c_stmt(_)
emit_inner(ss) == FlattenSeq([i \in DOMAIN ss |-> c_stmt(ss[i])])

\* init; for (;;) { if (!cond) break; body; inc; }
c_for(n) ==
    emit_inner(n.init) \o
    <<[n EXCEPT !.init = <<>>, !.inc = <<>>, !.cond = [t |-> "always"],
         !.body = (IF n.cond.t = "always" THEN <<>> ELSE <<c_exit(n.cond)>>)
                    \o emit_inner(n.body) \o emit_inner(n.inc)]>>

c_stmt(n) ==
    CASE n.k = "for" -> c_for(n)
      [] n.k \in {"while", "do"} -> <<[n EXCEPT !.body = emit_inner(@)]>>
      [] n.k = "if" -> <<[n EXCEPT !.then = emit_inner(@), !.els = emit_inner(@)]>>
      [] n.k = "block" -> emit_inner(n.body)
      [] OTHER -> <<n>>
=============================================================================
