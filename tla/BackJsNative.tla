---------------------------- MODULE BackJsNative ----------------------------
(***************************************************************************)
(* The JavaScript backend's native functions (src/back_js.c): a function   *)
(* without goto is written as the loops and ifs of JavaScript.             *)
(***************************************************************************)
EXTENDS ControlLang

loop_label(n) == n.k = "label" /\ n.l[1] \in {"fend", "wend", "dend"}

RECURSIVE native_stmt(_)
native_stmt(n) ==
    /\ n.k \in {"out", "set", "read", "return", "block", "if"} \cup Loops \/ loop_label(n)
    /\ \A i \in DOMAIN Parts(n) : native_stmt(Parts(n)[i])
native(body) == \A i \in DOMAIN body : native_stmt(body[i])

\* Only an expression fits the clause, and v++ is written as the text v++,
\* which adds one whatever v points to.
for_clause(c) ==
    IF c = <<>> \/ c[1].k # "out" THEN <<>>
    ELSE IF c[1].by > 0 THEN <<[c[1] EXCEPT !.by = 1]>>
    ELSE c

RECURSIVE emit_native_stmt(_)
emit_native(ss) == FlattenSeq([i \in DOMAIN ss |-> emit_native_stmt(ss[i])])
emit_native_stmt(n) ==
    CASE n.k = "label" -> <<>>
      [] n.k = "block" -> emit_native(n.body)
      [] n.k = "if" -> <<[n EXCEPT !.then = emit_native(@), !.els = emit_native(@)]>>
      [] n.k \in {"while", "do"} -> <<[n EXCEPT !.body = emit_native(@)]>>
      [] n.k = "for" -> <<[n EXCEPT !.init = for_clause(@), !.inc = for_clause(@),
                                    !.body = emit_native(@)]>>
      [] OTHER -> <<n>>
=============================================================================
