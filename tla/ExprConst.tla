------------------------------ MODULE ExprConst ------------------------------
(***************************************************************************)
(* The two evaluators of constants: eval_const of parse.c, which folds a   *)
(* parsed expression where the language wants a number (array lengths,     *)
(* case labels), and the evaluator of #if and #assert in lexpp.c, which    *)
(* has a parser of its own.  Both compute on signed words.                 *)
(***************************************************************************)
EXTENDS ExprParse

\* A value that may be missing: an error, or undefined in C.
Val(v) == [v |-> v, ok |-> TRUE]
NoVal == [v |-> 0, ok |-> FALSE]
OnVals(a, b, op) == IF a.ok /\ b.ok THEN Does(Val(0), op, a.v, b.v) ELSE NoVal

ConstOps == [ADD |-> "add", SUB |-> "sub", MUL |-> "mul", DIV |-> "sdiv", MOD |-> "srem", AND |-> "and",
             OR |-> "or", XOR |-> "xor", SHL |-> "shl", SHR |-> "ashr", EQ |-> "eq", NE |-> "ne",
             LT |-> "slt", LE |-> "sle"]

ConstLogical(k, lt, l, r) == OnVals(l, IF k \in {"SHL", "SHR"} THEN [r EXCEPT !.v = @ % Bits] ELSE r,
                                    IF k = "SHR" THEN "lshr" ELSE ConstOps[k])
\* Shift counts are masked; >> looks at the type lt of its left operand.
ConstBinary(k, lt, l, r) ==
    OnVals(l, IF k \in {"SHL", "SHR"} THEN [r EXCEPT !.v = @ % Bits] ELSE r,
           IF k = "SHR" /\ value_unsig(lt) THEN "lshr" ELSE ConstOps[k])

RECURSIVE eval_const(_)
eval_const(n) ==
    LET l == eval_const(n.l)
        r == eval_const(n.r) IN
    CASE n.k = "NUM" -> Val(n.x)
      [] n.k = "NEG" -> OnVals(Val(0), l, "sub")
      [] n.k = "BITNOT" -> OnVals(Val(2^Bits - 1), l, "sub")
      [] n.k = "NOT" -> OnVals(Val(0), l, "eq")
      [] n.k = "CAST" -> l
      [] n.k \in DOMAIN ConstOps -> ConstBinary(n.k, n.l.ty, l, r)
      [] OTHER -> NoVal

-----------------------------------------------------------------------------
(* pp_prim to pp_or: a value and the next token.                           *)
RECURSIVE pp_level(_, _, _), pp_loop(_, _, _), pp_unary(_, _)

PP(v, i) == [v |-> v, i |-> i]
pp_or(s, i) == pp_level(s, Len(Levels), i)

pp_prim(s, i) ==
    LET in == pp_or(s, i + 1) IN
    CASE Tok(s, i) = "(" -> IF Tok(s, in.i) = ")" THEN PP(in.v, in.i + 1) ELSE PP(NoVal, in.i)
      [] Tok(s, i) \in DOMAIN Lits -> PP(Val(Lits[Tok(s, i)]), i + 1)
      [] Tok(s, i) \in DOMAIN Vars -> PP(Val(0), i + 1)
      [] OTHER -> PP(NoVal, i + 1)

pp_unary(s, i) ==
    LET u == pp_unary(s, i + 1) IN
    CASE Tok(s, i) = "!" -> [u EXCEPT !.v = OnVals(Val(0), @, "eq")]
      [] Tok(s, i) = "~" -> [u EXCEPT !.v = OnVals(Val(2^Bits - 1), @, "sub")]
      [] Tok(s, i) = "-" -> [u EXCEPT !.v = OnVals(Val(0), @, "sub")]
      [] Tok(s, i) = "+" -> u
      [] OTHER -> pp_prim(s, i)

PpUnswapped(op, a, b) == IF op \in DOMAIN Base \cup {"&&", "||", "^^"} THEN Val(a.v) ELSE OnVals(a, b, ConstOps[Kind(op)])

\* Both operands of && and || are evaluated, > and >= are the others swapped.
pp_apply(op, a, b) ==
    CASE ~a.ok \/ ~b.ok -> NoVal
      [] op = "&&" -> Val(Bool(a.v # 0 /\ b.v # 0))
      [] op = "||" -> Val(Bool(a.v # 0 \/ b.v # 0))
      [] op = "^^" -> Val(Bool((a.v = 0) # (b.v = 0)))
      [] op \in {">", ">="} -> OnVals(b, a, ConstOps[Kind(op)])
      [] OTHER -> OnVals(a, b, ConstOps[Kind(op)])

pp_loop(s, k, r) ==
    LET op == Tok(s, r.i)
        b == pp_level(s, k - 1, r.i + 1) IN
    IF op \in Levels[k] THEN pp_loop(s, k, PP(pp_apply(op, r.v, b.v), b.i)) ELSE r
pp_level(s, k, i) == IF k = 0 THEN pp_unary(s, i) ELSE pp_loop(s, k, pp_level(s, k - 1, i))

pp_eval_line(s) == LET r == pp_or(s, 1) IN IF Tok(s, r.i) = "end" THEN r.v ELSE NoVal
=============================================================================
