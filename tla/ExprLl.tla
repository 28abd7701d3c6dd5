------------------------------- MODULE ExprLl -------------------------------
(***************************************************************************)
(* What the instructions emitted by back_ll.c compute, in the order they   *)
(* are emitted: an assignment's value comes before its address.            *)
(***************************************************************************)
EXTENDS ExprParse

RECURSIVE LlVal(_, _)

Temp(n) == n.k = "VAR" /\ n.x \in Range(TempNames)
load_from(a, ty) == IF a.ok THEN Read(a, a.v, ty) ELSE a

\* emit_addr
RECURSIVE LlAddr(_, _)
LlAddr(n, o) ==
    CASE n.k = "VAR" -> Is(o, Vars[n.x].at)
      [] n.k = "DEREF" -> LlVal(n.l, o)
      [] n.k = "MEMBER" -> LET a == LlAddr(n.l, o) IN Is(a, Word(a.v + n.x))

\* store_to, and the stores to locals: the value stays the one stored from.
LlAssign(n, o) ==
    LET rv == LlVal(n.r, o)
        a == LlAddr(n.l, rv)
    IN IF Temp(n.l) THEN [rv EXCEPT !.r[n.l.x] = rv.v] ELSE Is(Write(a, a.v, n.l.ty, rv.v), rv.v)

emit_binop(n, o) ==
    LET q == Two(LlVal, n.l, n.r, o, TRUE)
        unsig == value_unsig(n.ty)
        lp == is_ptrish(n.l.ty)
        rp == is_ptrish(n.r.ty)
        op == CASE n.k = "ADD" -> "add" [] n.k = "SUB" -> "sub" [] n.k = "MUL" -> "mul"
                [] n.k = "DIV" -> IF unsig THEN "udiv" ELSE "sdiv"
                [] n.k = "MOD" -> IF unsig THEN "urem" ELSE "srem"
                [] n.k = "AND" -> "and" [] n.k = "OR" -> "or" [] n.k = "XOR" -> "xor"
                [] n.k = "SHL" -> "shl" [] n.k = "SHR" -> IF unsig THEN "lshr" ELSE "ashr" IN
    CASE ~q.o.ok -> q.o
      [] n.k = "SUB" /\ lp /\ rp -> Does(q.o, "sdiv", Word(q.a - q.b), elem_size(n.l.ty))
      [] n.k \in {"ADD", "SUB"} /\ lp /\ ~(n.k = "SUB" /\ rp) ->
           Does(q.o, op, q.a, Word(q.b * elem_size(n.l.ty)))
      [] OTHER -> Does(q.o, op, q.a, q.b)

emit_cmp(n, o) ==
    LET q == Two(LlVal, n.l, n.r, o, TRUE)
        unsig == value_unsig(n.l.ty) \/ value_unsig(n.r.ty)
    IN Does(q.o, CASE n.k = "EQ" -> "eq" [] n.k = "NE" -> "ne"
                   [] n.k = "LT" -> IF unsig THEN "ult" ELSE "slt"
                   [] n.k = "LE" -> IF unsig THEN "ule" ELSE "sle", q.a, q.b)

emit_shortcircuit(n, o) ==
    LET a == LlVal(n.l, o)
        b == LlVal(n.r, a)
        skip == IF n.k = "LOGAND" THEN a.v = 0 ELSE a.v # 0
    IN IF skip THEN Is(a, Bool(n.k = "LOGOR")) ELSE Is(b, Bool(b.v # 0))

\* emit_val
LlVal(n, o) ==
    LET l == LlVal(n.l, o)
        q == Two(LlVal, n.l, n.r, o, TRUE) IN
    CASE ~o.ok -> o
      [] n.k = "NUM" -> Is(o, n.x)
      [] Temp(n) -> Is(o, o.r[n.x])
      [] n.k \in {"VAR", "DEREF", "MEMBER"} /\ ~Temp(n) ->
           IF is_agg(n.ty) THEN LlAddr(n, o) ELSE load_from(LlAddr(n, o), n.ty)
      [] n.k = "ADDR" -> LlAddr(n.l, o)
      [] n.k = "ASSIGN" -> LlAssign(n, o)
      [] n.k = "CAST" -> Is(l, IF Narrow(n.ty) THEN Narrowed(l.v, n.ty) ELSE l.v)
      [] n.k \in {"EQ", "NE", "LT", "LE"} -> emit_cmp(n, o)
      [] n.k \in {"LOGAND", "LOGOR"} -> emit_shortcircuit(n, o)
      [] n.k = "LOGXOR" -> Is(q.o, Bool((q.a = 0) # (q.b = 0)))
      [] n.k = "NOT" -> Is(l, Bool(l.v = 0))
      [] n.k = "BITNOT" -> Does(l, "xor", l.v, 2^Bits - 1)
      [] n.k = "NEG" -> Does(l, "sub", 0, l.v)
      [] n.k = "COMMA" -> LlVal(n.r, l)
      [] OTHER -> emit_binop(n, o)
=============================================================================
