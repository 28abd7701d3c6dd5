------------------------------- MODULE ExprJs -------------------------------
(***************************************************************************)
(* What the JavaScript emitted by back_js.c computes.  A value is a number *)
(* or a Boolean; a variable whose address is never taken is a JavaScript   *)
(* variable, which holds any value.  Numbers are exact up to 2^JsExact     *)
(* (2^53), bitwise operators work on JsInt32 (32) bits.                    *)
(***************************************************************************)
EXTENDS ExprParse

CONSTANTS JsExact, JsInt32,
          Taken      \* variables whose address another statement takes

JNum(v) == [b |-> FALSE, v |-> v]
JBool(p) == [b |-> TRUE, v |-> Bool(p)]
Gives(o, v) == IF v \in -(2^JsExact) .. 2^JsExact THEN Is(o, JNum(v)) ELSE Undefined(o)
Truthy(j) == j.v # 0

NeverTaken(n) == {}

\* The variables the expression itself takes the address of.
RECURSIVE AddressTaken(_)
AddressTaken(n) ==
    IF n.k = "nil" THEN {}
    ELSE AddressTaken(n.l) \cup AddressTaken(n.r)
           \cup (IF n.k = "ADDR" /\ n.l.k = "VAR" THEN {n.l.x} ELSE {})
native_var(n, taken) == n.k = "VAR" /\ ~is_agg(n.ty) /\ n.x \notin taken

\* ld8 reads a signed word whatever the type; the narrow loads extend by it.
ld_fn(o, a, ty) ==
    LET w == Read(o, a, ty)
    IN IF w.ok THEN Gives(o, IF Narrow(ty) /\ ty.unsig THEN w.v ELSE Signed(w.v, Bits)) ELSE Undefined(o)
\* The stores return their argument; st8 makes it a number.
st_fn(o, a, ty, j) == Is(Write(o, a, ty, Word(j.v)), IF ty.size = WordSize THEN JNum(j.v) ELSE j)

ToInt32(v) == Signed(v % 2^JsInt32, JsInt32)
U32(v) == v % 2^JsInt32
JsOp(o, k, x, y) ==
    LET a == x.v
        b == y.v IN
    CASE k = "ADD" -> Gives(o, a + b)
      [] k = "SUB" -> Gives(o, a - b)
      [] k = "MUL" -> Gives(o, a * b)
      [] k = "DIV" -> IF b = 0 THEN Undefined(o) ELSE Gives(o, Quot(a, b))
      [] k = "MOD" -> IF b = 0 THEN Undefined(o) ELSE Gives(o, a - b * Quot(a, b))
      [] k = "AND" -> Gives(o, ToInt32(U32(a) & U32(b)))
      [] k = "OR" -> Gives(o, ToInt32(U32(a) | U32(b)))
      [] k = "XOR" -> Gives(o, ToInt32(U32(a) ^^ U32(b)))
      [] k = "SHL" -> Gives(o, ToInt32(a * 2^(b % JsInt32)))
      [] k = "SHR" -> Gives(o, ToInt32(a) \div 2^(b % JsInt32))
      [] k = "EQ" -> Is(o, JBool(x = y))
      [] k = "NE" -> Is(o, JBool(x # y))
      [] k = "LT" -> Is(o, JBool(a < b))
      [] k = "LE" -> Is(o, JBool(a <= b))
      [] k = "LOGXOR" -> Is(o, JBool(Truthy(x) # Truthy(y)))

RECURSIVE JsVal(_, _, _), JsAddr(_, _, _)

\* emit_addr
JsAddr(n, o, tk) ==
    CASE n.k = "VAR" -> Is(o, JNum(Vars[n.x].at))
      [] n.k = "DEREF" -> JsVal(n.l, o, tk)
      [] n.k = "MEMBER" -> LET a == JsAddr(n.l, o, tk) IN Gives(a, a.v.v + n.x)

JsAssign(n, o, tk) ==
    LET rv == JsVal(n.r, o, tk)
        a == JsAddr(n.l, o, tk)
        av == JsVal(n.r, a, tk)
    IN CASE native_var(n.l, tk) -> [rv EXCEPT !.r[n.l.x] = rv.v]
         [] OTHER -> IF av.ok THEN st_fn(av, a.v.v, n.l.ty, av.v) ELSE av

JsSum(n, o, tk) ==
    LET q == Two(LAMBDA m, p : JsVal(m, p, tk), n.l, n.r, o, TRUE)
        lp == is_ptrish(n.l.ty)
        rp == is_ptrish(n.r.ty) IN
    CASE ~q.o.ok -> q.o
      [] lp /\ rp /\ n.k = "SUB" -> Gives(q.o, Quot(q.a.v - q.b.v, elem_size(n.l.ty)))
      [] lp /\ ~(rp /\ n.k = "SUB") -> JsOp(q.o, n.k, q.a, JNum(q.b.v * elem_size(n.l.ty)))
      [] OTHER -> JsOp(q.o, n.k, q.a, q.b)

\* Casts between integers print nothing; "-" before a negative number prints
\* "--", which is no JavaScript.
RECURSIVE Printed(_)
Printed(n) == IF n.k = "CAST" THEN Printed(n.l) ELSE n
Decrements(n) == Printed(n.l).k = "NUM" /\ Signed(Printed(n.l).x, Bits) < 0

\* emit_val; tk: the variables whose address is taken.
JsVal(n, o, tk) ==
    LET l == JsVal(n.l, o, tk)
        q == Two(LAMBDA m, p : JsVal(m, p, tk), n.l, n.r, o, TRUE)
        a == JsAddr(n, o, tk) IN
    CASE ~o.ok -> o
      [] n.k = "NUM" -> Gives(o, Signed(n.x, Bits))
      [] n.k = "VAR" /\ native_var(n, tk) -> Is(o, o.r[n.x])
      [] n.k \in {"VAR", "DEREF", "MEMBER"} /\ ~native_var(n, tk) ->
           IF is_agg(n.ty) \/ ~a.ok THEN a ELSE ld_fn(a, a.v.v, n.ty)
      [] n.k = "ADDR" -> JsAddr(n.l, o, tk)
      [] n.k = "ASSIGN" -> JsAssign(n, o, tk)
      [] n.k = "CAST" -> l
      [] n.k \in {"ADD", "SUB"} -> JsSum(n, o, tk)
      [] n.k = "LOGAND" -> IF ~l.ok \/ ~Truthy(l.v) THEN l ELSE JsVal(n.r, l, tk)
      [] n.k = "LOGOR" -> IF ~l.ok \/ Truthy(l.v) THEN l ELSE JsVal(n.r, l, tk)
      [] n.k = "NOT" -> IF l.ok THEN Is(l, JBool(~Truthy(l.v))) ELSE l
      [] n.k = "BITNOT" -> IF l.ok THEN Gives(l, -ToInt32(l.v.v) - 1) ELSE l
      [] n.k = "NEG" -> IF l.ok /\ ~Decrements(n) THEN Gives(l, -l.v.v) ELSE Undefined(l)
      [] n.k = "COMMA" -> JsVal(n.r, l, tk)
      [] OTHER -> IF q.o.ok THEN JsOp(q.o, n.k, q.a, q.b) ELSE q.o
=============================================================================
