-------------------------------- MODULE ExprC --------------------------------
(***************************************************************************)
(* What the text emitted by back_c.c computes.  C leaves the order of an   *)
(* operator's operands, and of an assignment's address and value, to its   *)
(* compiler: lr says whether it takes the left one first.                  *)
(***************************************************************************)
EXTENDS ExprParse

CBinop == [ADD |-> "add", SUB |-> "sub", MUL |-> "mul", DIV |-> "sdiv", MOD |-> "srem", AND |-> "and",
           OR |-> "or", XOR |-> "xor", SHL |-> "shl", SHR |-> "ashr", EQ |-> "eq", NE |-> "ne",
           LT |-> "slt", LE |-> "sle"]
CUnsigned == [DIV |-> "udiv", MOD |-> "urem", SHR |-> "lshr", LT |-> "ult", LE |-> "ule"]

\* A cast to a whole word emits nothing: the operand's text stands there.
RECURSIVE Bare(_)
Bare(n) == IF n.k = "CAST" /\ ~Narrow(n.ty) THEN Bare(n.l) ELSE n

\* The C type of an emitted expression.  Everything is an hc_i64 except the
\* value of an assignment to a narrow place, which C promotes to its int, half
\* a word, and what the operators make of such values; to compare or compute
\* C first converts both operands.
Promoted(ty) == IF Narrow(ty) THEN IntTy(WordSize \div 2, ty.unsig /\ ty.size = WordSize \div 2) ELSE I64
Usual(l, r) == IF I64 \in {l, r} THEN I64 ELSE IntTy(WordSize \div 2, l.unsig \/ r.unsig)
RECURSIVE CType(_)
CType(n) ==
    CASE n.k = "ASSIGN" -> Promoted(n.l.ty)
      [] n.k = "COMMA" -> CType(n.r)
      [] n.k \in {"NEG", "BITNOT", "SHL"} -> CType(n.l)
      [] n.k = "CAST" /\ ~Narrow(n.ty) -> CType(n.l)
      [] n.k = "SHR" /\ ~value_unsig(n.ty) -> CType(n.l)
      [] n.k \in {"ADD", "SUB", "MUL", "AND", "OR", "XOR"} -> Usual(CType(n.l), CType(n.r))
      [] n.k \in {"DIV", "MOD"} /\ ~value_unsig(n.ty) -> Usual(CType(n.l), CType(n.r))
      [] OTHER -> I64

\* a op b in the type ty.
CDoes(o, op, ty, a, b) ==
    LET bits == ByteBits * ty.size
        shift == op \in {"shl", "ashr"}
        x == Narrowed(a, ty)
        y == IF shift THEN b ELSE Narrowed(b, ty)
        r == Does(o, op, x, y)
    IN IF (shift /\ y >= bits) \/ (op \in {"sdiv", "srem"} /\ x = Word(-2^(bits - 1)) /\ y = Word(-1))
       THEN Undefined(o) ELSE Is(r, Narrowed(r.v, ty))

CLoad(o, n, a) == IF is_agg(n.ty) THEN Is(o, a) ELSE Read(o, a, n.ty)
CStore(o, n, a, v) ==
    IF n.k = "VAR" /\ n.x \in Range(TempNames) THEN [o EXCEPT !.r[n.x] = v] ELSE Write(o, a, n.ty, v)

RECURSIVE CVal(_, _, _), CAddr(_, _, _), CTruth(_, _, _)

\* emit_addr
CAddr(n, o, lr) ==
    CASE n.k = "VAR" -> Is(o, IF n.x \in DOMAIN Vars THEN Vars[n.x].at ELSE 0)
      [] n.k = "DEREF" -> CVal(n.l, o, lr)
      [] n.k = "MEMBER" -> LET a == CAddr(n.l, o, lr) IN Is(a, Word(a.v + n.x))

\* The assignment's value is the C one: what is left in the place.
CAssign(n, o, lr) ==
    LET addr == CAddr(n.l, IF lr THEN o ELSE CVal(n.r, o, lr), lr)
        val == CVal(n.r, IF lr THEN addr ELSE o, lr)
        last == IF lr THEN val ELSE addr
    IN Is(CStore(last, n.l, addr.v, val.v), IF Narrow(n.l.ty) THEN Narrowed(val.v, n.l.ty) ELSE val.v)

\* emit_truth: what C tests, and what (hc_i64) makes of it.
CTruth(n, o, lr) ==
    LET q == Two(LAMBDA m, p : CVal(m, p, lr), n.l, n.r, o, lr)
        b == Two(LAMBDA m, p : CTruth(m, p, lr), n.l, n.r, o, lr)
        l == CTruth(n.l, o, lr)
        unsig == n.k \in {"LT", "LE"} /\ n.l.ty.k = "int" /\ (value_unsig(n.l.ty) \/ value_unsig(n.r.ty))
        rest == CTruth(n.r, l, lr) IN
    CASE unsig -> Does(q.o, CUnsigned[n.k], q.a, q.b)
      [] n.k \in {"EQ", "NE", "LT", "LE"} /\ ~unsig ->
           CDoes(q.o, CBinop[n.k], Usual(CType(n.l), CType(n.r)), q.a, q.b)
      [] n.k = "LOGAND" -> IF l.v = 0 THEN l ELSE Is(rest, Bool(rest.v # 0))
      [] n.k = "LOGOR" -> IF l.v # 0 THEN Is(l, 1) ELSE Is(rest, Bool(rest.v # 0))
      [] n.k = "LOGXOR" -> Is(b.o, Bool((b.a = 0) # (b.b = 0)))
      [] n.k = "NOT" -> Is(l, Bool(l.v = 0))
      [] OTHER -> CVal(n, o, lr)

\* "-" before an operand that starts with "-" is the C operator "--": it
\* decrements a whole-word place and does not compile on anything else.
CNeg(n, o, lr) ==
    LET v == CVal(n.l, o, lr)
        y == Bare(Bare(n.l).l)
        a == CAddr(y, o, lr)
        old == CVal(y, o, lr)
    IN CASE Bare(n.l).k # "NEG" -> Is(v, Narrowed(Word(-v.v), CType(n)))
         [] Bare(n.l).k = "NEG" /\ is_lvalue(y) /\ y.ty.size = WordSize /\ ~is_agg(y.ty) ->
              Is(CStore(a, y, a.v, Word(old.v - 1)), Word(old.v - 1))
         [] OTHER -> Undefined(o)

\* Sums scale the integer by the pointer's element, in the integer's C type;
\* / % >> are unsigned words by the node's type.
CArith(n, o, lr) ==
    LET q == Two(LAMBDA m, p : CVal(m, p, lr), n.l, n.r, o, lr)
        lp == is_ptrish(n.l.ty)
        rp == is_ptrish(n.r.ty)
        sum == n.k \in {"ADD", "SUB"}
        scaled == CDoes(q.o, "mul", CType(n.r), q.b, elem_size(n.l.ty)) IN
    CASE ~q.o.ok -> q.o
      [] n.k = "SUB" /\ lp /\ rp -> Does(q.o, "sdiv", Word(q.a - q.b), elem_size(n.l.ty))
      [] sum /\ lp /\ ~(n.k = "SUB" /\ rp) -> Does(scaled, CBinop[n.k], q.a, scaled.v)
      [] n.k \in {"DIV", "MOD", "SHR"} /\ value_unsig(n.ty) -> Does(q.o, CUnsigned[n.k], q.a, q.b)
      [] OTHER -> CDoes(q.o, CBinop[n.k], CType(n), q.a, q.b)

\* emit_val
CVal(n, o, lr) ==
    LET l == CVal(n.l, o, lr) IN
    CASE ~o.ok -> o
      [] n.k = "NUM" -> Is(o, n.x)
      [] n.k = "VAR" -> IF n.x \in Range(TempNames) THEN Is(o, o.r[n.x]) ELSE CLoad(o, n, Vars[n.x].at)
      [] n.k \in {"DEREF", "MEMBER"} -> LET a == CAddr(n, o, lr) IN IF a.ok THEN CLoad(a, n, a.v) ELSE a
      [] n.k = "ADDR" -> CAddr(n.l, o, lr)
      [] n.k = "ASSIGN" -> CAssign(n, o, lr)
      [] n.k = "CAST" -> Is(l, IF Narrow(n.ty) THEN Narrowed(l.v, n.ty) ELSE l.v)
      [] n.k = "BITNOT" -> Is(l, Narrowed(2^Bits - 1 - l.v, CType(n)))
      [] n.k = "NEG" -> CNeg(n, o, lr)
      [] n.k = "COMMA" -> CVal(n.r, l, lr)
      [] n.k \in {"EQ", "NE", "LT", "LE", "LOGAND", "LOGOR", "LOGXOR", "NOT"} -> CTruth(n, o, lr)
      [] OTHER -> CArith(n, o, lr)
=============================================================================
