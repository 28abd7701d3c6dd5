------------------------------ MODULE ExprParse ------------------------------
(***************************************************************************)
(* The expression parser of parse.c: recursive descent with the lowering   *)
(* it does on the way.  Chained comparisons, compound assignment, ++ and   *)
(* -- become plain assignments over temporaries, subscripts and views      *)
(* become pointer sums.  A node is a kind, a type, two operands and x (a   *)
(* number, a variable or a member's offset); a step of the parser returns  *)
(* a node, the next token and the next free temporary.  An error stays.    *)
(***************************************************************************)
EXTENDS ExprLang, TLC

TempNames == <<"t1", "t2", "t3", "t4", "t5", "t6">>

Nil == [k |-> "nil"]
Err == [k |-> "err", ty |-> I64, l |-> Nil, r |-> Nil, x |-> 0]
N(k, ty, l, r, x) == IF "err" \in {l.k, r.k} THEN Err
                     ELSE [k |-> k, ty |-> ty, l |-> l, r |-> r, x |-> x]
new_num(v) == N("NUM", I64, Nil, Nil, Word(v))
new_var_node(v, ty) == N("VAR", ty, Nil, Nil, v)
new_temp(ty, t) == new_var_node(TempNames[t], ty)
Require(cond, n) == IF cond THEN n ELSE Err

new_cast(n, ty) == IF n.ty = ty THEN n ELSE N("CAST", ty, n, Nil, 0)

\* Arrays decay to the address of their first element.
rvalize(n) == IF n.ty.k = "arr" THEN N("ADDR", ptr_to(n.ty.base), n, Nil, 0) ELSE n

new_binary(k, lhs, rhs) ==
    LET l == rvalize(lhs)
        r == rvalize(rhs)
        lp == is_ptrish(l.ty)
        rp == is_ptrish(r.ty) IN
    CASE k \in {"ADD", "SUB"} /\ lp /\ rp -> N(k, I64, l, r, 0)
      [] k \in {"ADD", "SUB"} /\ lp /\ ~rp -> N(k, l.ty, l, r, 0)
      [] k \in {"ADD", "SUB"} /\ ~lp /\ rp -> N(k, r.ty, r, l, 0)
      [] k \in {"EQ", "NE", "LT", "LE", "LOGAND", "LOGOR", "LOGXOR"} -> N(k, I64, l, r, 0)
      [] k = "COMMA" -> N(k, r.ty, l, r, 0)
      [] OTHER -> N(k, IF value_unsig(l.ty) \/ value_unsig(r.ty) THEN U64 ELSE I64, l, r, 0)

new_unary(k, lhs) == N(k, I64, IF k \in {"NOT", "BITNOT"} THEN rvalize(lhs) ELSE lhs, Nil, 0)
Deref(n) == N("DEREF", n.ty.base, n, Nil, 0)

is_lvalue(n) == n.k \in {"VAR", "DEREF", "MEMBER"}

AssignAnything(lhs, rhs) == Require(is_lvalue(lhs), N("ASSIGN", value_type(lhs.ty), lhs, rvalize(rhs), 0))

new_assign(lhs, rhs) == Require(is_lvalue(lhs) /\ lhs.ty.k # "arr",
                                N("ASSIGN", value_type(lhs.ty), lhs, rvalize(rhs), 0))

-----------------------------------------------------------------------------
LvalTwice(lval, t) == [place |-> lval, setup |-> Nil, t |-> t]

\* The place of a compound assignment, evaluated once: a variable stands for
\* itself, for anything else a temporary first takes its address.
lval_addr_temp(lval, t) ==
    LET tmp == new_temp(ptr_to(lval.ty), t) IN
    IF lval.k = "VAR" THEN [place |-> lval, setup |-> Nil, t |-> t]
    ELSE [place |-> Deref(tmp), t |-> t + 1,
          setup |-> new_assign(tmp, N("ADDR", ptr_to(lval.ty), lval, Nil, 0))]
AfterSetup(p, n) == IF p.setup.k = "nil" THEN n ELSE new_binary("COMMA", p.setup, n)

incdec(r, delta, post) ==
    LET p == lval_addr_temp(r.n, r.t)
        old == new_temp(value_type(p.place.ty), p.t)
        Plus(n) == new_assign(p.place, new_binary("ADD", n, new_num(delta)))
        val == IF post THEN new_binary("COMMA", new_assign(old, p.place),
                                       new_binary("COMMA", Plus(old), old))
               ELSE Plus(p.place)
    IN IF ~is_lvalue(r.n) THEN [r EXCEPT !.n = Err]
       ELSE [r EXCEPT !.n = AfterSetup(p, val), !.t = IF post THEN p.t + 1 ELSE p.t]

\* An integer in memory as an array of a narrower type.
subint_access(base, view) ==
    LET arr == array_of(view, base.ty.size \div view.size)
        addr == N("ADDR", ptr_to(base.ty), base, Nil, 0)
    IN Require(view.size < base.ty.size /\ is_lvalue(base), Deref(new_cast(addr, ptr_to(arr))))

Member == Fields @@ Arrows
member_access(base, tok) ==
    CASE base.ty.k = "int" /\ tok \in DOMAIN Views -> subint_access(base, Views[tok])
      [] base.ty.k = "class" /\ tok \in DOMAIN Member /\ Member[tok] \in DOMAIN base.ty.mem ->
           LET f == base.ty.mem[Member[tok]] IN N("MEMBER", f.ty, base, Nil, f.off)
      [] OTHER -> Err

subscript(n, idx) == LET sum == new_binary("ADD", n, idx)
                     IN Require(sum.ty.k = "ptr", Deref(sum))

-----------------------------------------------------------------------------
Tok(s, i) == IF i <= Len(s) THEN s[i] ELSE "end"
R(n, i, t) == [n |-> n, i |-> i, t |-> t]
expect(s, r, tok) == IF Tok(s, r.i) = tok THEN [r EXCEPT !.i = @ + 1] ELSE [r EXCEPT !.n = Err]
Delta(tok) == IF tok = "++" THEN 1 ELSE -1

\* The functions of the parser by what they read: unary at 0, then powshift,
\* mul, bitand_, bitxor_, bitor_, addsub, relational, equality, logand, logxor,
\* logor, assign, comma_expr.  parse is whichever of them level k names.
Levels == <<{"<<", ">>"}, {"*", "/", "%"}, {"&"}, {"^"}, {"|"}, {"+", "-"}, Relations,
            {"==", "!="}, {"&&"}, {"^^"}, {"||"}>>
Relational == 7
Assignment == Len(Levels) + 1
Comma == Len(Levels) + 2
RECURSIVE parse(_, _, _, _), PostfixLoop(_, _), LevelLoop(_, _, _), Chain(_, _, _), CommaLoop(_, _)

primary(s, i, t) ==
    LET tok == Tok(s, i)
        size == IF Tok(s, i + 1) = "(" THEN expect(s, parse(Comma, s, i + 2, t), ")") ELSE parse(0, s, i + 1, t)
    IN CASE tok = "(" -> expect(s, parse(Comma, s, i + 1, t), ")")
         [] tok \in DOMAIN Lits -> R(new_num(Lits[tok]), i + 1, t)
         [] tok = "sizeof" -> [size EXCEPT !.n = Require(@.k # "err", new_num(@.ty.size))]
         [] tok \in DOMAIN Vars -> R(new_var_node(tok, Vars[tok].ty), i + 1, t)
         [] OTHER -> R(Err, i + 1, t)

PostfixLoop(s, r) ==
    LET tok == Tok(s, r.i)
        next == [r EXCEPT !.i = @ + 1]
        idx == expect(s, parse(Comma, s, r.i + 1, r.t), "]")
        ptr == rvalize(r.n)
    IN CASE tok \in DOMAIN Casts -> PostfixLoop(s, [next EXCEPT !.n = new_cast(rvalize(@), Casts[tok])])
         [] tok = "[" -> PostfixLoop(s, [idx EXCEPT !.n = subscript(r.n, @)])
         [] tok \in DOMAIN Views \cup DOMAIN Fields ->
              PostfixLoop(s, [next EXCEPT !.n = member_access(@, tok)])
         [] tok \in DOMAIN Arrows ->
              PostfixLoop(s, [next EXCEPT !.n = Require(ptr.ty.k = "ptr", member_access(Deref(ptr), tok))])
         [] tok \in {"++", "--"} -> PostfixLoop(s, incdec(next, Delta(tok), TRUE))
         [] OTHER -> r
postfix(s, i, t) == PostfixLoop(s, primary(s, i, t))

unary(s, i, t) ==
    LET tok == Tok(s, i)
        u == parse(0, s, i + 1, t)
        v == rvalize(u.n) IN
    CASE tok = "+" -> u
      [] tok = "-" -> [u EXCEPT !.n = IF v.k = "NUM" THEN new_num(-v.x) ELSE new_unary("NEG", v)]
      [] tok = "!" -> [u EXCEPT !.n = new_unary("NOT", @)]
      [] tok = "~" -> [u EXCEPT !.n = new_unary("BITNOT", @)]
      [] tok = "*" -> [u EXCEPT !.n = Require(v.ty.k = "ptr", Deref(v))]
      [] tok = "&" -> [u EXCEPT !.n = Require(is_lvalue(@), N("ADDR", ptr_to(@.ty), @, Nil, 0))]
      [] tok \in {"++", "--"} -> incdec(u, Delta(tok), FALSE)
      [] OTHER -> postfix(s, i, t)

\* The node of each operator.
Kind(op) ==
    CASE op = "<<" -> "SHL" [] op = ">>" -> "SHR" [] op = "*" -> "MUL" [] op = "/" -> "DIV"
      [] op = "%" -> "MOD" [] op = "&" -> "AND" [] op = "^" -> "XOR" [] op = "|" -> "OR"
      [] op = "+" -> "ADD" [] op = "-" -> "SUB" [] op \in {"<", ">"} -> "LT"
      [] op \in {"<=", ">="} -> "LE" [] op = "==" -> "EQ" [] op = "!=" -> "NE"
      [] op = "&&" -> "LOGAND" [] op = "^^" -> "LOGXOR" [] op = "||" -> "LOGOR"

LevelLoop(s, k, r) ==
    LET rhs == parse(k - 1, s, r.i + 1, r.t) IN
    IF Tok(s, r.i) \in Levels[k]
    THEN LevelLoop(s, k, [rhs EXCEPT !.n = new_binary(Kind(Tok(s, r.i)), r.n, @)])
    ELSE r

\* a < b < c: (a < (tmp = b)) && (tmp < c).  chain is what is built so far.
Chain(s, r, chain) ==
    LET op == Tok(s, r.i)
        b == parse(Relational - 1, s, r.i + 1, r.t)
        val == rvalize(b.n)
        more == Tok(s, b.i) \in Relations
        tmp == new_temp(value_type(val.ty), b.t)
        rhs == IF more THEN new_assign(tmp, val) ELSE val
        cmp == IF op \in {">", ">="} THEN new_binary(Kind(op), rhs, r.n) ELSE new_binary(Kind(op), r.n, rhs)
        all == IF chain.k = "nil" THEN cmp ELSE new_binary("LOGAND", chain, cmp)
    IN CASE op \notin Relations -> r
         [] op \in Relations /\ more -> Chain(s, R(tmp, b.i, b.t + 1), all)
         [] OTHER -> [b EXCEPT !.n = all]

assign(s, i, t) ==
    LET r == parse(Assignment - 1, s, i, t)
        op == Tok(s, r.i)
        v == parse(Assignment, s, r.i + 1, r.t)
        p == lval_addr_temp(r.n, v.t)
        res == AfterSetup(p, new_assign(p.place, new_binary(Kind(Base[op]), p.place, v.n)))
    IN CASE op = "=" -> [v EXCEPT !.n = new_assign(r.n, @)]
         [] op \in DOMAIN Base -> IF is_lvalue(r.n) THEN R(res, v.i, p.t) ELSE R(Err, v.i, v.t)
         [] OTHER -> r

CommaLoop(s, r) ==
    LET e == parse(Assignment, s, r.i + 1, r.t) IN
    IF Tok(s, r.i) = "," THEN CommaLoop(s, [e EXCEPT !.n = new_binary("COMMA", r.n, @)]) ELSE r
comma_expr(s, i, t) == CommaLoop(s, parse(Assignment, s, i, t))

parse(k, s, i, t) ==
    CASE k = 0 -> unary(s, i, t)
      [] k = Relational -> Chain(s, parse(k - 1, s, i, t), Nil)
      [] k = Assignment -> assign(s, i, t)
      [] k = Comma -> comma_expr(s, i, t)
      [] OTHER -> LevelLoop(s, k, parse(k - 1, s, i, t))

\* The whole statement: an expression and its end.
Parsed(s) == expect(s, parse(Comma, s, 1, 1), "end").n
=============================================================================
