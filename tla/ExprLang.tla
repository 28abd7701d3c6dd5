------------------------------ MODULE ExprLang ------------------------------
(***************************************************************************)
(* What an integer expression means, read from doc/language.md             *)
(* ("Operators", "Types") and doc/subint.md without a parser and without   *)
(* lowering: an expression is split at its loosest operator, comparisons   *)
(* are chains, a compound assignment evaluates its place once, values are  *)
(* words and an assignment's value is the one before truncation.  A source *)
(* is a sequence of tokens; a cast "(U8)", a view ".u8" and a member ".lo" *)
(* or "->lo" are one token each.                                           *)
(***************************************************************************)
EXTENDS ExprWords, SequencesExt

\* Variables with their type and address; literals with their value; the
\* tokens for casts, views, members and members through a pointer.
CONSTANTS Vars, Lits, Casts, Views, Fields, Arrows

Relations == {"<", "<=", ">", ">="}
Assigns == {"=", "+=", "-=", "*=", "/=", "%=", "&=", "|=", "^=", "<<=", ">>="}
PreOps == {"+", "-", "!", "~", "*", "&", "++", "--", "sizeof"}
PostToks == {"++", "--"} \cup DOMAIN Casts \cup DOMAIN Views \cup DOMAIN Fields \cup DOMAIN Arrows

\* doc/language.md:228-241, loosest first.
Precedence == <<{","}, Assigns, {"||"}, {"^^"}, {"&&"}, {"==", "!="}, Relations, {"+", "-"},
                {"|"}, {"^"}, {"&"}, {"*", "/", "%"}, {"<<", ">>"}>>

\* The operator of a compound assignment.
Base == [op \in Assigns \ {"="} |-> CASE op = "+=" -> "+" [] op = "-=" -> "-" [] op = "*=" -> "*"
            [] op = "/=" -> "/" [] op = "%=" -> "%" [] op = "&=" -> "&" [] op = "|=" -> "|"
            [] op = "^=" -> "^" [] op = "<<=" -> "<<" [] op = ">>=" -> ">>"]

-----------------------------------------------------------------------------
(* Trees: kind, token, subtrees.                                           *)
Bad == [k |-> "bad", x |-> "", a |-> <<>>]
T(k, x, a) == IF \E i \in DOMAIN a : a[i].k = "bad" THEN Bad ELSE [k |-> k, x |-> x, a |-> a]

RECURSIVE Ends(_, _)
\* Token i ends an operand: what follows can only be an infix or a suffix.
Ends(s, i) ==
    \/ s[i] \in DOMAIN Vars \cup DOMAIN Lits \cup {")", "]"} \cup (PostToks \ {"++", "--"})
    \/ s[i] \in {"++", "--"} /\ i > 1 /\ Ends(s, i - 1)

Depth(s, i) == Cardinality({j \in 1 .. i - 1 : s[j] \in {"(", "["}})
                 - Cardinality({j \in 1 .. i - 1 : s[j] \in {")", "]"}})
Outer(s, toks) == {i \in DOMAIN s : s[i] \in toks /\ Depth(s, i) = 0}
Infix(s, toks) == {i \in Outer(s, toks) : i > 1 /\ Ends(s, i - 1)}

\* The pieces of s between the positions of at.
Pieces(s, at) == LET cut == <<0>> \o SetToSortSeq(at, <) \o <<Len(s) + 1>>
                 IN [i \in 1 .. Len(cut) - 1 |-> SubSeq(s, cut[i] + 1, cut[i + 1] - 1)]

RECURSIVE Tree(_)
Operand(s) ==
    LET z == s[Len(s)]
        open == Outer(s, {"(", "["}) IN
    CASE s[1] \in PreOps -> T("pre", s[1], <<Tree(Tail(s))>>)
      [] z \in PostToks -> T("post", z, <<Tree(Front(s))>>)
      [] z = "]" /\ open # {} ->
           T("index", "[", <<Tree(SubSeq(s, 1, Max(open) - 1)), Tree(SubSeq(s, Max(open) + 1, Len(s) - 1))>>)
      [] z = ")" /\ open = {1} -> Tree(SubSeq(s, 2, Len(s) - 1))
      [] Len(s) = 1 /\ z \in DOMAIN Vars -> T("var", z, <<>>)
      [] Len(s) = 1 /\ z \in DOMAIN Lits -> T("lit", z, <<>>)
      [] OTHER -> Bad

Tree(s) ==
    LET used == {k \in DOMAIN Precedence : Infix(s, Precedence[k]) # {}}
        toks == Precedence[Min(used)]
        at == Infix(s, toks)
        cut == CASE toks = Relations -> at [] toks = Assigns -> {Min(at)} [] OTHER -> {Max(at)}
        kids == LET p == Pieces(s, cut) IN [i \in DOMAIN p |-> Tree(p[i])]
        op == [i \in 1 .. Cardinality(cut) |-> s[SetToSortSeq(cut, <)[i]]]
    IN CASE s = <<>> -> Bad
         [] s # <<>> /\ used = {} -> Operand(s)
         [] used # {} /\ toks = Relations ->      \* term, relation, term, ... term
              T("chain", "", [i \in 1 .. 2 * Len(kids) - 1 |->
                                IF i % 2 = 1 THEN kids[(i + 1) \div 2] ELSE T("rel", op[i \div 2], <<>>)])
         [] used # {} /\ toks = Assigns -> T("assign", op[1], kids)
         [] OTHER -> T("bin", op[1], kids)

RECURSIVE Nodes(_)
Nodes(t) == {t} \cup UNION {Nodes(t.a[i]) : i \in DOMAIN t.a}

-----------------------------------------------------------------------------
(* Types.  NoType: the expression is refused.                              *)
NoType == [k |-> "none", size |-> 0]
Decay(ty) == IF ty.k = "arr" THEN ptr_to(ty.base) ELSE ty
ArithType(l, r) == IF value_unsig(l) \/ value_unsig(r) THEN U64 ELSE I64
SumType(l, r) == CASE l.k = "ptr" /\ r.k # "ptr" -> l
                   [] l.k # "ptr" /\ r.k = "ptr" -> r
                   [] OTHER -> ArithType(l, r)
Logic == Relations \cup {"==", "!=", "&&", "^^", "||"}

\* A place in memory, and a place that is written.
Place(t) == \/ t.k \in {"var", "index"}
            \/ t.k = "pre" /\ t.x = "*"
            \/ t.k = "post" /\ t.x \notin {"++", "--"} \cup DOMAIN Casts
Steps(t) == t.k \in {"pre", "post"} /\ t.x \in {"++", "--"}
Modifies(t) == t.k = "assign" \/ Steps(t)

RECURSIVE TypeOf(_)
TypeOf(t) ==
    LET l == TypeOf(t.a[1])
        r == TypeOf(t.a[2])
        ptr == Decay(l)
        Has(ty, f) == ty.k = "class" /\ f \in DOMAIN ty.mem IN
    CASE t.k = "bad" -> NoType
      [] t.k = "var" -> Vars[t.x].ty
      [] t.k \in {"lit", "rel"} -> I64
      [] t.a # <<>> /\ \E i \in DOMAIN t.a : TypeOf(t.a[i]).k = "none" -> NoType
      [] Modifies(t) -> IF Place(t.a[1]) /\ l.k # "arr" THEN value_type(l) ELSE NoType
      [] t.k = "pre" /\ t.x = "+" -> l
      [] t.k = "pre" /\ t.x = "&" -> IF Place(t.a[1]) THEN ptr_to(l) ELSE NoType
      [] t.k = "pre" /\ t.x = "*" -> IF ptr.k = "ptr" THEN ptr.base ELSE NoType
      [] t.k = "pre" /\ t.x \in {"-", "!", "~", "sizeof"} -> I64
      [] t.k = "post" /\ t.x \in DOMAIN Casts -> Casts[t.x]
      [] t.k = "post" /\ t.x \in DOMAIN Views ->
           IF l.k = "int" /\ Views[t.x].size < l.size /\ Place(t.a[1])
           THEN array_of(Views[t.x], l.size \div Views[t.x].size) ELSE NoType
      [] t.k = "post" /\ t.x \in DOMAIN Fields ->
           IF Has(l, Fields[t.x]) THEN l.mem[Fields[t.x]].ty ELSE NoType
      [] t.k = "post" /\ t.x \in DOMAIN Arrows ->
           IF ptr.k = "ptr" /\ Has(ptr.base, Arrows[t.x]) THEN ptr.base.mem[Arrows[t.x]].ty ELSE NoType
      [] t.k = "index" -> LET s == SumType(ptr, Decay(r)) IN IF s.k = "ptr" THEN s.base ELSE NoType
      [] t.k = "chain" \/ (t.k = "bin" /\ t.x \in Logic) -> I64
      [] t.k = "bin" /\ t.x = "," -> Decay(r)
      [] t.k = "bin" /\ t.x \in {"+", "-"} -> SumType(ptr, Decay(r))
      [] OTHER -> ArithType(l, r)

-----------------------------------------------------------------------------
(* Values.  An outcome of the reference also keeps hi, the greatest        *)
(* magnitude an integer had on the way, far, the longest shift, and cut,   *)
(* whether a "store" or a "cast" to a narrow type lost bits.               *)
Magnitude(v, ty) == IF value_unsig(ty) THEN v
                    ELSE LET n == Signed(v, Bits) IN IF n < 0 THEN -n ELSE n
Seen(o, ty) == IF ty.k = "int" THEN [o EXCEPT !.hi = Max({@, Magnitude(o.v, ty)})] ELSE o

Cut(o, ty, v, by) == IF Narrow(ty) /\ Narrowed(v, ty) # v THEN [o EXCEPT !.cut = @ \cup {by}] ELSE o

Instr(op, unsig) ==
    CASE op = "+" -> "add" [] op = "-" -> "sub" [] op = "*" -> "mul"
      [] op = "/" -> IF unsig THEN "udiv" ELSE "sdiv"
      [] op = "%" -> IF unsig THEN "urem" ELSE "srem"
      [] op = "&" -> "and" [] op = "|" -> "or" [] op = "^" -> "xor" [] op = "<<" -> "shl"
      [] op = ">>" -> IF unsig THEN "lshr" ELSE "ashr"
      [] op = "==" -> "eq" [] op = "!=" -> "ne"
      [] op \in {"<", ">"} -> IF unsig THEN "ult" ELSE "slt"
      [] op \in {"<=", ">="} -> IF unsig THEN "ule" ELSE "sle"

\* a op b for operands of types l and r.
Compute(o0, op, l, r, a, b) ==
    LET unsig == value_unsig(l) \/ value_unsig(r)
        o1 == IF unsig THEN Seen(Is(Seen(Is(o0, a), U64), b), U64) ELSE o0
        o == IF op \in {"<<", ">>"} THEN [o1 EXCEPT !.far = Max({@, b})] ELSE o1 IN
    CASE op = "-" /\ l.k = "ptr" /\ r.k = "ptr" -> Does(o, "sdiv", Word(a - b), elem_size(l))
      [] op \in {"+", "-"} /\ l.k = "ptr" /\ r.k # "ptr" ->
           Does(o, Instr(op, FALSE), a, Word(b * elem_size(l)))
      [] op = "+" /\ l.k # "ptr" /\ r.k = "ptr" -> Does(o, "add", b, Word(a * elem_size(r)))
      [] op \in {">", ">="} -> Does(o, Instr(op, unsig), b, a)
      [] op = "^^" -> Is(o, Bool((a = 0) # (b = 0)))
      [] OTHER -> Does(o, Instr(op, unsig), a, b)

RECURSIVE RefVal(_, _), RefPlace(_, _), RefChain(_, _, _)

\* The address a place designates.
RefPlace(t, o) ==
    LET l == Decay(TypeOf(t.a[1]))
        r == Decay(TypeOf(t.a[2]))
        q == Two(RefVal, t.a[1], t.a[2], o, TRUE) IN
    CASE t.k = "var" -> Is(o, Vars[t.x].at)
      [] t.k = "pre" -> RefVal(t.a[1], o)
      [] t.k = "index" -> Compute(q.o, "+", l, r, q.a, q.b)
      [] t.x \in DOMAIN Views -> RefPlace(t.a[1], o)
      [] t.x \in DOMAIN Fields ->
           LET p == RefPlace(t.a[1], o) IN Is(p, p.v + l.mem[Fields[t.x]].off)
      [] t.x \in DOMAIN Arrows ->
           LET p == RefVal(t.a[1], o) IN Is(p, Word(p.v + l.base.mem[Arrows[t.x]].off))

\* The relations from position i on, o.v the value of the term before them.
RefChain(t, i, o) ==
    LET b == RefVal(t.a[i + 1], o)
        c == Compute(b, t.a[i].x, Decay(TypeOf(t.a[i - 1])), Decay(TypeOf(t.a[i + 1])), o.v, b.v)
    IN IF c.v = 0 \/ ~c.ok \/ i + 1 = Len(t.a) THEN c ELSE RefChain(t, i + 2, Is(c, b.v))

\* The new value of place p, of type l: what "=", "op=", "++" and "--" store.
RefStore(t, l, p, old) ==
    LET r == RefVal(t.a[2], p)
        new == CASE Steps(t) -> Compute(p, IF t.x = "++" THEN "+" ELSE "-", l, I64, old, 1)
                 [] t.x = "=" -> r
                 [] OTHER -> Compute(r, Base[t.x], l, Decay(TypeOf(t.a[2])), old, r.v)
        done == Cut(Write(Seen(new, value_type(l)), p.v, l, new.v), l, new.v, "store")
    IN IF t.k = "post" THEN Is(done, old) ELSE done

RefVal0(t, o) ==
    LET ty == TypeOf(t)
        l == TypeOf(t.a[1])
        one == RefVal(t.a[1], o)
        two == RefVal(t.a[2], one) IN
    CASE ~o.ok -> o
      [] t.k = "lit" -> Is(o, Lits[t.x])
      [] Place(t) -> LET p == RefPlace(t, o)
                     IN IF is_agg(ty) \/ ~p.ok THEN p ELSE Read(p, p.v, ty)
      [] Modifies(t) -> LET p == RefPlace(t.a[1], o)
                            old == Read(p, p.v, l)
                        IN IF old.ok THEN RefStore(t, l, p, old.v) ELSE old
      [] t.k = "pre" /\ t.x = "+" -> one
      [] t.k = "pre" /\ t.x = "-" -> Is(one, Word(-one.v))
      [] t.k = "pre" /\ t.x = "!" -> Is(one, Bool(one.v = 0))
      [] t.k = "pre" /\ t.x = "~" -> Is(one, 2^Bits - 1 - one.v)
      [] t.k = "pre" /\ t.x = "&" -> RefPlace(t.a[1], o)
      [] t.k = "pre" /\ t.x = "sizeof" -> Is(o, l.size)
      [] t.k = "post" -> Cut(Is(one, IF Narrow(ty) THEN Narrowed(one.v, ty) ELSE one.v), ty, one.v, "cast")
      [] t.k = "chain" -> RefChain(t, 2, one)
      [] t.x = "," -> two
      [] t.x = "&&" -> IF one.v = 0 \/ ~one.ok THEN one ELSE Is(two, Bool(two.v # 0))
      [] t.x = "||" -> IF one.v # 0 \/ ~one.ok THEN Is(one, 1) ELSE Is(two, Bool(two.v # 0))
      [] OTHER -> IF two.ok THEN Compute(two, t.x, Decay(l), Decay(TypeOf(t.a[2])), one.v, two.v) ELSE two
RefVal(t, o) == Seen(RefVal0(t, o), TypeOf(t))

-----------------------------------------------------------------------------
(* The order of an operator's operands is not the language's to say: an    *)
(* expression is clean when no operand writes what its sibling reads or    *)
(* writes.  A place reached through a pointer may be any variable.         *)
RECURSIVE Target(_), AddrReads(_), Reads(_), Writes(_)
Target(t) == CASE t.k = "var" -> {t.x}
               [] t.k = "post" /\ t.x \in DOMAIN Views \cup DOMAIN Fields -> Target(t.a[1])
               [] OTHER -> DOMAIN Vars
AddrReads(t) == CASE t.k = "var" -> {}
                  [] t.k = "post" /\ t.x \in DOMAIN Views \cup DOMAIN Fields -> AddrReads(t.a[1])
                  [] OTHER -> UNION {Reads(t.a[i]) : i \in DOMAIN t.a}
Reads(t) == (IF Place(t) THEN Target(t) ELSE {}) \cup UNION {Reads(t.a[i]) : i \in DOMAIN t.a}
Writes(t) == (IF Modifies(t) THEN Target(t.a[1]) ELSE {}) \cup UNION {Writes(t.a[i]) : i \in DOMAIN t.a}

Apart(a, b) == /\ Writes(a) \cap (Reads(b) \cup Writes(b)) = {}
               /\ Writes(b) \cap (Reads(a) \cup Writes(a)) = {}
Clean(t) ==
    \A n \in Nodes(t) :
      /\ n.k = "index" \/ (n.k = "bin" /\ n.x \notin {",", "&&", "||"}) => Apart(n.a[1], n.a[2])
      /\ n.k = "chain" => \A i \in DOMAIN n.a : i + 2 \in DOMAIN n.a => Apart(n.a[i], n.a[i + 2])
      /\ n.k = "assign" =>
           /\ Writes(n.a[1]) \cap (Reads(n.a[2]) \cup Writes(n.a[2])) = {}
           /\ Writes(n.a[2]) \cap AddrReads(n.a[1]) = {}
           /\ n.x # "=" => Writes(n.a[2]) \cap Target(n.a[1]) = {}
=============================================================================
