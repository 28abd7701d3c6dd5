------------------------------- MODULE MCExpr -------------------------------
(* Variables, memories and families of expressions for Expr. *)
EXTENDS Expr

Pair == Class(5, [lo |-> [ty |-> U8, off |-> 0], hi |-> [ty |-> I64, off |-> 1]])
V(ty, at) == [ty |-> ty, at |-> at]
MCVars == [x |-> V(I64, 4), y |-> V(I64, 8), u |-> V(U64, 12), b |-> V(U8, 16), c |-> V(I8, 17),
           h |-> V(U16, 18), p |-> V(ptr_to(I16), 20), a |-> V(array_of(I16, 2), 24),
           k |-> V(Pair, 28), q |-> V(ptr_to(Pair), 33)]
MCTaken == {"y"}
MCLits == ("0" :> 0) @@ ("1" :> 1) @@ ("2" :> 2) @@ ("3" :> 3) @@ ("7" :> 7) @@ ("100" :> 100) @@ ("200" :> 200)
MCCasts == ("(U8)" :> U8) @@ ("(I8)" :> I8) @@ ("(U64)" :> U64) @@ ("(I64)" :> I64)
MCViews == (".u8" :> U8) @@ (".i8" :> I8) @@ (".u16" :> U16)
MCFields == (".lo" :> "lo") @@ (".hi" :> "hi")
MCArrows == ("->lo" :> "lo") @@ ("->hi" :> "hi")

\* x, y, u, b, c, h, p, a[0], a[1], k.lo, k.hi, q
Cells == <<V(I64, 4), V(I64, 8), V(U64, 12), V(U8, 16), V(I8, 17), V(U16, 18), V(I64, 20), V(I16, 24), V(I16, 26),
           V(U8, 28), V(I64, 29), V(I64, 33)>>
Holding(vs) == FoldLeft(LAMBDA m, i : Store(m, Cells[i].at, Cells[i].ty, Word(vs[i])),
                        [a \in 4 .. 36 |-> 0], [i \in DOMAIN vs |-> i])
Small == Holding(<<2, 3, 1, 1, -1, 4, 24, 1, -2, 2, 5, 28>>)
Mixed == Holding(<<5, -3, 2, 3, -2, 9, 24, 7, -8, 1, 100, 28>>)
Edges == Holding(<<-128, 0, 255, 0, 1, 15, 26, -1, 3, 3, -1, 28>>)

-----------------------------------------------------------------------------
Arithmetic == {"+", "-", "*", "/", "%", "&", "|", "^", "<<", ">>"}
Binary == Arithmetic \cup Logic
Paren(e) == <<"(">> \o e \o <<")">>

Trees(l, m, r) == {l \o <<f>> \o m \o <<g>> \o r : f, g \in Binary}
Nested == Trees(<<"x">>, <<"y">>, <<"u">>) \cup Trees(<<"c">>, <<"3">>, <<"b">>)
            \cup {<<"x", f>> \o Paren(<<"y", g, "b">>) : f, g \in Binary}
Signs == {<<f, "x", g, h, "y">> : f, h \in {"-", "!", "~"}, g \in Binary}
           \cup {<<f, g, e>> : f, g \in {"-", "+", "!", "~"}, e \in {"x", "c", "3"}}
           \cup {<<"-">> \o Paren(<<"-", "x", "(I64)">>), <<"-">> \o Paren(<<"-", "k", ".hi">>), <<"-">> \o Paren(<<"x", "+", "y">>)}

Places == {<<"x">>, <<"u">>, <<"b">>, <<"c">>, <<"a", "[", "1", "]">>, <<"p", "[", "1", "]">>, <<"1", "[", "p", "]">>,
           <<"*", "p">>, <<"k", ".hi">>, <<"q", "->lo">>, <<"x", ".u16", "[", "1", "]">>,
           <<"x", ".u16", "[", "1", "]", ".u8", "[", "0", "]">>, <<"y", ".i8", "[", "3", "]">>,
           <<"*", "p", "++">>, <<"a", "[", "h", "++", "&", "1", "]">>}
Storing == {l \o <<op>> \o r : l \in Places, op \in Assigns, r \in {<<"3">>, <<"c">>, <<"y", "-", "1">>}}
             \cup {<<"p", op, "1">> : op \in {"+=", "-="}}
             \cup {<<"x", "=">> \o l \o <<"=", "100">> : l \in Places}
             \cup {l \o <<"=", "100", ",", "x", "+", "1">> : l \in Places}
Stepping == {l \o <<op>> : l \in Places, op \in {"++", "--"}} \cup {<<op>> \o l : l \in Places, op \in {"++", "--"}}
              \cup {Paren(l) \o <<"++", "*", "2">> : l \in Places} \cup {<<"3", "-", "--">> \o l : l \in Places}
              \cup {<<"p", "++">>, <<"--", "p">>, <<"q", "++", "->hi">>, Paren(<<"*", "p">>) \o <<"++">>, <<"*", "++", "p">>}
Chains == {<<"x", f, "y", "++", g, "u">> : f, g \in Relations}
            \cup {<<"0", f, "x", g, "b", "++", h, "7">> : f, g, h \in Relations}
            \cup {<<"a", f, "p", g, "a", "+", "1">> : f, g \in Relations}
Effects == {Paren(<<"x", f, "y", "++">>) \o <<g, "u">> : f, g \in {"&&", "||", "^^", ","}}
             \cup {<<"!", "x", f, "b", "=", "2">> : f \in {"=", "+="}}
             \cup {<<"x", f>> \o Paren(<<"y", "=", "3">>) \o <<g, "!", "u">> : f, g \in {"&&", "||", "^^", "==", "<", "+"}}
             \cup {<<"x", "=", "y", op, "u", "=", "7">> : op \in {"+", "=", "+=", ","}}
\* Values of narrow assignments, which C computes on in its int.
Narrows == {Paren(<<e, "=", v>>) : e \in {"b", "c", "h"}, v \in {"1", "3", "c"}}
Halves == {n \o <<op, "2">> : n \in Narrows, op \in Arithmetic} \cup {<<op>> \o n : op \in {"-", "~", "!"}, n \in Narrows}
            \cup {Paren(<<"b", "=", v>>) \o <<op>> \o Paren(<<"c", "=", w>>) : op \in Binary, v, w \in {"1", "3"}}
            \cup {<<"p", "+">> \o n : n \in Narrows}
            \cup {Paren(Paren(<<"h", "=", "1">>) \o <<"(I64)", op>> \o Paren(<<"c", "=", "2">>)) \o <<"<<", "1">> : op \in {"*", "-", "+"}}
Casting == {<<e, t, op, "y">> : e \in {"x", "c", "200"}, t \in DOMAIN MCCasts, op \in {"/", ">>", "<", "+", "=="}}
             \cup {Paren(<<"x", op, "h">>) \o <<t>> : t \in DOMAIN MCCasts, op \in {"*", "-"}}
Pointing == {<<"p", "+", "1">>, <<"1", "+", "p">>, <<"p", "-", "1">>, <<"&", "a", "[", "1", "]", "-", "p">>,
             <<"*">> \o Paren(<<"p", "+", "1">>), <<"*", "&", "x", "=", "3">>, <<"&", "x", "==", "&", "x">>,
             <<"a", "[", "0", "]", "+", "p", "[", "1", "]">>, <<"sizeof", "a">>, <<"sizeof", "(", "x", "+", "b", ")", "*", "2">>,
             <<"sizeof", "b", "+", "1">>, <<"&", "q", "->hi", "==", "&", "k", ".hi">>, <<"*", "a">>, <<"!", "a">>, <<"~", "p">>,
             Paren(<<"*", "q">>) \o <<".lo">>, <<"&", "k", ".lo">>, <<"*", "&", "a", "[", "1", "]">>, <<"-", "a", "[", "1", "]">>}
Refusable == {<<"x", "+">>, <<"(", "x">>, <<"x", ")">>, <<>>, <<"x", "y">>, <<"++", "3">>, <<"3", "=", "x">>, <<"a", "=", "x">>,
              <<"&", "3">>, <<"*", "x">>, <<"x", "[", "1", "]">>, <<"b", ".u8", "[", "0", "]">>, <<"h", ".u16">>,
              Paren(<<"x", "+", "y">>) \o <<"++">>, <<"a", "++">>, <<"x", "+", "y", "=", "3">>, <<"x", ".lo">>, <<"k", ".u8">>,
              <<"x", "->lo">>, <<"p", "->lo">>, Paren(<<"x", "+", "1">>) \o <<".u8">>, <<"p", "[", "p", "]">>, <<"x", "[", "1">>,
              <<"&", "x", "++">>, <<"x", "++", "++">>, <<"x", "<", ">", "y">>, <<"h", ".u8", "[", "1", "]">>,
              <<"x", ".u8", "+=", "1">>, <<"+", ".lo">>, <<"*">>, <<"x", "=">>, <<"x", ",">>, <<"<<", "x">>}
Literal == Trees(<<"7">>, <<"2">>, <<"3">>) \cup Trees(<<"-", "100">>, <<"1">>, <<"-", "2">>)
             \cup {<<f, g, "3", h, "2">> : f, g \in {"-", "+", "!", "~"}, h \in Binary}
             \cup {<<"-">> \o Paren(<<"1", op, "100">>) \o <<">>", "2">> : op \in Binary}
             \cup {<<"200", op, "0", "+", "1">> : op \in Binary}
             \cup {Paren(<<"-", "100">>) \o <<t, op, "2", u>> : t, u \in DOMAIN MCCasts, op \in Binary}

-----------------------------------------------------------------------------
\* Classes: bytes, words and pointers of the real sizes.
Num(size) == [base |-> [k |-> "num", size |-> size], len |-> 0]
Obj(c) == [base |-> [k |-> "class", name |-> c], len |-> 0]
Arr(ty, n) == [ty EXCEPT !.len = n]
OpenAs(c, parent, union, all) == [op |-> "open", name |-> c, parent |-> parent, union |-> union, all |-> all]
Move(to) == [op |-> "move", to |-> to, rel |-> FALSE]
Skip(by) == [op |-> "move", to |-> by, rel |-> TRUE]
F(name, ty) == [op |-> "field", name |-> name, ty |-> ty, align |-> 0]
FAt(name, ty, n) == [F(name, ty) EXCEPT !.align = n]
Close == [op |-> "close"]
Declares(c) == [op |-> "forward", name |-> c]

Heads(c, parent) == {<<OpenAs(c, parent, u, all)>> : u \in BOOLEAN, all \in {0, -1, 4}}
First == {<<F("a", Num(1))>>, <<Move(-16), F("a", Num(8)), Skip(4), F("b", Num(2))>>, <<F("a", Num(8)), Move(1)>>,
          <<F("a", Arr(Num(1), 3)), FAt("b", Num(8), -1)>>, <<FAt("a", Num(2), 16), Move(0), F("b", Num(4))>>}
Second == {<<>>, <<F("c", Num(8)), Move(2), F("d", Num(4)), Skip(8)>>, <<F("c", Obj("A"))>>, <<F("c", Num(1)), F("d", Arr(Obj("A"), 2)), F("e", Num(4))>>,
           <<F("c", Num(2)), Move(-8), F("d", Num(4)), Move(-4), F("e", Num(1)), FAt("f", Obj("A"), -1)>>,
           <<FAt("c", Num(1), 4), F("d", Obj("B"))>>, <<F("c", Num(8)), Skip(-4), F("d", Num(8)), F("e", Obj("X"))>>,
           <<F("c", Arr(Obj("B"), 2)), F("d", Num(8))>>}
Units == {h \o f \o <<Close>> \o g \o s \o <<Close>> :
            h \in Heads("A", ""), f \in First, g \in Heads("B", "") \cup Heads("B", "A"), s \in Second}
           \cup {<<Declares("A")>> \o h \o <<F("p", Num(8)), F("q", Obj("A")), Close>> : h \in Heads("B", "") \cup Heads("B", "X")}
           \cup {<<Declares("A")>> \o h \o <<F("p", Arr(Obj("A"), 2)), F("q", Num(8)), Close>> \o g \o f \o <<Close>> :
                   h \in Heads("B", "") \cup Heads("B", "A"), g \in Heads("A", ""), f \in First}
           \cup {<<Declares("A")>> \o h \o f \o <<Close>> \o g \o <<F("c", Num(1)), F("d", Obj("A")), Close>> \o
                  i \o <<F("e", Num(2)), F("g", Arr(Obj("B"), 2)), Close>> :
                   h \in Heads("A", ""), f \in First, g \in Heads("B", "A"), i \in Heads("C", "B")}
           \cup {<<OpenAs("A", "", FALSE, all)>> \o f \o <<Close, OpenAs("B", p, FALSE, 0), F("c", Num(2)), Close>> \o g \o s \o <<Close>> :
                   all \in {0, -1}, f \in First, p \in {"", "A"}, g \in Heads("B", "") \cup Heads("B", "A"), s \in Second}

\* They are units of the kind the theorems about ClassLayout speak of.
ASSUME UnitsAssumption == Units \subseteq DeclSeqs({"A", "B", "C", "X"})

In(S, M) == [decl : {<<>>}, src : S, mem : M]
MCInputs == In(Nested \cup Signs \cup Storing \cup Halves \cup Chains \cup Effects, {Small, Mixed, Edges})
              \cup In(Stepping \cup Casting \cup Pointing, {Small, Mixed, Edges})
              \cup In(Refusable \cup Literal, {Small})
              \cup [decl : Units, src : {<<"0">>}, mem : {Small}]

\* A child of a class with members below zero, an array of a class that is
\* completed later, a narrow assignment used as a value and under an operator,
\* and a negated negation.
MCOddities ==
    [decl : {<<OpenAs("P", "", FALSE, 0), Move(-16), F("lo", Num(8)), F("hi", Num(8)), F("pos", Num(8)), Close,
               OpenAs("K", "P", FALSE, 0), F("own", Num(8)), Close,
               Declares("A"), OpenAs("B", "", FALSE, 0), F("tag", Num(1)), F("arr", Arr(Obj("A"), 2)), F("x", Num(8)), Close,
               OpenAs("A", "", FALSE, 0), F("y", Num(8)), Close>>},
     src : {<<"x", "=", "b", "=", "100", ",", "u", "=">> \o Paren(<<"c", "=", "3">>) \o <<"<<", "3", ",", "-">> \o Paren(<<"-", "y">>)},
     mem : {Mixed}]
=============================================================================
