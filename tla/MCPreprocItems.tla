---------------------------- MODULE MCPreprocItems ----------------------------
(* The items sources are made of, and the files and texts around them. *)
EXTENDS PreprocRef

Id(s) == [k |-> "id", s |-> s, ne |-> FALSE]
Op(s) == [k |-> "op", s |-> s]
Num(v) == [k |-> "num", v |-> v]
Def(n, body) == [k |-> "define", n |-> n, body |-> body]
Dir(k) == [k |-> k]
On(k, n) == [k |-> k, n |-> n]
Expr(k, e) == [k |-> k, e |-> e]
Inc(f, dir) == [k |-> "include", f |-> f, dir |-> dir]
Cd(p) == [k |-> "cd", p |-> p]
Block(body, out, take, to) ==
    [k |-> "exe", body |-> body, out |-> out, take |-> take, to |-> to]

Closing == <<Id("z"), Op(";")>>
Upto(S, n) == UNION {[1..m -> S] : m \in 0..n}
SourcesOver(S, n) == {[items |-> s \o Closing] : s \in Upto(S, n)}

MCPrelude == <<Def("TRUE", <<Num(1)>>), Def("NULL", <<Num(0)>>)>>
MCExeApi == <<Def("TK_EOF", <<Num(0)>>)>>
MCDirs == {"/home", "/lib", "/inc"}
MCIncDirs == <<"/inc">>
FileTable == [d \in MCDirs |->
                CASE d = "/home" -> ("f" :> <<On("ifdef", "A"), Id("A"), Dir("endif")>>)
                  [] d = "/lib" -> ("g" :> <<Id("l")>>)
                  [] OTHER -> ("f" :> <<Id("i")>>) @@ ("g" :> <<Id("i"), Op(";")>>)]
MCFiles == FileTable

\* Conditionals and macros: TRUE is in the prelude, A may refer to itself, B
\* to A.
CondItems == {On("ifdef", "A"), On("ifndef", "B"), Dir("else"), Dir("endif"),
              Expr("if", <<Op("!"), [k |-> "defined", n |-> "A"]>>), Expr("if", <<Id("B")>>),
              Def("A", <<Id("A")>>), Def("B", <<Num(1)>>), Def("B", <<Id("A"), Id("x")>>),
              On("undef", "A"), Id("A"), Id("B")}

\* ... and conditionals nested in both branches of a conditional.
NestItems == {On("ifdef", "A"), Dir("else"), Dir("endif"), Def("A", <<Num(1)>>)}

\* The other directives, brackets, and files whose text joins the stream.
StreamItems == {On("ifdef", "A"), Dir("else"), Dir("endif"), Def("A", <<Num(2)>>),
                Expr("assert", <<Id("A")>>), Dir("help"), Dir("unknown"),
                Inc("f", "/home"), Inc("g", "/home"), Cd("/lib"), Cd("/none"),
                Op("{"), Op("}"), Op("("), Op(")"), Op(";"), Id("A"),
                Block(<<Def("A", <<Id("y")>>), Id("A")>> \o Closing, <<Def("B", <<>>), Id("q")>>, 0, "no"),
                Block(<<Cd("/lib"), On("undef", "A")>> \o Closing, <<>>, 1, "/home")}

\* Every item there is: those of the alphabets, of the texts around them, and
\* the identifiers marked.
MCItems == CondItems \cup NestItems \cup StreamItems \cup {Num(v) : v \in 0..2}
             \cup {MCPrelude[i] : i \in DOMAIN MCPrelude} \cup {MCExeApi[i] : i \in DOMAIN MCExeApi}
             \cup {[k |-> "defined", n |-> "A"], Op("!"), Def("A", <<Id("y")>>), Def("B", <<>>)}
             \cup {[Id(s) EXCEPT !.ne = b] : s \in {"A", "B", "i", "l", "q", "x", "y", "z"}, b \in BOOLEAN}

\* Sources that end anywhere.
EndSources == {[items |-> s] : s \in Upto({Id("x"), Op(";"), Op("{"), Op("}")}, 4)}
MCEndSources == EndSources
=============================================================================
