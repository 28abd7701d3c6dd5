---------------------------- MODULE ControlTree ----------------------------
(***************************************************************************)
(* Statements: a record whose field k names its kind; a body is a sequence *)
(* of statements.  HolyC source and the tree the parser builds share the   *)
(* syntax: source has "switch" and "break", which the parser lowers to     *)
(* "goto", "label" and tests on temporaries ("set", "in").  Every          *)
(* observable expression is an "out", which reports its own name.          *)
(***************************************************************************)
EXTENDS Integers, Sequences, FiniteSets

NoLabel == <<>>
UserLabel == <<"u", <<>>>>   \* the one label a program may define

\* What a condition asks: the program's input, or a temporary's range.
Ask == [t |-> "ask"]
In(v, lo, hi) == [t |-> "in", v |-> v, lo |-> lo, hi |-> hi]
Value(env, v) == IF v \in DOMAIN env THEN env[v] ELSE 0

Simple == {"out", "set", "read"}
Loops == {"while", "do", "for"}
Lowered == Simple \cup Loops \cup {"block", "if", "return", "goto", "label"}

(* The bodies inside a statement, in the order of their text.              *)
Bodies(s) ==
    CASE s.k = "if" -> <<s.then, s.els>>
      [] s.k \in {"block", "switch"} -> <<s.body>>
      [] s.k \in Loops -> <<s.init, s.body, s.inc>>
      [] OTHER -> <<>>

(***************************************************************************)
(* The trees a backend may be given.  S holds the statements of the tree,  *)
(* at every depth; D[n] the labels that n defines, itself or inside.  What *)
(* the parser builds has such S and D: no label is defined twice, every    *)
(* goto has a label of the tree, and the clauses of a for are expressions. *)
(***************************************************************************)
Inside(n) ==
    CASE n.k = "if" -> n.then \o n.els
      [] n.k = "block" -> n.body
      [] n.k \in {"while", "for"} -> n.init \o n.body \o n.inc
      [] n.k = "do" -> n.body
      [] OTHER -> <<>>

DefinedIn(ss, D) == UNION {D[ss[i]] : i \in DOMAIN ss}
DefinedOnce(ss, D) == \A i, j \in DOMAIN ss : i # j => D[ss[i]] \cap D[ss[j]] = {}

Plain(n) == n.k \in Simple \/ (n.k = "block" /\ \A i \in DOMAIN n.body : n.body[i].k \in Simple)

Labelling(tree, S, D) ==
    /\ tree \in Seq(S) /\ DefinedOnce(tree, D)
    /\ \A n \in S :
         /\ n.k \in Lowered
         /\ \A i \in DOMAIN Bodies(n) : Bodies(n)[i] \in Seq(S)
         /\ DefinedOnce(Inside(n), D)
         /\ D[n] = IF n.k = "label" THEN {n.l} ELSE DefinedIn(Inside(n), D)
         /\ n.k = "goto" => n.l \in DefinedIn(tree, D)
         /\ n.k \in {"while", "for"} => /\ \A i \in DOMAIN n.init : Plain(n.init[i])
                                        /\ \A i \in DOMAIN n.inc : Plain(n.inc[i])

WellLabelled(tree) == \E S, D : Labelling(tree, S, D)
=============================================================================
