-------------------------------- MODULE Expr --------------------------------
(***************************************************************************)
(* A unit on its way through the compiler: classes, which are laid out,    *)
(* and an expression, which is parsed and lowered or refused, then folded  *)
(* as a constant or run by one of the backends.  A #if reads the same      *)
(* tokens.  ExprLang says what the result must be.                         *)
(***************************************************************************)
EXTENDS ExprC, ExprLl, ExprJs, ExprConst, ClassLayout

CONSTANT Inputs          \* classes, tokens and the memory they run in

VARIABLES src, mem,
          tree,          \* the lowered expression, Nil before the parser ran
          ran,           \* who computed a result, and the result
          ref            \* history: what the language says of src
exprVars == <<src, mem, tree, ran, ref>>
vars == <<src, mem, tree, ran, ref, todo, classes, lay, refused>>

NotRun == [by |-> "none"]
Start(m) == [v |-> 0, m |-> m, r |-> [x \in Range(TempNames) |-> 0], ok |-> TRUE]

\* JavaScript's own variables start with the values memory shows.
JsTaken == Taken \cup AddressTaken(tree)
Natives == {x \in DOMAIN Vars : ~is_agg(Vars[x].ty) /\ x \notin JsTaken}
JsStart(m) ==
    [v |-> JNum(0), m |-> m, ok |-> TRUE,
     r |-> [x \in Range(TempNames) \cup Natives |->
              IF x \in Natives THEN ld_fn(Start(m), Vars[x].at, Vars[x].ty).v ELSE JNum(0)]]

\* The unlowered expression, whether it has a meaning, and its outcome.
Unread == [t |-> Bad, typed |-> FALSE, clean |-> FALSE]
Meaning(t) ==
    IF TypeOf(t).k = "none" THEN [Unread EXCEPT !.t = t]
    ELSE [t |-> t, typed |-> TRUE, clean |-> Clean(t),
          out |-> RefVal(t, Start(mem) @@ [hi |-> 0, far |-> 0, cut |-> {}])]

Init == /\ \E in \in Inputs : src = in.src /\ mem = in.mem /\ LayoutInit(in.decl)
        /\ tree = Nil
        /\ ran = NotRun
        /\ ref = Unread

Layout == LayoutNext /\ UNCHANGED exprVars

Ready == LayoutDone /\ ~refused /\ ran = NotRun
Parse == /\ tree = Nil /\ Ready
         /\ tree' = Parsed(src)
         /\ ref' = Meaning(Tree(src))
         /\ UNCHANGED <<src, mem, ran, layoutVars>>

Result(who, out) == /\ ran' = [by |-> who, out |-> out]
                    /\ UNCHANGED <<src, mem, tree, ref, layoutVars>>
Directive == tree # Nil /\ Ready /\ Result("if", pp_eval_line(src))
Computes(who, out) == tree.k \notin {"nil", "err"} /\ Ready /\ Result(who, out)
Fold == Computes("const", eval_const(tree))
RunC == \E lr \in BOOLEAN : Computes("c", CVal(tree, Start(mem), lr))
RunLl == Computes("llvm", LlVal(tree, Start(mem)))
RunJs == Computes("js", JsVal(tree, JsStart(mem), JsTaken))

Next == Layout \/ Parse \/ Directive \/ Fold \/ RunC \/ RunLl \/ RunJs
Spec == Init /\ [][Next]_vars

-----------------------------------------------------------------------------
Same == ran.out.ok /\ ran.out.v = ref.out.v /\ ran.out.m = ref.out.m

\* The places where the native backends are known to differ from the
\* reference: C uses the value of an assignment to a narrow place, computes on
\* such values in its int, and negates a negation (see the findings).
NarrowStore(n) == Modifies(n) /\ n.k # "post" /\ Narrow(TypeOf(n.a[1]))
UsesNarrow(t) == \E n \in Nodes(t) : NarrowStore(n) /\ ~\E c \in Nodes(t) : c.k = "bin" /\ c.x = "," /\ c.a[1] = n
Half == Bits \div 2
InInt(t) == \E n \in Nodes(t) : LET Has(i) == \E m \in Nodes(n.a[i]) : NarrowStore(m) IN
               \/ n.k = "pre" /\ n.x \in {"-", "~"} /\ Has(1)
               \/ n.k = "bin" /\ n.x \in {"<<", ">>"} /\ Has(1)
               \/ n.k \in {"bin", "index"} /\ \E i \in {1, 2} : Has(i) /\ (Has(3 - i) \/ Decay(TypeOf(n.a[3 - i])).k = "ptr")
               \/ n.k = "chain" /\ Cardinality({i \in DOMAIN n.a : Has(i)}) > 1
LeavesInt(t) == \/ ref.out.hi >= 2^(Half - 1) \/ ref.out.far >= Half
                \/ \E n \in Nodes(t) : NarrowStore(n) /\ TypeOf(n.a[1]) = IntTy(WordSize \div 2, TRUE)
RECURSIVE Signless(_)
Signless(t) == IF (t.k = "pre" /\ t.x = "+") \/ (t.k = "post" /\ t.x \in DOMAIN Casts /\ ~Narrow(Casts[t.x]))
               THEN Signless(t.a[1]) ELSE t
Minus(t) == t.k = "pre" /\ t.x = "-"
DoubleMinus(t) == \E n \in Nodes(t) : Minus(n) /\ Minus(Signless(n.a[1]))
DeviatesC == \/ "store" \in ref.out.cut /\ UsesNarrow(ref.t)
             \/ InInt(ref.t) /\ LeavesInt(ref.t)
             \/ DoubleMinus(ref.t)

\* An expression means the same to the parser's precedence climbing, its
\* lowering and the native emitters as to the language: value and memory
\* after it are those of the unlowered tree, whatever order the C compiler
\* takes the operands in (parse.c relational, assign, incdec; back_c.c and
\* back_ll.c emit_val).
NativeAsWritten ==
    ran.by \in {"c", "llvm"} /\ ref.clean /\ ref.out.ok /\ ~(ran.by = "c" /\ DeviatesC) => Same

\* "Assignment evaluates to the pre-truncation value" (doc/language.md:42-43),
\* all arithmetic is on 64-bit values, and "the class occupies [lowest offset,
\* last position] and sizeof is that span" (doc/struct.md:105-106): nothing
\* excepted, of a unit that was compiled and run natively.
UnitAsDocumented ==
    ran.by \in {"c", "llvm"} => (ref.clean /\ ref.out.ok => Same) /\ LaidOutAsDocumented

\* Where a JavaScript value may be a Boolean, and where && and || are asked
\* for more than their truth.
RECURSIVE MayBool(_)
MayBool(t) == \/ t.k = "chain"
              \/ t.k = "pre" /\ t.x = "!"
              \/ t.k = "bin" /\ t.x \in {"==", "!=", "^^"}
              \/ t.k = "bin" /\ t.x \in {"&&", "||"} /\ (MayBool(t.a[1]) \/ MayBool(t.a[2]))
              \/ t.k = "bin" /\ t.x = "," /\ MayBool(t.a[2])
              \/ t.k = "assign" /\ MayBool(t.a[2])
              \/ (t.k = "post" \/ Minus(t)) /\ MayBool(t.a[1])
Logical(t) == t.k = "bin" /\ t.x \in {"&&", "||"}
TruthOf(n) == CASE n.k = "bin" /\ n.x \in {"&&", "||", "^^"} -> {n.a[1], n.a[2]}
                [] n.k = "pre" /\ n.x = "!" -> {n.a[1]}
                [] OTHER -> {}
OnlyTruth(t) == UNION {TruthOf(n) : n \in Nodes(t)}
DeviatesJs(t) ==
    \/ ref.out.hi >= 2^(JsInt32 - 1) \/ ref.out.far >= JsInt32 \/ ref.out.cut # {}
    \/ \E n \in Nodes(t) : n.k = "bin" /\ n.x \in {"==", "!="} /\ (MayBool(n.a[1]) \/ MayBool(n.a[2]))
    \/ \E n \in Nodes(t) : Logical(n) /\ n \notin OnlyTruth(t)
                             /\ ~(\A i \in {1, 2} : MayBool(n.a[i]) /\ ~Logical(n.a[i]))
SameInJs(x) == LET at == Vars[x].at
                   ty == Vars[x].ty
               IN IF x \in Natives THEN Word(ran.out.r[x].v) = Load(ref.out.m, at, ty)
                  ELSE \A i \in at .. at + ty.size - 1 : ran.out.m[i] = ref.out.m[i]

\* JavaScript agrees as long as every integer and shift on the way fits its
\* bitwise operators and no narrow place or cast had to cut one: native variables
\* and memory, numbers and Booleans give the same value and the same
\* variables (back_js.c native_var, emit_val).
JsAsWritten ==
    ran.by = "js" /\ ref.clean /\ ref.out.ok /\ ~DeviatesJs(ref.t) =>
       /\ ran.out.ok /\ Word(ran.out.v.v) = ref.out.v
       /\ \A x \in DOMAIN Vars : SameInJs(x)

\* What eval_const does not fold as the backends compute: casts that cut, and
\* unsigned division, comparison and counts, where it looks at no type.
Unsigned(t) == value_unsig(TypeOf(t))
FoldsAs(t) == \A n \in Nodes(t) :
    /\ n.k = "post" /\ n.x \in DOMAIN Casts => ~Narrow(Casts[n.x])
    /\ n.k = "chain" \/ (n.k = "bin" /\ n.x \in {"/", "%"}) => \A i \in DOMAIN n.a : ~Unsigned(n.a[i])
    /\ n.k = "bin" /\ n.x = ">>" /\ Unsigned(n.a[2]) => Unsigned(n.a[1])

\* A constant the parser folds is the value the program would compute, so an
\* array length or a case label written as an expression is the one meant,
\* with >> by the sign of what is shifted (parse.c eval_const).
ConstAgrees == ran.by = "const" /\ ran.out.ok /\ ref.out.ok /\ FoldsAs(ref.t) => ran.out.v = ref.out.v

Constant(t) == \A n \in Nodes(t) : n.k \in {"lit", "bin", "chain", "rel"} \/ (n.k = "pre" /\ n.x \in {"+", "-", "!", "~"})
Unchained(t) == \A n \in Nodes(t) : n.k = "chain" => Len(n.a) = 3

\* #if decides as the compiled expression would, although lexpp.c has a
\* parser of its own: same precedence, same signs.  Chained comparisons are
\* documented to differ.
DirectiveAgrees ==
    ran.by = "if" /\ ran.out.ok =>
      /\ ref.typed
      /\ Constant(ref.t) /\ Unchained(ref.t) /\ ref.out.ok => ran.out.v = ref.out.v

\* The parser refuses exactly the expressions without a meaning: malformed
\* ones, assignments and ++ on what is no place, dereferences and subscripts
\* of integers, views that are not narrower than what they view.
ExprDiagnosed == tree # Nil => (tree.k = "err") = ~ref.typed
=============================================================================
