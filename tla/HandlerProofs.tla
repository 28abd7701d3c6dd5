---------------------------- MODULE HandlerProofs ----------------------------
(***************************************************************************)
(* The exception analysis is exact, and the code it leads to runs the      *)
(* right handler, for every program whose statements are finite trees; a   *)
(* catch block swallows only what it claimed, where claims do not nest.    *)
(***************************************************************************)
EXTENDS ExceptionsProofs, ExcConsumption, WellOrder

-----------------------------------------------------------------------------
(* Trees.  effect() is recursive over the statement: that the recursion    *)
(* ends, and what follows from it, is all that is needed of a tree.        *)

\* The parser builds finite trees: some measure shrinks towards the leaves.
FiniteTrees == \E size \in [Stmts -> Nat] : Shrinks(size)

\* The children of a statement are statements.
LEMMA ChildrenAre ==
    ASSUME NEW n \in Stmts
    PROVE  Children(n) \subseteq Stmts
BY StmtsAssumption DEF WellFormed, Children

\* A set of statements that holds a statement when it holds its children,
\* holds all statements.
LEMMA TreeInduction ==
    ASSUME FiniteTrees, NEW P,
           \A n \in Stmts : Children(n) \subseteq P => n \in P
    PROVE  Stmts \subseteq P
<1> PICK size \in [Stmts -> Nat] : Shrinks(size)
  BY DEF FiniteTrees
<1> DEFINE Bad == {n \in Stmts : n \notin P}
           Sizes == {size[n] : n \in Bad}
<1> SUFFICES ASSUME Bad # {} PROVE FALSE
  OBVIOUS
<1>1. Sizes \in SUBSET Nat /\ Sizes # {}
  OBVIOUS
<1>2. PICK k \in Sizes : \A m \in Sizes : k <= m
  <2> HIDE DEF Sizes
  <2> QED
    BY <1>1, LeastMember
<1>3. PICK n \in Bad : k = size[n]
  BY <1>2
<1>4. ASSUME NEW c \in Children(n) PROVE c \in P
  <2>1. c \in Stmts /\ size[c] < size[n]
    BY ChildrenAre DEF Shrinks
  <2>2. CASE c \in Bad
    <3>1. size[c] \in Sizes
      BY <2>2
    <3>2. k <= size[c] /\ size[c] \in Nat /\ size[n] \in Nat
      BY <2>1, <3>1, <1>2
    <3> QED
      BY <2>1, <3>2, <1>3
  <2> QED
    BY <2>1, <2>2
<1> QED
  BY <1>4

\* The effect of a statement depends on its children only.
LEMMA EffectLocal ==
    ASSUME NEW ct, NEW e, NEW f, NEW n \in Stmts,
           \A c \in Children(n) : e[c] = f[c]
    PROVE  effect_of(ct, e, n) = effect_of(ct, f, n)
<1>1. CASE n.op = "try"
  BY <1>1 DEF effect_of, Children, Binary, Calls
<1>2. CASE n.op \in {"seq", "if"}
  BY <1>2 DEF effect_of, Children, Binary, Calls
<1>3. CASE n.op = "loop"
  BY <1>3 DEF effect_of, Children, Binary, Calls
<1>4. CASE n.op \notin {"try", "seq", "if", "loop"}
  BY <1>4 DEF effect_of
<1> QED
  BY <1>1, <1>2, <1>3, <1>4

\* e is a solution of effect()'s equation for the statements smaller than k.
Partial(ct, size, k, e) ==
    \A n \in Stmts : size[n] < k => e[n] = effect_of(ct, e, n)

\* Two such solutions agree where both are one.
LEMMA PartialUnique ==
    ASSUME FiniteTrees, NEW ct, NEW size \in [Stmts -> Nat], Shrinks(size),
           NEW j \in Nat, NEW k \in Nat, NEW e, NEW f,
           Partial(ct, size, j, e), Partial(ct, size, k, f)
    PROVE  \A n \in Stmts : size[n] < j /\ size[n] < k => e[n] = f[n]
<1> DEFINE P == {n \in Stmts : size[n] < j /\ size[n] < k => e[n] = f[n]}
<1>1. ASSUME NEW n \in Stmts, Children(n) \subseteq P, size[n] < j, size[n] < k
      PROVE  e[n] = f[n]
  <2>1. \A c \in Children(n) : c \in Stmts /\ size[c] < size[n]
    BY ChildrenAre DEF Shrinks
  <2>2. \A c \in Children(n) : size[c] < j /\ size[c] < k
    BY <2>1, <1>1
  <2>3. \A c \in Children(n) : e[c] = f[c]
    BY <2>2, <1>1
  <2> QED
    BY <2>3, <1>1, EffectLocal DEF Partial
<1>2. \A n \in Stmts : Children(n) \subseteq P => n \in P
  BY <1>1
<1>3. Stmts \subseteq P
  <2> HIDE DEF P
  <2> QED
    BY <1>2, TreeInduction
<1> QED
  BY <1>3

\* There is one for every size.
LEMMA PartialExists ==
    ASSUME NEW ct, NEW size \in [Stmts -> Nat], Shrinks(size), NEW k \in Nat
    PROVE  \E e : Partial(ct, size, k, e)
<1> DEFINE S == {i \in Nat : \E e : Partial(ct, size, i, e)}
<1>1. 0 \in S
  <2>1. \A n \in Stmts : ~(size[n] < 0)
    OBVIOUS
  <2> QED
    BY <2>1 DEF Partial
<1>2. ASSUME NEW i \in Nat, i \in S PROVE i + 1 \in S
  <2>1. PICK e : Partial(ct, size, i, e)
    BY <1>2
  <2> DEFINE f == [n \in Stmts |-> IF size[n] <= i THEN effect_of(ct, e, n) ELSE {}]
  <2>2. ASSUME NEW n \in Stmts, size[n] < i + 1 PROVE f[n] = effect_of(ct, f, n)
    <3>1. size[n] <= i
      BY <2>2
    <3>2. ASSUME NEW c \in Children(n) PROVE e[c] = f[c]
      <4>1. c \in Stmts /\ size[c] < size[n] /\ size[c] \in Nat /\ size[n] \in Nat
        BY ChildrenAre DEF Shrinks
      <4>2. size[c] < i /\ size[c] <= i
        BY <4>1, <3>1
      <4> QED
        BY <2>1, <4>1, <4>2 DEF Partial
    <3> HIDE DEF f
    <3>3. effect_of(ct, e, n) = effect_of(ct, f, n)
      BY <3>2, EffectLocal
    <3> QED
      BY <3>1, <3>3 DEF f
  <2> HIDE DEF f
  <2>3. Partial(ct, size, i + 1, f)
    BY <2>2 DEF Partial
  <2> QED
    BY <2>3
<1>3. 0..k \subseteq S
  <2> HIDE DEF S
  <2>1. \A i \in 0..(k - 1) : i \in S => i + 1 \in S
    BY <1>2
  <2> QED
    BY <1>1, <2>1, SetInduction
<1>4. k \in S
  BY <1>3
<1> QED
  BY <1>4

\* effect() is what its recursive definition says.
LEMMA EffectIs ==
    ASSUME FiniteTrees, NEW ct, NEW n \in Stmts
    PROVE  effect(ct)[n] = effect_of(ct, effect(ct), n)
<1> PICK size \in [Stmts -> Nat] : Shrinks(size)
  BY DEF FiniteTrees
<1> DEFINE Sol(k) == CHOOSE e : Partial(ct, size, k, e)
           E == [m \in Stmts |-> Sol(size[m] + 1)[m]]
<1>1. \A k \in Nat : Partial(ct, size, k, Sol(k))
  BY PartialExists
<1>2. ASSUME NEW m \in Stmts, NEW k \in Nat, size[m] < k PROVE E[m] = Sol(k)[m]
  <2>1. size[m] + 1 \in Nat /\ size[m] < size[m] + 1
    OBVIOUS
  <2>2. Partial(ct, size, size[m] + 1, Sol(size[m] + 1)) /\ Partial(ct, size, k, Sol(k))
    BY <1>1, <2>1
  <2> HIDE DEF Sol
  <2>3. Sol(size[m] + 1)[m] = Sol(k)[m]
    BY <2>1, <2>2, <1>2, PartialUnique
  <2> QED
    BY <2>3
<1>3. ASSUME NEW m \in Stmts PROVE E[m] = effect_of(ct, E, m)
  <2> DEFINE k == size[m] + 1
  <2>1. k \in Nat /\ size[m] < k
    OBVIOUS
  <2>2. E[m] = Sol(k)[m]
    BY <1>2, <2>1
  <2>3. \A c \in Children(m) : Sol(k)[c] = E[c]
    <3>1. \A c \in Children(m) : c \in Stmts /\ size[c] < size[m] /\ size[c] \in Nat /\ size[m] \in Nat
      BY ChildrenAre DEF Shrinks
    <3>2. \A c \in Children(m) : size[c] < k
      BY <3>1
    <3> QED
      BY <3>1, <3>2, <2>1, <1>2
  <2>4. Partial(ct, size, k, Sol(k))
    BY <1>1, <2>1
  <2> HIDE DEF Sol, k, E
  <2>5. Sol(k)[m] = effect_of(ct, Sol(k), m)
    BY <2>1, <2>4 DEF Partial
  <2>6. effect_of(ct, Sol(k), m) = effect_of(ct, E, m)
    BY <2>3, EffectLocal
  <2> QED
    BY <2>2, <2>5, <2>6
<1>4. E = [m \in Stmts |-> effect_of(ct, E, m)]
  <2>1. E = [m \in Stmts |-> E[m]]
    OBVIOUS
  <2> HIDE DEF E
  <2> QED
    BY <2>1, <1>3
<1> HIDE DEF E
<1>5. effect(ct) = CHOOSE e : e = [m \in Stmts |-> effect_of(ct, e, m)]
  BY DEF effect
<1>6. effect(ct) = [m \in Stmts |-> effect_of(ct, effect(ct), m)]
  BY <1>4, <1>5
<1> QED
  BY <1>6

\* The equation, form by form.
LEMMA EffectForms ==
    ASSUME FiniteTrees, NEW ct, NEW n \in Stmts
    PROVE  LET e == effect(ct) IN
           /\ n.op = "throw" => e[n] = {"local"}
           /\ n.op = "throwx" => e[n] = {"call"}
           /\ n.op \in Calls => e[n] = call_effect(ct, n)
           /\ n.op = "try" => e[n] = try_effect(e[n.a], e[n.b])
           /\ n.op \in {"seq", "if"} => e[n] = e[n.a] \cup e[n.b]
           /\ n.op = "loop" => e[n] = e[n.a]
           /\ n.op \notin Calls \cup {"throw", "throwx", "try", "seq", "if", "loop"} => e[n] = {}
<1> DEFINE e == effect(ct)
<1>1. e[n] = effect_of(ct, e, n)
  BY EffectIs
<1> HIDE DEF e
<1>2. n.op = "throw" => e[n] = {"local"}
  BY <1>1 DEF effect_of, Calls
<1>3. n.op = "throwx" => e[n] = {"call"}
  BY <1>1 DEF effect_of, Calls
<1>4. n.op \in Calls => e[n] = call_effect(ct, n)
  BY <1>1 DEF effect_of, Calls
<1>5. n.op = "try" => e[n] = try_effect(e[n.a], e[n.b])
  BY <1>1 DEF effect_of, Calls
<1>6. n.op \in {"seq", "if"} => e[n] = e[n.a] \cup e[n.b]
  BY <1>1 DEF effect_of, Calls
<1>7. n.op = "loop" => e[n] = e[n.a]
  BY <1>1 DEF effect_of, Calls
<1>8. n.op \notin Calls \cup {"throw", "throwx", "try", "seq", "if", "loop"} => e[n] = {}
  BY <1>1 DEF effect_of
<1> QED
  BY <1>2, <1>3, <1>4, <1>5, <1>6, <1>7, <1>8 DEF e

\* More functions that throw, more effects.
LEMMA EffectGrows ==
    ASSUME FiniteTrees, NEW ct, NEW du, \A fn \in Listed : ct[fn] => du[fn],
           NEW m \in Stmts
    PROVE  effect(ct)[m] \subseteq effect(du)[m]
<1> DEFINE e == effect(ct)
           f == effect(du)
           P == {n \in Stmts : e[n] \subseteq f[n]}
<1>1. ASSUME NEW n \in Stmts, Children(n) \subseteq P PROVE e[n] \subseteq f[n]
  <2>1. CASE n.op \in {"seq", "if", "try"}
    <3>1. e[n.a] \subseteq f[n.a] /\ e[n.b] \subseteq f[n.b]
      BY <1>1, <2>1 DEF Children, Binary
    <3>2. CASE n.op = "try"
      <4>1. e[n] = try_effect(e[n.a], e[n.b]) /\ f[n] = try_effect(f[n.a], f[n.b])
        BY <3>2, EffectForms
      <4> HIDE DEF e, f
      <4> QED
        BY <3>1, <4>1 DEF try_effect
    <3>3. CASE n.op \in {"seq", "if"}
      <4>1. e[n] = e[n.a] \cup e[n.b] /\ f[n] = f[n.a] \cup f[n.b]
        BY <3>3, EffectForms
      <4> HIDE DEF e, f
      <4> QED
        BY <3>1, <4>1
    <3> QED
      BY <2>1, <3>2, <3>3
  <2>2. CASE n.op = "loop"
    <3>1. e[n.a] \subseteq f[n.a]
      BY <1>1, <2>2 DEF Children, Binary
    <3>2. e[n] = e[n.a] /\ f[n] = f[n.a]
      BY <2>2, EffectForms
    <3> QED
      BY <3>1, <3>2
  <2>3. CASE n.op \in Calls
    <3>1. e[n] = call_effect(ct, n) /\ f[n] = call_effect(du, n)
      BY <2>3, EffectForms
    <3>2. ct[n.fn] => du[n.fn]
      BY <2>3, StmtsAssumption DEF WellFormed
    <3> QED
      BY <3>1, <3>2 DEF call_effect
  <2>4. CASE n.op \in {"throw", "throwx"}
    <3>1. e[n] = (IF n.op = "throw" THEN {"local"} ELSE {"call"})
      BY <2>4, EffectForms
    <3>2. f[n] = (IF n.op = "throw" THEN {"local"} ELSE {"call"})
      BY <2>4, EffectForms
    <3> QED
      BY <3>1, <3>2
  <2>5. CASE n.op \notin Calls \cup {"throw", "throwx", "try", "seq", "if", "loop"}
    <3>1. e[n] = {}
      BY <2>5, EffectForms
    <3> QED
      BY <3>1
  <2> QED
    BY <2>1, <2>2, <2>3, <2>4, <2>5
<1>2. \A n \in Stmts : Children(n) \subseteq P => n \in P
  BY <1>1
<1>3. Stmts \subseteq P
  <2> HIDE DEF P
  <2> QED
    BY <1>2, TreeInduction
<1> QED
  BY <1>3

\* Only the listed functions count, whatever is said of the startup function.
LEMMA EffectListed ==
    ASSUME FiniteTrees, NEW ct, NEW du, \A fn \in Listed : ct[fn] <=> du[fn],
           NEW m \in Stmts
    PROVE  effect(ct)[m] = effect(du)[m]
<1>1. effect(ct)[m] \subseteq effect(du)[m]
  BY EffectGrows
<1>2. effect(du)[m] \subseteq effect(ct)[m]
  BY EffectGrows
<1> QED
  BY <1>1, <1>2

-----------------------------------------------------------------------------
(* The analysis. *)

\* What the analysis knows at every moment.  The marks are below every closed
\* set that holds the throwing externs; in a round without a change, no
\* function passed so far lacks its mark; the code is emitted after such a round.
Throwing == {fn \in Externs : extern_can_throw(fn)}
AInv ==
    /\ prog \in Programs
    /\ can_throw \in [Funcs -> BOOLEAN]
    /\ next_fn \in 1..(Len(FuncList) + 1)
    /\ changed \in BOOLEAN
    /\ Marked \cap Externs = Throwing
    /\ \A S : Throwing \subseteq S /\ Closed(S) => Marked \subseteq S
    /\ ~changed => \A i \in 1..(next_fn - 1) :
          FuncList[i] \in Bodied /\ throws(can_throw, FuncList[i]) => can_throw[FuncList[i]]
    /\ status # "analyze" => next_fn > Len(FuncList) /\ ~changed

\* The functions that have a body are statements' roots; the listed ones are
\* neither startup nor extern.
LEMMA FuncFacts ==
    ASSUME AInv
    PROVE  /\ \A fn \in Bodied : prog[fn] \in Stmts /\ fn \in Funcs
           /\ \A fn \in Listed : fn \in Funcs \ {Startup}
           /\ \A fn \in Bodied \ {Startup} : fn \in Listed \ Externs
           /\ Externs \subseteq Listed
           /\ Len(FuncList) \in Nat
           /\ \A fn \in Listed : \E i \in 1..Len(FuncList) : fn = FuncList[i]
           /\ \A i \in 1..Len(FuncList) : FuncList[i] \in Listed
<1>1. /\ Len(FuncList) \in Nat /\ Startup \notin Listed /\ Externs \subseteq Listed
      /\ prog \in [Bodied -> Stmts]
  BY ProgramsAssumption, FuncsAssumption DEF AInv
<1>2. /\ \A fn \in Listed : \E i \in 1..Len(FuncList) : fn = FuncList[i]
      /\ \A i \in 1..Len(FuncList) : FuncList[i] \in Listed
  BY DEF Listed
<1> QED
  BY <1>1, <1>2 DEF Bodied, Funcs

\* When the rounds are over the marks are closed.
LEMMA MarksClosed ==
    ASSUME FiniteTrees, AInv, next_fn > Len(FuncList), ~changed
    PROVE  Closed(Marked)
<1> DEFINE ct == [f \in Funcs |-> f \in Marked]
<1>1. \A f \in Listed : ct[f] <=> can_throw[f]
  BY FuncFacts DEF Marked
<1> SUFFICES ASSUME NEW fn \in Bodied \ {Startup}, effect(ct)[prog[fn]] # {}
             PROVE  fn \in Marked
  BY DEF Closed
<1>2. prog[fn] \in Stmts /\ fn \in Listed
  BY FuncFacts
<1>3. effect(can_throw)[prog[fn]] = effect(ct)[prog[fn]]
  <2> HIDE DEF ct
  <2> QED
    BY <1>1, <1>2, EffectListed
<1>4. throws(can_throw, fn)
  BY <1>3 DEF throws
<1>5. PICK i \in 1..Len(FuncList) : fn = FuncList[i]
  BY <1>2, FuncFacts
<1>6. i \in 1..(next_fn - 1)
  BY FuncFacts DEF AInv
<1>7. can_throw[fn]
  BY <1>4, <1>5, <1>6 DEF AInv
<1> QED
  BY <1>7, <1>2, FuncFacts DEF Marked

\* Before the first function only the throwing externs are marked.
LEMMA AnalysisStarts == Init => AInv
<1> SUFFICES ASSUME Init PROVE AInv
  OBVIOUS
<1>1. can_throw = [fn \in Funcs |-> fn \in Externs /\ extern_can_throw(fn)]
  BY DEF Init
<1>2. Externs \subseteq Funcs \ {Startup} /\ Len(FuncList) \in Nat
  BY FuncsAssumption DEF Funcs
<1>3. Marked = Throwing /\ can_throw \in [Funcs -> BOOLEAN]
  <2>1. \A fn \in Funcs : can_throw[fn] <=> (fn \in Externs /\ extern_can_throw(fn))
    BY <1>1, Zenon
  <2>2. can_throw \in [Funcs -> BOOLEAN]
    BY <1>1, Zenon
  <2> QED
    BY <2>1, <2>2, <1>2 DEF Marked, Throwing
<1>4. prog \in Programs /\ next_fn = 1 /\ changed = FALSE /\ status = "analyze"
  BY DEF Init
<1>5. Marked \cap Externs = Throwing /\ \A S : Throwing \subseteq S /\ Closed(S) => Marked \subseteq S
  BY <1>3 DEF Throwing
<1>6. next_fn \in 1..(Len(FuncList) + 1) /\ 1..(next_fn - 1) = {}
  BY <1>2, <1>4
<1> QED
  BY <1>3, <1>4, <1>5, <1>6 DEF AInv

\* One iteration over the functions.
LEMMA AnalyzeFnKeeps ==
    ASSUME FiniteTrees, AInv, AnalyzeFn
    PROVE  AInv'
<1> DEFINE fn == FuncList[next_fn]
           hit == fn \in Bodied /\ ~can_throw[fn] /\ throws(can_throw, fn)
<1>1. /\ can_throw' = [can_throw EXCEPT ![fn] = can_throw[fn] \/ hit]
      /\ changed' = (changed \/ hit) /\ next_fn' = next_fn + 1 /\ next_fn <= Len(FuncList)
      /\ UNCHANGED <<prog, status>>
  BY DEF AnalyzeFn
<1>2. /\ Len(FuncList) \in Nat /\ next_fn \in 1..Len(FuncList) /\ fn \in Listed
      /\ fn \in Funcs \ {Startup} /\ (fn \in Bodied <=> fn \notin Externs)
  BY <1>1, FuncFacts DEF AInv, Bodied
<1>3. next_fn' \in 1..(Len(FuncList) + 1) /\ next_fn' - 1 = next_fn
  BY <1>1, <1>2
<1>4. \A S : Closed(S)' <=> Closed(S)
  BY <1>1 DEF Closed
<1>5. CASE hit
  <2>1. can_throw' = [can_throw EXCEPT ![fn] = TRUE] /\ changed' = TRUE
    BY <1>1, <1>5, <1>2 DEF AInv
  <2>2. can_throw' \in [Funcs -> BOOLEAN] /\ Marked' = Marked \cup {fn}
    <3>1. can_throw \in [Funcs -> BOOLEAN]
      BY DEF AInv
    <3> HIDE DEF fn
    <3>2. \A f \in Funcs : can_throw'[f] = (IF f = fn THEN TRUE ELSE can_throw[f])
      BY <2>1, <3>1
    <3>3. can_throw' \in [Funcs -> BOOLEAN]
      BY <2>1, <3>1
    <3> QED
      BY <3>2, <3>3, <1>2 DEF Marked
  <2>3. ASSUME NEW S, Throwing \subseteq S, Closed(S) PROVE fn \in S
    <3> DEFINE du == [f \in Funcs |-> f \in S]
    <3>1. Marked \subseteq S
      BY <2>3 DEF AInv
    <3>2. \A f \in Listed : can_throw[f] => du[f]
      BY <3>1, FuncFacts DEF Marked
    <3>3. prog[fn] \in Stmts
      BY <1>5, FuncFacts
    <3>4. effect(can_throw)[prog[fn]] \subseteq effect(du)[prog[fn]]
      <4> HIDE DEF du
      <4> QED
        BY <3>2, <3>3, EffectGrows
    <3>5. effect(du)[prog[fn]] # {}
      BY <3>4, <1>5 DEF throws
    <3>6. fn \in Bodied \ {Startup}
      BY <1>2, <1>5
    <3> HIDE DEF fn
    <3> QED
      BY <3>5, <3>6, <2>3 DEF Closed
  <2>4. \A S : Throwing \subseteq S /\ Closed(S)' => Marked' \subseteq S
    BY <2>2, <2>3, <1>4 DEF AInv
  <2>5. Marked' \cap Externs = Throwing
    <3>1. fn \notin Externs
      BY <1>2, <1>5
    <3> HIDE DEF fn
    <3> QED
      BY <2>2, <3>1 DEF AInv
  <2> HIDE DEF fn, hit
  <2> QED
    BY <1>1, <1>2, <1>3, <2>1, <2>2, <2>4, <2>5 DEF AInv
<1>6. CASE ~hit
  <2>1. can_throw' = can_throw /\ changed' = changed
    <3>1. can_throw[fn] \in BOOLEAN /\ can_throw = [f \in Funcs |-> can_throw[f]] /\ changed \in BOOLEAN
      <4>1. can_throw \in [Funcs -> BOOLEAN] /\ changed \in BOOLEAN
        BY DEF AInv
      <4> HIDE DEF fn
      <4> QED
        BY <4>1, <1>2
    <3> HIDE DEF fn, hit
    <3>2. (can_throw[fn] \/ hit) = can_throw[fn] /\ (changed \/ hit) = changed
      BY <3>1, <1>6
    <3> QED
      BY <1>1, <3>1, <3>2
  <2>2. Marked' = Marked
    BY <2>1 DEF Marked
  <2>3. ASSUME ~changed, NEW i \in 1..next_fn, FuncList[i] \in Bodied, throws(can_throw, FuncList[i])
        PROVE  can_throw[FuncList[i]]
    <3>1. CASE i = next_fn
      BY <2>3, <3>1, <1>6
    <3>2. CASE i # next_fn
      <4>1. i \in 1..(next_fn - 1)
        BY <3>2, <1>2
      <4> QED
        BY <2>3, <4>1 DEF AInv
    <3> QED
      BY <3>1, <3>2
  <2>4. \A S : Throwing \subseteq S /\ Closed(S)' => Marked' \subseteq S
    BY <2>2, <1>4 DEF AInv
  <2>5. ~changed' => \A i \in 1..(next_fn' - 1) :
           FuncList[i] \in Bodied /\ throws(can_throw, FuncList[i])' => can_throw'[FuncList[i]]
    BY <2>1, <2>3, <1>1, <1>3 DEF throws
  <2>6. status' # "analyze" => next_fn' > Len(FuncList) /\ ~changed'
    BY <1>1, <1>2, <2>1 DEF AInv
  <2> HIDE DEF fn, hit
  <2> QED
    BY <1>1, <1>3, <2>1, <2>2, <2>4, <2>5, <2>6 DEF AInv
<1> QED
  BY <1>5, <1>6

\* The end of a round.
LEMMA AnalyzeRoundKeeps ==
    ASSUME FiniteTrees, AInv, AnalyzeAgain \/ AnalyzeDone
    PROVE  AInv'
<1>1. UNCHANGED prog /\ \A S : Closed(S)' <=> Closed(S)
  BY DEF AnalyzeAgain, AnalyzeDone, Closed
<1>2. CASE AnalyzeAgain
  <2>1. /\ UNCHANGED <<prog, status, can_throw>> /\ next_fn' = 1 /\ changed' = FALSE
        /\ status = "analyze" \/ status # "analyze"
    BY <1>2 DEF AnalyzeAgain
  <2>2. changed
    BY <1>2 DEF AnalyzeAgain
  <2>3. 1 \in 1..(Len(FuncList) + 1) /\ 1..(next_fn' - 1) = {}
    BY <2>1, FuncFacts
  <2>4. status' = "analyze"
    BY <2>1, <2>2 DEF AInv
  <2>5. Marked' = Marked
    BY <2>1 DEF Marked
  <2> QED
    BY <1>1, <2>1, <2>3, <2>4, <2>5 DEF AInv
<1>3. CASE AnalyzeDone
  <2>1. /\ can_throw' = [can_throw EXCEPT ![Startup] = throws(can_throw, Startup)]
        /\ next_fn > Len(FuncList) /\ ~changed /\ UNCHANGED <<prog, next_fn, changed>>
    BY <1>3 DEF AnalyzeDone
  <2>2. throws(can_throw, Startup) \in BOOLEAN /\ Startup \in Funcs
    BY DEF throws, Funcs
  <2>3. can_throw' \in [Funcs -> BOOLEAN] /\ \A f \in Funcs \ {Startup} : can_throw'[f] = can_throw[f]
    BY <2>1, <2>2 DEF AInv
  <2>4. Marked' = Marked
    BY <2>3 DEF Marked
  <2>5. ASSUME NEW i \in 1..(next_fn - 1), FuncList[i] \in Bodied, throws(can_throw, FuncList[i])'
        PROVE  can_throw'[FuncList[i]]
    <3>1. i \in 1..Len(FuncList)
      BY FuncFacts DEF AInv
    <3>2. FuncList[i] \in Listed /\ prog[FuncList[i]] \in Stmts
      BY <2>5, <3>1, FuncFacts
    <3>3. \A f \in Listed : can_throw'[f] <=> can_throw[f]
      BY <2>3, FuncFacts
    <3>4. effect(can_throw')[prog[FuncList[i]]] = effect(can_throw)[prog[FuncList[i]]]
      BY <3>2, <3>3, EffectListed
    <3>5. throws(can_throw, FuncList[i])
      BY <2>1, <2>5, <3>4 DEF throws
    <3>6. can_throw[FuncList[i]]
      BY <2>1, <2>5, <3>5 DEF AInv
    <3> QED
      BY <3>2, <3>3, <3>6
  <2> QED
    BY <1>1, <2>1, <2>3, <2>4, <2>5 DEF AInv
<1> QED
  BY <1>2, <1>3

\* The program that runs changes nothing of the analysis.
LEMMA AnalysisKept ==
    ASSUME AInv, UNCHANGED <<prog, analysis>>, status # "analyze" \/ UNCHANGED status
    PROVE  AInv'
<1>1. UNCHANGED <<prog, can_throw, next_fn, changed>>
  BY DEF analysis
<1>2. Marked' = Marked /\ \A S : Closed(S)' <=> Closed(S)
  BY <1>1 DEF Marked, Closed
<1>3. \A fn : throws(can_throw, fn)' <=> throws(can_throw, fn)
  BY <1>1 DEF throws
<1> QED
  BY <1>1, <1>2, <1>3 DEF AInv

LEMMA AnalysisStep ==
    ASSUME FiniteTrees, AInv, [Next]_vars
    PROVE  AInv'
<1>1. CASE Analyze
  BY <1>1, AnalyzeFnKeeps, AnalyzeRoundKeeps DEF Analyze
<1>2. CASE Run
  BY <1>2, AnalysisKept DEF Run
<1>3. CASE UNCHANGED vars
  BY <1>3, AnalysisKept DEF vars
<1> QED
  BY <1>1, <1>2, <1>3 DEF Next, Ended

\* What the emitted code is built on: the marks are closed and no smaller set is.
LEMMA MarksExact ==
    ASSUME FiniteTrees, AInv
    PROVE  AnalysisExact
<1> SUFFICES ASSUME status # "analyze" PROVE /\ Closed(Marked)
          /\ \A fn \in Marked \ Externs :
                ~\E S \in SUBSET (Marked \ {fn}) : Marked \cap Externs \subseteq S /\ Closed(S)
  BY DEF AnalysisExact
<1>1. Closed(Marked)
  BY MarksClosed DEF AInv
<1>2. ASSUME NEW fn \in Marked, NEW S \in SUBSET (Marked \ {fn}),
             Marked \cap Externs \subseteq S, Closed(S)
      PROVE  FALSE
  <2>1. Throwing \subseteq S
    BY <1>2 DEF AInv
  <2> QED
    BY <2>1, <1>2 DEF AInv
<1> QED
  BY <1>1, <1>2

\* For every program of finite trees, whatever the order of prog->funcs: the
\* functions effects.c marks are closed under "a body that may throw marks its
\* function", and nothing is marked that need not be.
THEOREM AnalysisIsExact == ASSUME FiniteTrees PROVE Spec => []AnalysisExact
<1>1. AInv /\ [Next]_vars => AInv'
  BY AnalysisStep
<1>2. AInv => AnalysisExact
  BY MarksExact
<1> QED
  BY <1>1, <1>2, AnalysisStarts, PTL DEF Spec

-----------------------------------------------------------------------------
(* Moves.  What the steps of a running program do to the stack and to the  *)
(* statement about to run, whatever the state of the frames.               *)

\* The statement, or the catch block that ends, raises an exception.
Raises == \/ cur.op \in {"throw", "throwx"}
          \/ cur.op \in {"call", "icall"} /\ cur.fn \in Externs /\ extern_can_throw(cur.fn)
          \/ cur = Nop /\ Top.k = "catch"

Stays == /\ konts' = konts
         /\ \/ cur' = Nop
            \/ cur.op = "if" /\ cur' \in {cur.a, cur.b}
            \/ cur = Nop /\ Top.k = "loop" /\ cur' = Top.node.a

\* A block is popped, a loop left, or an activation returned from.
Cuts == /\ cur' = Nop
        /\ \E p \in 1..Len(konts) :
              /\ konts' = SubSeq(konts, 1, p)
              /\ Top.cp <= p \/ (Top.k = "call" /\ p = Len(konts) - 1)
              /\ cur = Nop /\ Top.k = "ret" => p = Top.cp

Resumes == cur = Nop /\ Top.k = "seq" /\ konts' = Pop /\ cur' = Top.node

Nests == \/ cur.op = "seq" /\ konts' = Push("seq", cur.b) /\ cur' = cur.a
         \/ cur.op = "loop" /\ konts' = Push("loop", cur) /\ cur' = Nop
         \/ cur.op = "try" /\ konts' = Push(try_mode(can_throw, cur), cur) /\ cur' = cur.a

CallsIn == /\ cur.op \in {"call", "icall"} /\ cur.fn \in Bodied
           /\ konts' = Append(konts, CallEntry(cur.fn, Len(konts) + 1, Top.lv))
           /\ cur' = prog[cur.fn]

Returning == Append(Disarmed, Over(Disarmed[Len(konts)], "ret", Nop))
ReturnsCall == /\ cur.op = "retcall" /\ cur.fn \in Bodied
               /\ konts' = Append(Returning, CallEntry(cur.fn, Len(konts) + 2, konts[Top.cp].lv))
               /\ cur' = prog[cur.fn]

Handles == /\ Raises
           /\ \E h \in 2..Len(konts) : konts[h].k \in {"ltry", "dtry"} /\ EnterCatch(h)

Goes == Stays \/ Cuts \/ Resumes \/ Nests \/ CallsIn \/ ReturnsCall \/ Handles

Ends == /\ UNCHANGED <<konts, cur>>
        /\ status' \in {"done", "unhandled", "toodeep", "wild", "overflow"}
        /\ status' = "unhandled" => Raises

\* The shape of the stack, without the frames.
LEMMA StackShape ==
    ASSUME Stack(konts)
    PROVE  /\ konts \in Seq(StackEntry) /\ Len(konts) \in Nat /\ Len(konts) >= 1
           /\ DOMAIN konts = 1..Len(konts) /\ Len(konts) \in 1..Len(konts)
           /\ Top.cp \in 1..Len(konts) /\ konts[Top.cp].k = "call" /\ konts[1].k = "call"
           /\ Top.k # "call" => Top.cp < Len(konts) /\ Len(konts) >= 2
           /\ Top.node \in Stmts /\ Top.lv \in Nat
           /\ \A i \in 1..Len(konts) : konts[i].node \in Stmts /\ konts[i].k \in Kinds
           /\ \A i \in Top.cp..Len(konts) : konts[i].cp = Top.cp
<1>1. konts \in Seq(StackEntry) /\ Len(konts) \in Nat /\ Len(konts) >= 1
      /\ DOMAIN konts = 1..Len(konts) /\ Len(konts) \in 1..Len(konts) /\ konts[1].k = "call"
  BY DEF Stack, Levels
<1>2. Top.cp \in 1..Len(konts) /\ konts[Top.cp].k = "call"
      /\ \A i \in Top.cp..Len(konts) : konts[i].cp = Top.cp
  BY <1>1 DEF Stack, Activations, Top
<1>3. \A i \in 1..Len(konts) : konts[i].node \in Stmts /\ konts[i].k \in Kinds /\ konts[i].lv \in Nat
  BY <1>1, EntryIs
<1>4. Top.k # "call" => Top.cp < Len(konts) /\ Len(konts) >= 2
  BY <1>1, <1>2 DEF Top
<1> QED
  BY <1>1, <1>2, <1>3, <1>4 DEF Top

\* throw of the runtime.
LEMMA RtThrowMoves ==
    ASSUME Stack(konts), Raises, NEW ch, rt_throw(ch)
    PROVE  (Handles /\ UNCHANGED status) \/ Ends
<1>1. CASE hc_ntry = 0
  BY <1>1 DEF rt_throw, Stop, Ends
<1>2. CASE hc_ntry # 0
  <2> DEFINE h == hc_frames[hc_ntry]
  <2>1. CASE h \in DOMAIN konts /\ konts[h].k = "dtry"
    <3>1. EnterCatch(h)
      BY <1>2, <2>1, Zenon DEF rt_throw
    <3> HIDE DEF h
    <3>2. h \in 2..Len(konts)
      BY <2>1, StackShape
    <3> QED
      BY <2>1, <3>1, <3>2 DEF Handles, EnterCatch, Goto
  <2>2. CASE ~(h \in DOMAIN konts /\ konts[h].k = "dtry")
    <3>1. Stop("wild")
      BY <1>2, <2>2, Zenon DEF rt_throw
    <3> QED
      BY <3>1 DEF Ends, Stop
  <2> QED
    BY <2>1, <2>2
<1> QED
  BY <1>1, <1>2

\* A throw or rethrow that is a goto.
LEMMA LocalMoves ==
    ASSUME Stack(konts), Raises, NEW n \in {Len(konts), Len(konts) + 1},
           LocalHandler(n), EnterCatch(Topmost(Handlers(n)))
    PROVE  Handles /\ UNCHANGED status
<1> DEFINE H == Handlers(n)
           h == Topmost(H)
<1>1. H \in SUBSET (1..Len(konts)) /\ H # {} /\ Len(konts) \in Nat
  BY StackShape DEF Handlers, LocalHandler
<1>2. h \in H /\ konts[h].k = "ltry"
  BY <1>1, TopmostExists DEF LocalHandler
<1>3. h \in 1..Len(konts) /\ Top.cp < h
  BY <1>2, StackShape DEF Handlers
<1> HIDE DEF h
<1>4. h \in 2..Len(konts)
  BY <1>3, StackShape
<1>5. EnterCatch(h)
  BY DEF h
<1> QED
  BY <1>2, <1>4, <1>5 DEF Handles, EnterCatch, Goto

\* Every step of the running program is one of the moves.
LEMMA Moves ==
    ASSUME Stack(konts), Run
    PROVE  (Goes /\ status' = "run") \/ Ends
<1>0. status = "run"
  BY DEF Run
<1> DEFINE Done == (Goes /\ status' = "run") \/ Ends
<1>shape. Len(konts) \in Nat /\ Len(konts) >= 1 /\ Len(konts) \in 1..Len(konts)
          /\ Top.cp \in 1..Len(konts)
          /\ (Top.k # "call" => Top.cp < Len(konts) /\ Len(konts) >= 2)
  BY StackShape
<1>raise. ASSUME Raises, NEW ch, rt_throw(ch) PROVE Done
  BY <1>raise, <1>0, RtThrowMoves DEF Goes
<1>pop. ASSUME cur = Nop, Goto(Pop, Nop), Top.k # "ret", Len(konts) > 1 PROVE Done
  <2>1. konts' = SubSeq(konts, 1, Len(konts) - 1) /\ cur' = Nop /\ status' = "run"
    BY <1>pop, <1>0 DEF Goto, Pop, Below
  <2>2. Len(konts) - 1 \in 1..Len(konts)
    BY <1>pop, <1>shape
  <2>3. Top.cp <= Len(konts) - 1 \/ Top.k = "call"
    BY <1>shape
  <2>4. Cuts
    BY <2>1, <2>2, <2>3, <1>pop DEF Cuts
  <2> QED
    BY <2>1, <2>4 DEF Goes
<1>return. ASSUME Goto(SubSeq(konts, 1, Top.cp), Nop) PROVE Done
  <2>1. konts' = SubSeq(konts, 1, Top.cp) /\ cur' = Nop /\ status' = "run"
    BY <1>return, <1>0 DEF Goto
  <2>2. Cuts
    BY <2>1, <1>shape DEF Cuts
  <2> QED
    BY <2>1, <2>2 DEF Goes
<1>stay. ASSUME Goto(konts, cur'), Stays PROVE Done
  BY <1>stay, <1>0 DEF Goes, Goto
<1>1. ASSUME ExecThrow PROVE Done
  <2>1. Raises
    BY <1>1 DEF ExecThrow, Raises
  <2>2. CASE LocalHandler(Len(konts) + 1)
    BY <1>0, <1>1, <2>1, <2>2, LocalMoves DEF ExecThrow, emit_throw, Goes
  <2>3. CASE ~LocalHandler(Len(konts) + 1)
    BY <1>1, <2>1, <2>3, <1>raise DEF ExecThrow, emit_throw
  <2> QED
    BY <2>2, <2>3
<1>2. ASSUME ExecThrowExpr PROVE Done
  <2>1. Raises
    BY <1>2 DEF ExecThrowExpr, Raises
  <2> QED
    BY <1>2, <2>1, <1>raise DEF ExecThrowExpr
<1>3. ASSUME ExecSeq PROVE Done
  BY <1>0, <1>3 DEF ExecSeq, Goto, Nests, Goes
<1>4. ASSUME ExecIf PROVE Done
  BY <1>0, <1>4 DEF ExecIf, Goto, Stays, Goes
<1>5. ASSUME ExecLoop PROVE Done
  BY <1>0, <1>5 DEF ExecLoop, Goto, Nests, Goes
<1>6. ASSUME ExecExcept PROVE Done
  BY <1>0, <1>6 DEF ExecExcept, Goto, Stays, Goes
<1>7. ASSUME ExecBreak PROVE Done
  <2> DEFINE t == Topmost(Loops)
  <2>1. Loops \in SUBSET (1..Len(konts)) /\ Loops # {} /\ Len(konts) \in Nat
    BY <1>7, StackShape DEF Loops, ExecBreak
  <2>2. t \in Loops
    BY <2>1, TopmostExists
  <2>3. t \in 1..Len(konts) /\ Top.cp < t
    BY <2>2, StackShape DEF Loops
  <2>4. konts' = SubSeq(konts, 1, t - 1) /\ cur' = Nop /\ status' = "run" /\ cur.op = "break"
    BY <1>0, <1>7 DEF ExecBreak, Goto, Below
  <2> HIDE DEF t
  <2>5. t - 1 \in 1..Len(konts) /\ Top.cp <= t - 1
    BY <2>3, <1>shape
  <2>6. cur # Nop
    BY <2>4 DEF Nop
  <2>7. Cuts
    BY <2>4, <2>5, <2>6 DEF Cuts
  <2> QED
    BY <2>4, <2>7 DEF Goes
<1>8. ASSUME ExecExtern PROVE Done
  <2>1. CASE Goto(konts, Nop)
    BY <1>0, <2>1 DEF Goto, Stays, Goes
  <2>2. CASE (cur.fn \notin Prelude \/ cur.fn \in ThrowingPrelude) /\ \E ch \in Chars : rt_throw(ch)
    <3>1. Raises
      BY <1>8, <2>2 DEF ExecExtern, Raises, extern_can_throw
    <3> QED
      BY <2>2, <3>1, <1>raise
  <2> QED
    BY <1>8, <2>1, <2>2 DEF ExecExtern
<1>9. ASSUME ExecCall PROVE Done
  BY <1>0, <1>9 DEF ExecCall, Goto, CallsIn, Goes
<1>10. ASSUME StackOverflow PROVE Done
  BY <1>10 DEF StackOverflow, Stop, Ends
<1>11. ASSUME ExecReturn PROVE Done
  BY <1>11, <1>return DEF ExecReturn
<1>12. ASSUME ExecReturnCall PROVE Done
  BY <1>0, <1>12 DEF ExecReturnCall, Goto, ReturnsCall, Returning, Goes
<1>13. ASSUME ExecTry PROVE Done
  <2> DEFINE mode == try_mode(can_throw, cur)
  <2>1. Goto(Push(mode, cur), cur.a) \/ Stop("toodeep")
    <3> HIDE DEF mode
    <3>1. \/ Goto(Push(mode, cur), cur.a)
          \/ Stop("toodeep")
      BY <1>13, Zenon DEF ExecTry, mode
    <3> QED
      BY <3>1
  <2>2. CASE Goto(Push(mode, cur), cur.a)
    BY <1>0, <1>13, <2>2 DEF ExecTry, Goto, Nests, Goes
  <2>3. CASE Stop("toodeep")
    BY <2>3 DEF Stop, Ends
  <2> QED
    BY <2>1, <2>2, <2>3
<1>14. ASSUME cur = Nop, EndSeq PROVE Done
  BY <1>0, <1>14 DEF EndSeq, Goto, Resumes, Goes
<1>15. ASSUME cur = Nop, EndLoopBody PROVE Done
  <2>1. CASE Goto(konts, Top.node.a)
    BY <1>0, <1>15, <2>1 DEF EndLoopBody, Goto, Stays, Goes
  <2>2. CASE Goto(Pop, Nop)
    BY <1>15, <2>2, <1>pop, <1>shape DEF EndLoopBody
  <2> QED
    BY <1>15, <2>1, <2>2 DEF EndLoopBody
<1>16. ASSUME cur = Nop, EndTry PROVE Done
  BY <1>16, <1>pop, <1>shape DEF EndTry
<1>17. ASSUME cur = Nop, EndOperand PROVE Done
  BY <1>17, <1>return DEF EndOperand
<1>18. ASSUME cur = Nop, EndCall PROVE Done
  <2>1. CASE Len(konts) > 1
    BY <1>18, <2>1, <1>pop DEF EndCall
  <2>2. CASE ~(Len(konts) > 1)
    BY <1>18, <2>2 DEF EndCall, Stop, Ends
  <2> QED
    BY <2>1, <2>2
<1>19. ASSUME cur = Nop, EndCatch PROVE Done
  <2>1. Raises /\ Top.k = "catch"
    BY <1>19 DEF EndCatch, Raises
  <2>2. CASE catch_except
    BY <1>19, <2>1, <2>2, <1>pop, <1>shape DEF EndCatch
  <2>3. CASE ~catch_except /\ LocalHandler(Len(konts))
    BY <1>0, <1>19, <2>1, <2>3, LocalMoves DEF EndCatch, emit_rethrow, Goes
  <2>4. CASE ~catch_except /\ ~LocalHandler(Len(konts))
    BY <1>19, <2>1, <2>4, <1>raise DEF EndCatch, emit_rethrow
  <2> QED
    BY <2>2, <2>3, <2>4
<1> HIDE DEF Done
<1>20. Done
  BY <1>1, <1>2, <1>3, <1>4, <1>5, <1>6, <1>7, <1>8, <1>9, <1>10, <1>11, <1>12, <1>13,
     <1>14, <1>15, <1>16, <1>17, <1>18, <1>19 DEF Run, Resume
<1> QED
  BY <1>20 DEF Done

\* The children and the callee of the statement about to run.
LEMMA StmtFacts ==
    ASSUME NEW n \in Stmts
    PROVE  /\ n.op \in Binary => n.a \in Stmts /\ n.b \in Stmts
           /\ n.op = "loop" => n.a \in Stmts
           /\ n.op \in Calls => n.fn \in Listed /\ n.fn # Startup /\ n.fn \in Funcs
           /\ Nop \in Stmts /\ Nop.op = "nop"
BY StmtsAssumption, FuncsAssumption DEF WellFormed, Nop, Funcs

\* The catch block of a try takes its place on the stack.
LEMMA CatchStack ==
    ASSUME Stack(konts), NEW h \in 2..Len(konts), konts[h].k \in Bodies, EnterCatch(h)
    PROVE  /\ Stack(konts') /\ cur' \in Stmts /\ cur' = konts[h].node.b
           /\ konts[h].node \in Stmts /\ konts[h].node.op = "try"
           /\ Len(konts') = h /\ konts'[h].k = "catch"
           /\ konts'[h].fn = konts[h - 1].fn /\ konts'[h].cp = konts[h - 1].cp
           /\ konts'[h].node = konts[h].node
           /\ \A i \in 1..(h - 1) : konts'[i] = konts[i]
           /\ Stack(SubSeq(konts, 1, h - 1))
           /\ konts' = Append(SubSeq(konts, 1, h - 1), Over(konts[h - 1], "catch", konts[h].node))
<1> DEFINE q == SubSeq(konts, 1, h - 1)
           node == konts[h].node
           e == Over(konts[h - 1], "catch", node)
<1>1. konts \in Seq(StackEntry) /\ Len(konts) \in Nat /\ h \in 1..Len(konts) /\ h - 1 \in 1..Len(konts)
  BY StackShape
<1>2. node \in Stmts /\ node.op = "try"
  BY <1>1, EntryIs DEF Stack, Nodes
<1>3. node.b \in Stmts
  BY <1>2, StmtFacts DEF Binary
<1>4. Stack(q)
  BY <1>1, CutStack
<1>5. q \in Seq(StackEntry) /\ Len(q) = h - 1 /\ \A i \in 1..(h - 1) : q[i] = konts[i]
  BY <1>1, PrefixIs
<1>6. q[h - 1] = konts[h - 1]
  BY <1>1, <1>5
<1>7. konts' = Append(q, e) /\ cur' = node.b
  BY DEF EnterCatch, Goto, Below
<1>8. "catch" \in Kinds \ {"call"} /\ "catch" \notin Bodies
  BY DEF Kinds, Bodies
<1>9. konts[h - 1] \in StackEntry
  BY <1>1, EntryIs
<1>10. e \in StackEntry /\ e.k = "catch" /\ e.fn = konts[h - 1].fn /\ e.cp = konts[h - 1].cp
       /\ e.node = node
  BY <1>2, <1>8, <1>9 DEF Over, Entry, StackEntry
<1> HIDE DEF q, e
<1>11. Stack(konts')
  <2>1. konts' = Append(q, Over(q[Len(q)], "catch", node))
    BY <1>5, <1>6, <1>7 DEF e
  <2> QED
    BY <1>2, <1>4, <1>8, <2>1, PushStack
<1>12. Len(konts') = h /\ konts'[h] = e /\ \A i \in 1..(h - 1) : konts'[i] = konts[i]
  BY <1>1, <1>5, <1>7, <1>10
<1> QED
  BY <1>2, <1>3, <1>4, <1>7, <1>10, <1>11, <1>12 DEF q, e

\* An entry of the running activation is pushed.
LEMMA PushIs ==
    ASSUME NEW ks, Stack(ks), NEW k \in Kinds, NEW node \in Stmts
    PROVE  LET e == Over(ks[Len(ks)], k, node) IN
           /\ e \in StackEntry /\ e.k = k /\ e.node = node
           /\ e.fn = ks[Len(ks)].fn /\ e.cp = ks[Len(ks)].cp
<1>1. ks[Len(ks)] \in StackEntry
  BY EntryIs DEF Stack
<1> QED
  BY <1>1 DEF Over, Entry, StackEntry

LEMMA AppendIs ==
    ASSUME NEW ks, Stack(ks), NEW e
    PROVE  /\ Len(Append(ks, e)) = Len(ks) + 1 /\ Append(ks, e)[Len(ks) + 1] = e
           /\ \A i \in 1..Len(ks) : Append(ks, e)[i] = ks[i]
           /\ Len(ks) \in Nat /\ Len(ks) \in 1..Len(ks)
BY DEF Stack

\* A call entry.
LEMMA CallEntryIs ==
    ASSUME NEW fn, NEW n, NEW v
    PROVE  LET e == CallEntry(fn, n, v) IN
           e.k = "call" /\ e.node = Nop /\ e.fn = fn /\ e.cp = n /\ e.lv = v
BY DEF CallEntry, Entry

\* The modes of a try are kinds of entries.
LEMMA ModeIs ==
    ASSUME NEW ct, NEW n
    PROVE  /\ try_mode(ct, n) \in {"ntry", "ltry", "dtry"}
           /\ try_mode(ct, n) = "ntry" <=> effect(ct)[n.a] = {}
           /\ try_mode(ct, n) = "ltry" => "call" \notin effect(ct)[n.a]
BY DEF try_mode

\* The stack below the call that return f() makes.
LEMMA ReturningStack ==
    ASSUME Stack(konts)
    PROVE  /\ Stack(Returning) /\ Len(Returning) = Len(konts) + 1
           /\ Returning[Len(konts) + 1].lv = konts[Top.cp].lv
           /\ Returning[Len(konts) + 1].k = "ret"
           /\ Returning[Len(konts) + 1].cp = Top.cp
           /\ Returning[Len(konts) + 1].fn = Top.fn
           /\ Returning[Len(konts) + 1].node = Nop
           /\ \A i \in 1..Len(konts) : Returning[i] = Disarmed[i]
<1> DEFINE q == Disarmed
           n == Len(konts)
<1>1. /\ Stack(q) /\ Len(q) = n /\ q[n].td = 0 /\ n \in Nat /\ n \in 1..n
      /\ q[n].lv = konts[Top.cp].lv /\ q[n].cp = Top.cp /\ q[n].fn = Top.fn
  <2>1. n \in Nat /\ n \in 1..n /\ n \in Top.cp..n /\ konts[n].cp = Top.cp
    BY StackShape DEF Top
  <2> QED
    BY <2>1, DisarmStack DEF Top
<1> HIDE DEF q
<1> DEFINE e == Over(q[n], "ret", Nop)
<1>2. "ret" \in Kinds \ {"call"} /\ "ret" \notin Bodies /\ Nop \in Stmts
  BY StmtsAssumption DEF Kinds, Bodies
<1>3. Stack(Append(q, e))
  BY <1>1, <1>2, PushStack
<1>4. e.k = "ret" /\ e.cp = q[n].cp /\ e.fn = q[n].fn /\ e.node = Nop
  BY <1>1, <1>2, PushIs
<1>5. e.lv = q[n].lv
  <2>1. q[n].lv \in Nat
    BY <1>1, EntryIs DEF Stack
  <2> QED
    BY <2>1 DEF Over, Entry
<1> HIDE DEF e
<1>6. /\ Len(Append(q, e)) = n + 1 /\ Append(q, e)[n + 1] = e
      /\ \A i \in 1..n : Append(q, e)[i] = q[i]
  BY <1>1, AppendIs
<1>7. Returning = Append(q, e)
  BY DEF Returning, q, e
<1> QED
  BY <1>1, <1>3, <1>4, <1>5, <1>6, <1>7 DEF q

\* Every move keeps the shape of the stack.
LEMMA StackMoves ==
    ASSUME Stack(konts), cur \in Stmts, prog \in Programs, Goes
    PROVE  Stack(konts') /\ cur' \in Stmts
<1>0. /\ prog \in [Bodied -> Stmts] /\ Nop \in Stmts
      /\ Len(konts) \in Nat /\ Len(konts) >= 1 /\ Len(konts) \in 1..Len(konts)
  BY ProgramsAssumption, StmtsAssumption, StackShape
<1>1. CASE Stays
  <2>1. Top.k = "loop" => Top.node.a \in Stmts
    BY <1>0, StackShape, StmtFacts DEF Stack, Nodes, Top
  <2>2. cur.op = "if" => cur.a \in Stmts /\ cur.b \in Stmts
    BY StmtFacts DEF Binary
  <2> QED
    BY <1>0, <1>1, <2>1, <2>2 DEF Stays
<1>2. CASE Cuts
  BY <1>0, <1>2, CutStack DEF Cuts
<1>3. CASE Resumes
  <2>1. Len(konts) - 1 \in 1..Len(konts)
    BY <1>3, StackShape DEF Resumes
  <2> QED
    BY <1>3, <2>1, CutStack, StackShape DEF Resumes, Pop, Below
<1>4. CASE Nests
  <2>kinds. {"seq", "loop", "ntry", "ltry", "dtry"} \subseteq Kinds \ {"call"}
            /\ "seq" \notin Bodies /\ "loop" \notin Bodies
    BY DEF Kinds, Bodies
  <2>1. CASE cur.op = "seq" /\ konts' = Push("seq", cur.b) /\ cur' = cur.a
    <3>1. cur.a \in Stmts /\ cur.b \in Stmts
      BY <2>1, StmtFacts DEF Binary
    <3> QED
      BY <2>1, <3>1, <2>kinds, PushStack DEF Push, Top
  <2>2. CASE cur.op = "loop" /\ konts' = Push("loop", cur) /\ cur' = Nop
    BY <1>0, <2>2, <2>kinds, PushStack DEF Push, Top
  <2>3. CASE cur.op = "try" /\ konts' = Push(try_mode(can_throw, cur), cur) /\ cur' = cur.a
    <3>1. cur.a \in Stmts
      BY <2>3, StmtFacts DEF Binary
    <3> DEFINE mode == try_mode(can_throw, cur)
    <3>2. mode \in {"ntry", "ltry", "dtry"}
      BY ModeIs
    <3> HIDE DEF mode
    <3>3. Stack(Push(mode, cur))
      BY <2>3, <3>2, <2>kinds, PushStack DEF Push, Top
    <3> QED
      BY <2>3, <3>1, <3>3 DEF mode
  <2> QED
    BY <1>4, <2>1, <2>2, <2>3 DEF Nests
<1>5. CASE CallsIn
  <2>1. cur.fn \in Funcs
    BY <1>5, StmtFacts DEF CallsIn, Calls
  <2> QED
    BY <1>0, <1>5, <2>1, CallStack DEF CallsIn, Top
<1>6. CASE ReturnsCall
  <2>1. cur.fn \in Funcs
    BY <1>6, StmtFacts DEF ReturnsCall, Calls
  <2>2. /\ Stack(Returning) /\ Len(Returning) = Len(konts) + 1
        /\ Returning[Len(Returning)].lv = konts[Top.cp].lv
    BY ReturningStack
  <2>3. Stack(Append(Returning, CallEntry(cur.fn, Len(Returning) + 1, Returning[Len(Returning)].lv)))
    BY <2>1, <2>2, CallStack
  <2>4. Len(Returning) + 1 = Len(konts) + 2
    BY <2>2, <1>0
  <2> QED
    BY <1>0, <1>6, <2>2, <2>3, <2>4 DEF ReturnsCall
<1>7. CASE Handles
  <2>1. PICK h \in 2..Len(konts) : konts[h].k \in {"ltry", "dtry"} /\ EnterCatch(h)
    BY <1>7 DEF Handles
  <2> QED
    BY <2>1, CatchStack DEF Bodies
<1> QED
  BY <1>1, <1>2, <1>3, <1>4, <1>5, <1>6, <1>7 DEF Goes

-----------------------------------------------------------------------------
(* Quiet functions.  e stands for effect(can_throw), ct for can_throw, ks  *)
(* for a stack and c for the statement about to run on it.                 *)

\* An exception can come from what is left to do at the entry x ...
Loud(e, ct, x) ==
    \/ x.k \in {"ltry", "dtry", "popped", "catch"}
    \/ x.k \in {"seq", "loop"} /\ e[x.node] # {}
    \/ x.k = "call" /\ ct[x.fn]

\* ... and none may pass the entry x, below which no handler was made for it.
Barrier(ct, x) == x.k = "ntry" \/ (x.k = "call" /\ ~ct[x.fn])

\* Nothing above a barrier raises an exception.
Hushed(e, ct, ks, c) ==
    \A i \in 1..Len(ks) : Barrier(ct, ks[i]) =>
       e[c] = {} /\ \A j \in (i + 1)..Len(ks) : ~Loud(e, ct, ks[j])

\* A quiet function has a body without effect.
LEMMA QuietBodies ==
    ASSUME FiniteTrees, AInv, status # "analyze",
           NEW fn \in Bodied \ {Startup}, ~can_throw[fn]
    PROVE  effect(can_throw)[prog[fn]] = {}
<1>1. fn \in Listed
  BY FuncFacts
<1>2. PICK i \in 1..Len(FuncList) : fn = FuncList[i]
  BY <1>1, FuncFacts
<1>3. i \in 1..(next_fn - 1) /\ ~changed
  BY FuncFacts DEF AInv
<1>4. ~throws(can_throw, fn)
  BY <1>2, <1>3 DEF AInv
<1> QED
  BY <1>4 DEF throws

\* What raises an exception runs under no barrier.
LEMMA NoBarrier ==
    ASSUME FiniteTrees, AInv, Stack(konts), cur \in Stmts, Raises,
           Hushed(effect(can_throw), can_throw, konts, cur), NEW i \in 1..Len(konts)
    PROVE  ~Barrier(can_throw, konts[i])
<1> DEFINE e == effect(can_throw)
<1> SUFFICES ASSUME Barrier(can_throw, konts[i]) PROVE FALSE
  OBVIOUS
<1>1. e[cur] = {} /\ \A j \in (i + 1)..Len(konts) : ~Loud(e, can_throw, konts[j])
  BY DEF Hushed
<1>2. CASE cur.op \in {"throw", "throwx"}
  <2>1. /\ cur.op = "throw" => e[cur] = {"local"}
        /\ cur.op = "throwx" => e[cur] = {"call"}
    BY EffectForms
  <2> QED
    BY <1>1, <1>2, <2>1
<1>3. CASE cur.op \in {"call", "icall"} /\ cur.fn \in Externs /\ extern_can_throw(cur.fn)
  <2>1. cur.fn \in Marked
    BY <1>3 DEF AInv, Throwing
  <2>2. can_throw[cur.fn]
    BY <2>1 DEF Marked
  <2>3. e[cur] = call_effect(can_throw, cur)
    BY <1>3, EffectForms DEF Calls
  <2> QED
    BY <1>1, <2>2, <2>3 DEF call_effect
<1>4. CASE cur = Nop /\ Top.k = "catch"
  <2>1. i # Len(konts)
    BY <1>4 DEF Barrier, Top
  <2>2. Len(konts) \in (i + 1)..Len(konts)
    <3>1. Len(konts) \in Nat
      BY StackShape
    <3> QED
      BY <2>1, <3>1
  <2>3. ~Loud(e, can_throw, konts[Len(konts)])
    BY <1>1, <2>2
  <2> QED
    BY <1>4, <2>3 DEF Loud, Top
<1> QED
  BY <1>2, <1>3, <1>4 DEF Raises

\* Cutting the stack.
LEMMA HushedCut ==
    ASSUME NEW e, NEW ct, NEW ks, Stack(ks), NEW c, Hushed(e, ct, ks, c),
           NEW p \in 1..Len(ks), NEW d,
           \A i \in 1..p : Barrier(ct, ks[i]) => e[d] = {}
    PROVE  Hushed(e, ct, SubSeq(ks, 1, p), d)
<1> DEFINE q == SubSeq(ks, 1, p)
<1>1. Len(q) = p /\ \A i \in 1..p : q[i] = ks[i]
  BY PrefixIs DEF Stack
<1>2. Len(ks) \in Nat /\ p \in Nat /\ p <= Len(ks)
  BY DEF Stack
<1> HIDE DEF q
<1>3. ASSUME NEW i \in 1..p, Barrier(ct, q[i]), NEW j \in (i + 1)..p
      PROVE  ~Loud(e, ct, q[j])
  <2>1. i \in 1..Len(ks) /\ j \in (i + 1)..Len(ks) /\ q[i] = ks[i] /\ q[j] = ks[j]
    BY <1>1, <1>2, <1>3
  <2> QED
    BY <2>1, <1>3 DEF Hushed
<1>4. ASSUME NEW i \in 1..p, Barrier(ct, q[i]) PROVE e[d] = {}
  BY <1>1, <1>4
<1>5. Hushed(e, ct, q, d)
  BY <1>1, <1>3, <1>4 DEF Hushed
<1> QED
  BY <1>5 DEF q

\* Pushing x and going on with d: if the statement had no effect, neither has
\* what became of it.
LEMMA HushedPush ==
    ASSUME NEW e, NEW ct, NEW ks, Stack(ks), NEW c, Hushed(e, ct, ks, c), NEW x, NEW d,
           e[c] = {} => ~Loud(e, ct, x) /\ e[d] = {},
           Barrier(ct, x) => e[d] = {}
    PROVE  Hushed(e, ct, Append(ks, x), d)
<1> DEFINE q == Append(ks, x)
           n == Len(ks)
<1>1. n \in Nat /\ Len(q) = n + 1 /\ q[n + 1] = x /\ \A i \in 1..n : q[i] = ks[i]
  BY AppendIs
<1> HIDE DEF q
<1>2. ASSUME NEW i \in 1..(n + 1), Barrier(ct, q[i])
      PROVE  e[d] = {} /\ \A j \in (i + 1)..(n + 1) : ~Loud(e, ct, q[j])
  <2>1. CASE i \in 1..n
    <3>1. e[c] = {} /\ \A j \in (i + 1)..n : ~Loud(e, ct, ks[j])
      BY <1>1, <1>2, <2>1 DEF Hushed
    <3>2. ~Loud(e, ct, x) /\ e[d] = {}
      BY <3>1
    <3>3. ASSUME NEW j \in (i + 1)..(n + 1) PROVE ~Loud(e, ct, q[j])
      <4>1. CASE j = n + 1
        BY <4>1, <3>2, <1>1
      <4>2. CASE j # n + 1
        <5>1. j \in (i + 1)..n /\ j \in 1..n
          BY <4>2, <1>1, <2>1
        <5> QED
          BY <5>1, <3>1, <1>1
      <4> QED
        BY <4>1, <4>2
    <3> QED
      BY <3>2, <3>3
  <2>2. CASE i = n + 1
    <3>1. (i + 1)..(n + 1) = {}
      BY <2>2, <1>1
    <3> QED
      BY <3>1, <2>2, <1>1, <1>2
  <2> QED
    BY <2>1, <2>2, <1>1
<1>3. Hushed(e, ct, q, d)
  BY <1>1, <1>2 DEF Hushed
<1> QED
  BY <1>3 DEF q

\* Disarming.
LEMMA HushedDisarm ==
    ASSUME Stack(konts), NEW e, NEW ct, NEW c, Hushed(e, ct, konts, c)
    PROVE  Hushed(e, ct, Disarmed, c)
<1> DEFINE q == Disarmed
<1>1. Len(q) = Len(konts) /\ \A i \in 1..Len(konts) :
         /\ q[i].node = konts[i].node /\ q[i].fn = konts[i].fn
         /\ q[i].k = konts[i].k \/ (konts[i].k = "dtry" /\ q[i].k = "popped")
  BY DisarmStack
<1> HIDE DEF q
<1>2. ASSUME NEW i \in 1..Len(konts)
      PROVE  /\ Barrier(ct, q[i]) <=> Barrier(ct, konts[i])
             /\ Loud(e, ct, q[i]) <=> Loud(e, ct, konts[i])
  <2>1. CASE q[i].k = konts[i].k
    BY <1>1, <2>1 DEF Barrier, Loud
  <2>2. CASE konts[i].k = "dtry" /\ q[i].k = "popped"
    BY <1>1, <2>2 DEF Barrier, Loud
  <2> QED
    BY <1>1, <2>1, <2>2
<1>3. \A i \in 1..Len(konts) : \A j \in (i + 1)..Len(konts) : j \in 1..Len(konts)
  BY StackShape
<1>4. Hushed(e, ct, q, c)
  BY <1>1, <1>2, <1>3 DEF Hushed
<1> QED
  BY <1>4 DEF q

\* Every move keeps quiet what has to be.
LEMMA HushedMoves ==
    ASSUME FiniteTrees, AInv, status # "analyze", Stack(konts), cur \in Stmts, Goes,
           Hushed(effect(can_throw), can_throw, konts, cur)
    PROVE  Hushed(effect(can_throw), can_throw, konts', cur')
<1> DEFINE e == effect(can_throw)
           ct == can_throw
<1>nop. e[Nop] = {} /\ Nop \in Stmts
  BY StmtFacts, EffectForms DEF Calls
<1>0. /\ Hushed(e, ct, konts, cur) /\ Len(konts) \in Nat /\ Len(konts) \in 1..Len(konts)
      /\ Len(konts) >= 1
  BY StackShape
<1>call. ASSUME cur.op \in Calls, cur.fn \in Bodied, e[cur] = {} \/ ~ct[cur.fn]
         PROVE  ~ct[cur.fn] /\ e[prog[cur.fn]] = {}
  <2>1. e[cur] = call_effect(ct, cur) /\ cur.fn # Startup
    BY <1>call, EffectForms, StmtFacts
  <2>2. ~ct[cur.fn]
    BY <2>1, <1>call DEF call_effect
  <2> QED
    BY <2>1, <2>2, <1>call, QuietBodies
<1> HIDE DEF e
<1>1. CASE Stays
  <2>1. e[cur'] = {} \/ (cur.op = "if" /\ e[cur'] \subseteq e[cur])
        \/ (Top.k = "loop" /\ e[cur'] = e[Top.node])
    <3>1. CASE cur' = Nop
      BY <3>1, <1>nop
    <3>2. CASE cur.op = "if" /\ cur' \in {cur.a, cur.b}
      <4>1. e[cur] = e[cur.a] \cup e[cur.b]
        BY <3>2, EffectForms DEF e
      <4> QED
        BY <3>2, <4>1
    <3>3. CASE cur = Nop /\ Top.k = "loop" /\ cur' = Top.node.a
      <4>1. Top.node.op = "loop" /\ Top.node \in Stmts
        BY <3>3, StackShape DEF Stack, Nodes, Top
      <4>2. e[Top.node] = e[Top.node.a]
        BY <4>1, EffectForms DEF e
      <4> QED
        BY <3>3, <4>2
    <3> QED
      BY <1>1, <3>1, <3>2, <3>3 DEF Stays
  <2>2. ASSUME NEW i \in 1..Len(konts), Barrier(ct, konts[i]) PROVE e[cur'] = {}
    <3>1. e[cur] = {} /\ \A j \in (i + 1)..Len(konts) : ~Loud(e, ct, konts[j])
      BY <1>0, <2>2 DEF Hushed
    <3>2. CASE Top.k = "loop" /\ e[cur'] = e[Top.node]
      <4>1. i # Len(konts)
        BY <2>2, <3>2 DEF Barrier, Top
      <4>2. Len(konts) \in (i + 1)..Len(konts)
        BY <4>1, <1>0
      <4>3. ~Loud(e, ct, konts[Len(konts)])
        BY <3>1, <4>2
      <4> QED
        BY <3>2, <4>3 DEF Loud, Top
    <3> QED
      BY <2>1, <3>1, <3>2
  <2>3. konts' = konts
    BY <1>1 DEF Stays
  <2> QED
    BY <2>2, <2>3, <1>0 DEF Hushed, e
<1>2. CASE Cuts
  <2>1. PICK p \in 1..Len(konts) : konts' = SubSeq(konts, 1, p)
    BY <1>2 DEF Cuts
  <2>2. e[cur'] = {}
    BY <1>2, <1>nop DEF Cuts
  <2> QED
    BY <1>0, <2>1, <2>2, HushedCut DEF e
<1>3. CASE Resumes
  <2>1. Top.k = "seq" /\ konts' = SubSeq(konts, 1, Len(konts) - 1) /\ cur' = Top.node
    BY <1>3 DEF Resumes, Pop, Below
  <2>2. Len(konts) - 1 \in 1..Len(konts)
    BY <2>1, StackShape
  <2>3. ASSUME NEW i \in 1..(Len(konts) - 1), Barrier(ct, konts[i]) PROVE e[cur'] = {}
    <3>1. i \in 1..Len(konts) /\ Len(konts) \in (i + 1)..Len(konts)
      BY <2>2, <1>0
    <3>2. ~Loud(e, ct, konts[Len(konts)])
      BY <3>1, <2>3, <1>0 DEF Hushed
    <3> QED
      BY <3>2, <2>1 DEF Loud, Top
  <2> QED
    BY <1>0, <2>1, <2>2, <2>3, HushedCut DEF e
<1>4. CASE Nests
  <2>1. CASE cur.op = "seq" /\ konts' = Push("seq", cur.b) /\ cur' = cur.a
    <3> DEFINE x == Over(konts[Len(konts)], "seq", cur.b)
    <3>1. cur.b \in Stmts /\ e[cur] = e[cur.a] \cup e[cur.b]
      BY <2>1, StmtFacts, EffectForms DEF Binary, e
    <3>2. x.k = "seq" /\ x.node = cur.b
      BY <3>1, PushIs DEF Kinds
    <3>3. konts' = Append(konts, x)
      BY <2>1 DEF Push, Top
    <3> HIDE DEF x
    <3>4. e[cur] = {} => ~Loud(e, ct, x) /\ e[cur'] = {}
      BY <2>1, <3>1, <3>2 DEF Loud
    <3>5. ~Barrier(ct, x)
      BY <3>2 DEF Barrier
    <3> QED
      BY <1>0, <3>3, <3>4, <3>5, HushedPush DEF e
  <2>2. CASE cur.op = "loop" /\ konts' = Push("loop", cur) /\ cur' = Nop
    <3> DEFINE x == Over(konts[Len(konts)], "loop", cur)
    <3>2. x.k = "loop" /\ x.node = cur
      BY PushIs DEF Kinds
    <3>3. konts' = Append(konts, x)
      BY <2>2 DEF Push, Top
    <3> HIDE DEF x
    <3>4. e[cur] = {} => ~Loud(e, ct, x) /\ e[cur'] = {}
      BY <2>2, <3>2, <1>nop DEF Loud
    <3>5. ~Barrier(ct, x)
      BY <3>2 DEF Barrier
    <3> QED
      BY <1>0, <3>3, <3>4, <3>5, HushedPush DEF e
  <2>3. CASE cur.op = "try" /\ konts' = Push(try_mode(can_throw, cur), cur) /\ cur' = cur.a
    <3> DEFINE mode == try_mode(can_throw, cur)
               x == Over(konts[Len(konts)], mode, cur)
    <3>1. e[cur] = try_effect(e[cur.a], e[cur.b])
      BY <2>3, EffectForms DEF e
    <3>2. mode \in {"ntry", "ltry", "dtry"} /\ (mode = "ntry" <=> e[cur.a] = {})
      BY ModeIs DEF e
    <3>3. konts' = Append(konts, x)
      BY <2>3 DEF Push, Top
    <3> HIDE DEF mode
    <3>4. x.k = mode /\ x.node = cur
      BY <3>2, PushIs DEF Kinds
    <3> HIDE DEF x
    <3>5. e[cur] = {} => e[cur.a] = {}
      BY <3>1 DEF try_effect
    <3>6. e[cur] = {} => ~Loud(e, ct, x) /\ e[cur'] = {}
      BY <2>3, <3>2, <3>4, <3>5 DEF Loud
    <3>7. Barrier(ct, x) => e[cur'] = {}
      BY <2>3, <3>2, <3>4 DEF Barrier
    <3> QED
      BY <1>0, <3>3, <3>6, <3>7, HushedPush DEF e
  <2> QED
    BY <1>4, <2>1, <2>2, <2>3 DEF Nests
<1>5. CASE CallsIn
  <2> DEFINE x == CallEntry(cur.fn, Len(konts) + 1, Top.lv)
  <2>1. konts' = Append(konts, x) /\ cur' = prog[cur.fn] /\ cur.fn \in Bodied /\ cur.op \in Calls
    BY <1>5 DEF CallsIn, Calls
  <2>2. x.k = "call" /\ x.fn = cur.fn
    BY CallEntryIs
  <2> HIDE DEF x
  <2>3. e[cur] = {} => ~Loud(e, ct, x) /\ e[cur'] = {}
    BY <2>1, <2>2, <1>call DEF Loud
  <2>4. Barrier(ct, x) => e[cur'] = {}
    BY <2>1, <2>2, <1>call DEF Barrier
  <2> QED
    BY <1>0, <2>1, <2>3, <2>4, HushedPush DEF e
<1>6. CASE ReturnsCall
  <2> DEFINE x == CallEntry(cur.fn, Len(konts) + 2, konts[Top.cp].lv)
             r == Over(Disarmed[Len(konts)], "ret", Nop)
  <2>1. konts' = Append(Returning, x) /\ cur' = prog[cur.fn] /\ cur.fn \in Bodied /\ cur.op \in Calls
    BY <1>6 DEF ReturnsCall, Calls
  <2>2. x.k = "call" /\ x.fn = cur.fn
    BY CallEntryIs
  <2> HIDE DEF x
  <2>3. Stack(Disarmed) /\ Len(Disarmed) = Len(konts)
    BY DisarmStack
  <2>4. Hushed(e, ct, Disarmed, cur)
    BY <1>0, HushedDisarm
  <2>5. r.k = "ret"
    BY <2>3, <1>nop, PushIs DEF Kinds
  <2>6. Returning = Append(Disarmed, r)
    BY DEF Returning
  <2> HIDE DEF r
  <2>7. ~Loud(e, ct, r) /\ ~Barrier(ct, r)
    BY <2>5 DEF Loud, Barrier
  <2>8. Hushed(e, ct, Returning, cur)
    BY <2>3, <2>4, <2>6, <2>7, HushedPush
  <2>9. e[cur] = {} => ~Loud(e, ct, x) /\ e[cur'] = {}
    BY <2>1, <2>2, <1>call DEF Loud
  <2>10. Barrier(ct, x) => e[cur'] = {}
    BY <2>1, <2>2, <1>call DEF Barrier
  <2>11. Stack(Returning)
    BY ReturningStack
  <2> QED
    BY <2>1, <2>8, <2>9, <2>10, <2>11, HushedPush DEF e
<1>7. CASE Handles
  <2>1. PICK h \in 2..Len(konts) : konts[h].k \in {"ltry", "dtry"} /\ EnterCatch(h)
    BY <1>7 DEF Handles
  <2>2. /\ Len(konts') = h /\ konts'[h].k = "catch"
        /\ \A i \in 1..(h - 1) : konts'[i] = konts[i]
    BY <2>1, CatchStack DEF Bodies
  <2>3. ASSUME NEW i \in 1..Len(konts') PROVE ~Barrier(ct, konts'[i])
    <3>1. CASE i = h
      BY <2>2, <3>1 DEF Barrier
    <3>2. CASE i # h
      <4>1. i \in 1..(h - 1) /\ i \in 1..Len(konts)
        BY <2>2, <3>2, <1>0
      <4>2. Raises
        BY <1>7 DEF Handles
      <4> QED
        BY <4>1, <4>2, <2>2, <1>0, NoBarrier DEF e
    <3> QED
      BY <3>1, <3>2
  <2> QED
    BY <2>3 DEF Hushed, e
<1> QED
  BY <1>1, <1>2, <1>3, <1>4, <1>5, <1>6, <1>7 DEF Goes

\* The invariant: the analysis, the shape of the stack, and silence above the
\* barriers from the moment the program runs.
QInv == /\ AInv
        /\ cur \in Stmts
        /\ Stack(konts)
        /\ status = "analyze" => konts = <<CallEntry(Startup, 1, 0)>> /\ cur = prog[Startup]
        /\ status = "run" => Hushed(effect(can_throw), can_throw, konts, cur)

\* The stack holds the startup function alone.
LEMMA StartStack ==
    LET ks == <<CallEntry(Startup, 1, 0)>> IN
    /\ Stack(ks) /\ Len(ks) = 1
    /\ ks[1].k = "call" /\ ks[1].fn = Startup /\ ks[1].cp = 1 /\ ks[1].lv = 0
<1> DEFINE e == CallEntry(Startup, 1, 0)
<1>1. e \in StackEntry /\ e.k = "call" /\ e.fn = Startup /\ e.cp = 1 /\ e.lv = 0 /\ e.td = 0
  BY StmtsAssumption DEF CallEntry, Entry, StackEntry, Kinds, Funcs
<1> HIDE DEF e
<1>2. <<e>> \in Seq(StackEntry) /\ Len(<<e>>) = 1 /\ <<e>>[1] = e
  BY <1>1
<1>3. Stack(<<e>>)
  BY <1>1, <1>2 DEF Stack, Activations, Levels, Nodes, Bodies
<1> QED
  BY <1>1, <1>2, <1>3 DEF e

LEMMA QuietStarts == FiniteTrees /\ Init => QInv
<1> SUFFICES ASSUME Init PROVE QInv
  OBVIOUS
<1>1. AInv /\ status = "analyze"
  BY AnalysisStarts DEF Init
<1>2. cur = prog[Startup] /\ konts = <<CallEntry(Startup, 1, 0)>> /\ Startup \in Bodied
  BY DEF Init, Bodied
<1> QED
  BY <1>1, <1>2, StartStack, FuncFacts DEF QInv

LEMMA QuietStep ==
    ASSUME FiniteTrees, QInv, [Next]_vars
    PROVE  QInv'
<1>0. AInv /\ cur \in Stmts /\ Stack(konts) /\ prog \in Programs
  BY DEF QInv, AInv
<1>a. AInv'
  BY AnalysisStep DEF QInv
<1>1. CASE Run
  <2>1. status = "run" /\ UNCHANGED <<prog, can_throw>>
    BY <1>1 DEF Run, analysis
  <2>2. CASE Goes /\ status' = "run"
    <3>1. Stack(konts') /\ cur' \in Stmts
      BY <1>0, <2>2, StackMoves
    <3>2. Hushed(effect(can_throw), can_throw, konts', cur')
      BY <1>0, <2>1, <2>2, HushedMoves DEF QInv
    <3>3. Hushed(effect(can_throw), can_throw, konts, cur)'
      BY <2>1, <3>2
    <3>4. Stack(konts)'
      BY <3>1 DEF Stack, Activations, Levels, Nodes
    <3> QED
      BY <1>a, <2>2, <3>1, <3>3, <3>4 DEF QInv
  <2>3. CASE Ends
    <3>1. UNCHANGED <<konts, cur>> /\ status' # "run" /\ status' # "analyze"
      BY <2>3 DEF Ends
    <3>2. Stack(konts)'
      BY <1>0, <3>1 DEF Stack, Activations, Levels, Nodes
    <3> QED
      BY <1>0, <1>a, <3>1, <3>2 DEF QInv
  <2> QED
    BY <1>0, <1>1, <2>2, <2>3, Moves
<1>2. CASE Analyze
  <2>1. status = "analyze" /\ UNCHANGED <<prog, konts, cur>>
    BY <1>2 DEF Analyze, AnalyzeFn, AnalyzeAgain, AnalyzeDone
  <2>2. konts = <<CallEntry(Startup, 1, 0)>> /\ cur = prog[Startup]
    BY <2>1 DEF QInv
  <2>3. Stack(konts)'
    BY <1>0, <2>1 DEF Stack, Activations, Levels, Nodes
  <2>4. CASE AnalyzeFn \/ AnalyzeAgain
    <3>1. status' = "analyze"
      BY <2>1, <2>4 DEF AnalyzeFn, AnalyzeAgain
    <3> QED
      BY <1>0, <1>a, <2>1, <2>2, <2>3, <3>1 DEF QInv
  <2>5. CASE AnalyzeDone
    <3>1. /\ can_throw' = [can_throw EXCEPT ![Startup] = throws(can_throw, Startup)]
          /\ status' = "run"
      BY <2>5 DEF AnalyzeDone
    <3>2. can_throw'[Startup] = throws(can_throw, Startup)
          /\ \A f \in Funcs \ {Startup} : can_throw'[f] = can_throw[f]
      BY <3>1, <1>0 DEF AInv, Funcs
    <3>3. \A f \in Listed : can_throw'[f] <=> can_throw[f]
      BY <3>2, <1>0, FuncFacts
    <3>4. effect(can_throw')[cur] = effect(can_throw)[cur]
      BY <1>0, <3>3, EffectListed
    <3>5. ~can_throw'[Startup] => effect(can_throw')[cur'] = {}
      BY <2>1, <2>2, <3>2, <3>4 DEF throws
    <3>6. Len(konts') = 1 /\ konts'[1].k = "call" /\ konts'[1].fn = Startup
      BY <2>1, <2>2, StartStack
    <3>7. Hushed(effect(can_throw), can_throw, konts, cur)'
      <4>1. ASSUME NEW i \in 1..Len(konts'), Barrier(can_throw', konts'[i])
            PROVE  /\ effect(can_throw')[cur'] = {}
                   /\ \A j \in (i + 1)..Len(konts') : ~Loud(effect(can_throw'), can_throw', konts'[j])
        <5>1. i = 1 /\ (i + 1)..Len(konts') = {}
          BY <3>6
        <5>2. ~can_throw'[Startup]
          BY <4>1, <5>1, <3>6 DEF Barrier
        <5> QED
          BY <5>1, <5>2, <3>5
      <4> QED
        BY <4>1 DEF Hushed
    <3> QED
      BY <1>0, <1>a, <2>1, <2>3, <3>1, <3>7 DEF QInv
  <2> QED
    BY <1>2, <2>4, <2>5 DEF Analyze
<1>3. CASE UNCHANGED vars
  <2>1. UNCHANGED <<prog, status, can_throw, cur, konts>>
    BY <1>3 DEF vars, analysis
  <2>2. Stack(konts)'
    BY <1>0, <2>1 DEF Stack, Activations, Levels, Nodes
  <2>3. Hushed(effect(can_throw), can_throw, konts, cur)' <=>
          Hushed(effect(can_throw), can_throw, konts, cur)
    BY <2>1
  <2> QED
    BY <1>0, <1>a, <2>1, <2>2, <2>3 DEF QInv
<1> QED
  BY <1>1, <1>2, <1>3 DEF Next, Ended

\* A step that enters a catch block is the handling of an exception.
LEMMA CatchingHandles ==
    ASSUME Stack(konts), cur \in Stmts, prog \in Programs, Goes, Catching
    PROVE  Handles
<1>0. /\ Len(konts) \in Nat /\ Len(konts) >= 1 /\ konts \in Seq(StackEntry)
      /\ konts' # konts /\ konts'[Len(konts')].k = "catch"
      /\ \/ Len(konts') <= Len(konts) /\ konts[Len(konts')].k \in Bodies
         \/ Len(konts') > Len(konts)
  BY StackShape DEF Catching
<1>cut. ASSUME NEW p \in 1..Len(konts), konts' = SubSeq(konts, 1, p) PROVE FALSE
  <2>1. Len(konts') = p /\ konts'[p] = konts[p] /\ p <= Len(konts) /\ p \in Nat
    BY <1>0, <1>cut, PrefixIs
  <2>2. konts[p].k = "catch"
    BY <1>0, <2>1
  <2> QED
    BY <1>0, <2>1, <2>2 DEF Bodies
<1>push. ASSUME NEW ks, Stack(ks), NEW x, konts' = Append(ks, x), x.k # "catch" PROVE FALSE
  BY <1>0, <1>push, AppendIs
<1>1. CASE Stays
  BY <1>0, <1>1 DEF Stays
<1>2. CASE Cuts
  BY <1>2, <1>cut DEF Cuts
<1>3. CASE Resumes
  <2>1. Len(konts) - 1 \in 1..Len(konts)
    BY <1>3, StackShape DEF Resumes
  <2> QED
    BY <1>3, <2>1, <1>cut DEF Resumes, Pop, Below
<1>4. CASE Nests
  <2>1. PICK k \in {"seq", "loop", "ntry", "ltry", "dtry"}, node \in Stmts : konts' = Push(k, node)
    <3>1. CASE cur.op = "seq" /\ konts' = Push("seq", cur.b)
      BY <3>1, StmtFacts DEF Binary
    <3>2. CASE cur.op = "loop" /\ konts' = Push("loop", cur)
      BY <3>2
    <3>3. CASE konts' = Push(try_mode(can_throw, cur), cur)
      BY <3>3, ModeIs
    <3> QED
      BY <1>4, <3>1, <3>2, <3>3 DEF Nests
  <2>2. k \in Kinds /\ k # "catch"
    BY DEF Kinds
  <2>3. Over(konts[Len(konts)], k, node).k = k
    BY <2>2, PushIs
  <2> QED
    BY <2>1, <2>2, <2>3, <1>push DEF Push, Top
<1>5. CASE CallsIn
  BY <1>5, <1>push, CallEntryIs DEF CallsIn
<1>6. CASE ReturnsCall
  BY <1>6, <1>push, CallEntryIs, ReturningStack DEF ReturnsCall
<1> QED
  BY <1>1, <1>2, <1>3, <1>4, <1>5, <1>6 DEF Goes

\* What an exception passes on its way.
LEMMA UnwoundFacts ==
    ASSUME Stack(konts), cur \in Stmts, prog \in Programs, Run, Catching \/ Dying
    PROVE  Raises /\ Unwound \subseteq 1..Len(konts)
<1>1. CASE Dying
  <2>1. Ends /\ status' = "unhandled"
    BY <1>1, Moves DEF Dying
  <2>2. Unwound = 1..Len(konts)
    BY <1>1, StackShape DEF Unwound
  <2> QED
    BY <2>1, <2>2 DEF Ends
<1>2. CASE Catching /\ ~Dying
  <2>1. Goes
    BY <1>2, Moves DEF Catching, Ends
  <2>2. Handles
    BY <1>2, <2>1, CatchingHandles
  <2>3. PICK h \in 2..Len(konts) : konts[h].k \in {"ltry", "dtry"} /\ EnterCatch(h)
    BY <2>2 DEF Handles
  <2>4. Len(konts') = h /\ Len(konts) \in Nat
    BY <2>3, CatchStack, StackShape DEF Bodies
  <2>5. Unwound = (h + 1)..Len(konts)
    BY <1>2, <2>4 DEF Unwound
  <2> QED
    BY <2>2, <2>4, <2>5 DEF Handles
<1> QED
  BY <1>1, <1>2

LEMMA QuietAlways ==
    ASSUME FiniteTrees, QInv, [Next]_vars
    PROVE  [Catching \/ Dying =>
              \A i \in Unwound : konts[i].k = "call" => can_throw[konts[i].fn]]_vars
<1> SUFFICES ASSUME Next, Catching \/ Dying, NEW i \in Unwound, konts[i].k = "call"
             PROVE  can_throw[konts[i].fn]
  OBVIOUS
<1>1. status = "run"
  BY DEF Catching, Dying
<1>2. Run
  BY <1>1 DEF Next, Analyze, Ended
<1>3. AInv /\ cur \in Stmts /\ Stack(konts) /\ prog \in Programs
      /\ Hushed(effect(can_throw), can_throw, konts, cur)
  BY <1>1 DEF QInv, AInv
<1>4. Raises /\ i \in 1..Len(konts)
  BY <1>2, <1>3, UnwoundFacts
<1>5. ~Barrier(can_throw, konts[i])
  BY <1>3, <1>4, NoBarrier
<1> QED
  BY <1>5 DEF Barrier

\* Whatever a program of finite trees does, and even where a break or a return
\* loses a frame: an exception never passes a function the analysis calls
\* quiet, whose callers were compiled without a handler.
THEOREM QuietStaysQuiet == ASSUME FiniteTrees PROVE Spec => QuietFunctionsStayQuiet
<1>1. QInv /\ [Next]_vars => QInv'
  BY QuietStep
<1>2. Init => QInv
  BY QuietStarts
<1>3. QInv /\ [Next]_vars =>
        [Catching \/ Dying =>
           \A i \in Unwound : konts[i].k = "call" => can_throw[konts[i].fn]]_vars
  BY QuietAlways
<1> QED
  BY <1>1, <1>2, <1>3, PTL DEF Spec, QuietFunctionsStayQuiet

-----------------------------------------------------------------------------
(* The innermost handler. *)

\* An exception of a call can come from what is left to do at the entry x.
Carries(e, ct, x) ==
    \/ x.k \in {"seq", "loop"} /\ "call" \in e[x.node]
    \/ x.k \in {"ltry", "dtry"} /\ "call" \in e[x.node.b]
    \/ x.k = "call" /\ ct[x.fn]

\* No try body with a frame, or that had one, between the positions i and j.
Clear(ks, i, j) == \A m \in (i + 1)..(j - 1) : ks[m].k \notin {"dtry", "popped"}

\* In a local try no exception comes from a call, except under a dynamic try.
Confined(e, ct, ks, c) ==
    \A i \in 1..Len(ks) : ks[i].k = "ltry" =>
       /\ \A j \in (i + 1)..Len(ks) : Clear(ks, i, j) => ~Carries(e, ct, ks[j])
       /\ Clear(ks, i, Len(ks) + 1) => "call" \notin e[c]

\* A try body whose frame a return has popped is covered by the call of a quiet
\* function, or that call has ended and the return goes on.
Covered(ct, ks, c) ==
    \A i \in 1..Len(ks) : ks[i].k = "popped" =>
       \/ c = Nop /\ ks[Len(ks)].k = "ret" /\ ks[Len(ks)].cp = ks[i].cp
       \/ \E j \in (i + 2)..Len(ks) :
             /\ ks[j].k = "call" /\ ~ct[ks[j].fn]
             /\ ks[j - 1].k = "ret" /\ ks[j - 1].cp = ks[i].cp

\* A call entry starts an activation, and all its entries are of one function.
Owned(ks) == \A i \in 1..Len(ks) : /\ ks[i].k = "call" => ks[i].cp = i
                                   /\ ks[i].fn = ks[ks[i].cp].fn

\* The statement about to run returns the result of a call that may throw from
\* inside a try body that has a frame.
ReturnLosesTry == /\ status = "run"
                  /\ cur.op = "retcall"
                  /\ can_throw[cur.fn]
                  /\ \E i \in Armed : Top.cp < i

LEMMA ConfinedCut ==
    ASSUME NEW e, NEW ct, NEW ks, Stack(ks), NEW c, Confined(e, ct, ks, c),
           NEW p \in 1..Len(ks), NEW d,
           \A i \in 1..p : ks[i].k = "ltry" /\ Clear(ks, i, p + 1) => "call" \notin e[d]
    PROVE  Confined(e, ct, SubSeq(ks, 1, p), d)
<1> DEFINE q == SubSeq(ks, 1, p)
<1>1. Len(q) = p /\ \A i \in 1..p : q[i] = ks[i]
  BY PrefixIs DEF Stack
<1>2. Len(ks) \in Nat /\ p \in Nat /\ p <= Len(ks)
  BY DEF Stack
<1> HIDE DEF q
<1>3. ASSUME NEW i \in 1..p, NEW j \in (i + 1)..(p + 1) PROVE Clear(q, i, j) <=> Clear(ks, i, j)
  <2>1. \A m \in (i + 1)..(j - 1) : m \in 1..p /\ q[m] = ks[m]
    BY <1>1, <1>2, <1>3
  <2> QED
    BY <2>1 DEF Clear
<1>4. ASSUME NEW i \in 1..p, q[i].k = "ltry", NEW j \in (i + 1)..p, Clear(q, i, j)
      PROVE  ~Carries(e, ct, q[j])
  <2>1. i \in 1..Len(ks) /\ j \in (i + 1)..Len(ks) /\ q[i] = ks[i] /\ q[j] = ks[j]
        /\ j \in (i + 1)..(p + 1)
    BY <1>1, <1>2, <1>4
  <2>2. Clear(ks, i, j)
    BY <2>1, <1>3, <1>4
  <2> QED
    BY <2>1, <2>2, <1>4 DEF Confined
<1>5. ASSUME NEW i \in 1..p, q[i].k = "ltry", Clear(q, i, p + 1) PROVE "call" \notin e[d]
  <2>1. p + 1 \in (i + 1)..(p + 1)
    BY <1>2
  <2>2. Clear(ks, i, p + 1)
    BY <2>1, <1>3, <1>5
  <2> QED
    BY <2>2, <1>1, <1>5
<1>6. Confined(e, ct, q, d)
  BY <1>1, <1>4, <1>5 DEF Confined
<1> QED
  BY <1>6 DEF q

LEMMA ConfinedPush ==
    ASSUME NEW e, NEW ct, NEW ks, Stack(ks), NEW c, Confined(e, ct, ks, c), NEW x, NEW d,
           "call" \notin e[c] => ~Carries(e, ct, x) /\ (x.k = "dtry" \/ "call" \notin e[d]),
           x.k = "ltry" => "call" \notin e[d]
    PROVE  Confined(e, ct, Append(ks, x), d)
<1> DEFINE q == Append(ks, x)
           n == Len(ks)
<1>1. n \in Nat /\ Len(q) = n + 1 /\ q[n + 1] = x /\ \A i \in 1..n : q[i] = ks[i]
  BY AppendIs
<1> HIDE DEF q
<1>2. ASSUME NEW i \in 1..n, NEW j \in (i + 1)..(n + 1) PROVE Clear(q, i, j) <=> Clear(ks, i, j)
  <2>1. \A m \in (i + 1)..(j - 1) : m \in 1..n /\ q[m] = ks[m]
    BY <1>1, <1>2
  <2> QED
    BY <2>1 DEF Clear
<1>3. ASSUME NEW i \in 1..n, Clear(q, i, n + 2) PROVE Clear(ks, i, n + 1) /\ x.k # "dtry"
  <2>1. n + 1 \in (i + 1)..(n + 1) /\ (n + 2) - 1 = n + 1 /\ n + 1 \in (i + 1)..((n + 2) - 1)
    BY <1>1, <1>3
  <2>2. \A m \in (i + 1)..n : m \in (i + 1)..((n + 2) - 1)
    BY <1>1
  <2>3. Clear(q, i, n + 1)
    <3>1. (n + 1) - 1 = n
      BY <1>1
    <3> QED
      BY <2>2, <3>1, <1>3 DEF Clear
  <2>4. q[n + 1].k # "dtry"
    BY <2>1, <1>3 DEF Clear
  <2> QED
    BY <2>1, <2>3, <2>4, <1>1, <1>2
<1>4. ASSUME NEW i \in 1..(n + 1), q[i].k = "ltry", NEW j \in (i + 1)..(n + 1), Clear(q, i, j)
      PROVE  ~Carries(e, ct, q[j])
  <2>1. i \in 1..n /\ q[i] = ks[i]
    BY <1>1, <1>4
  <2>2. Clear(ks, i, j)
    BY <2>1, <1>2, <1>4
  <2>3. CASE j = n + 1
    BY <2>1, <2>2, <2>3, <1>1, <1>4 DEF Confined
  <2>4. CASE j # n + 1
    <3>1. j \in (i + 1)..n /\ q[j] = ks[j]
      BY <2>1, <2>4, <1>1
    <3> QED
      BY <3>1, <2>1, <2>2, <1>4 DEF Confined
  <2> QED
    BY <2>3, <2>4
<1>5. ASSUME NEW i \in 1..(n + 1), q[i].k = "ltry", Clear(q, i, n + 2) PROVE "call" \notin e[d]
  <2>1. CASE i = n + 1
    BY <2>1, <1>1, <1>5
  <2>2. CASE i # n + 1
    <3>1. i \in 1..n /\ q[i] = ks[i]
      BY <2>2, <1>1
    <3>2. Clear(ks, i, n + 1) /\ x.k # "dtry"
      BY <3>1, <1>3, <1>5
    <3>3. "call" \notin e[c]
      BY <3>1, <3>2, <1>5 DEF Confined
    <3> QED
      BY <3>2, <3>3
  <2> QED
    BY <2>1, <2>2
<1>6. Len(q) + 1 = n + 2
  BY <1>1
<1>7. Confined(e, ct, q, d)
  BY <1>1, <1>4, <1>5, <1>6 DEF Confined
<1> QED
  BY <1>7 DEF q

LEMMA ConfinedDisarm ==
    ASSUME Stack(konts), NEW e, NEW ct, NEW c, Confined(e, ct, konts, c)
    PROVE  Confined(e, ct, Disarmed, c)
<1> DEFINE q == Disarmed
           n == Len(konts)
<1>1. Len(q) = n /\ \A i \in 1..n :
         /\ q[i].node = konts[i].node /\ q[i].fn = konts[i].fn
         /\ q[i].k = konts[i].k \/ (konts[i].k = "dtry" /\ q[i].k = "popped")
  BY DisarmStack
<1> HIDE DEF q
<1>2. ASSUME NEW i \in 1..n
      PROVE  /\ q[i].k = "ltry" <=> konts[i].k = "ltry"
             /\ Carries(e, ct, q[i]) => Carries(e, ct, konts[i])
             /\ q[i].k \in {"dtry", "popped"} <=> konts[i].k \in {"dtry", "popped"}
  <2>1. CASE q[i].k = konts[i].k
    BY <1>1, <2>1 DEF Carries
  <2>2. CASE konts[i].k = "dtry" /\ q[i].k = "popped"
    BY <1>1, <2>2 DEF Carries
  <2> QED
    BY <1>1, <2>1, <2>2
<1>3. n \in Nat
  BY StackShape
<1>4. ASSUME NEW i \in 1..n, NEW j \in (i + 1)..(n + 1) PROVE Clear(q, i, j) <=> Clear(konts, i, j)
  <2>1. \A m \in (i + 1)..(j - 1) : m \in 1..n
    BY <1>3, <1>4
  <2> QED
    BY <2>1, <1>2 DEF Clear
<1>5. \A i \in 1..n : /\ n + 1 \in (i + 1)..(n + 1)
                      /\ \A j \in (i + 1)..n : j \in 1..n /\ j \in (i + 1)..(n + 1)
  BY <1>3
<1>6. Confined(e, ct, q, c)
  BY <1>1, <1>2, <1>4, <1>5 DEF Confined
<1> QED
  BY <1>6 DEF q

\* Every move keeps local tries free of exceptions that need a frame.
LEMMA ConfinedMoves ==
    ASSUME FiniteTrees, AInv, status # "analyze", Stack(konts), cur \in Stmts, Goes,
           Confined(effect(can_throw), can_throw, konts, cur)
    PROVE  Confined(effect(can_throw), can_throw, konts', cur')
<1> DEFINE e == effect(can_throw)
           ct == can_throw
<1>nop. "call" \notin e[Nop] /\ Nop \in Stmts
  BY StmtFacts, EffectForms DEF Calls
<1>0. /\ Confined(e, ct, konts, cur) /\ Len(konts) \in Nat /\ Len(konts) \in 1..Len(konts)
      /\ Len(konts) >= 1
  BY StackShape
<1>call. ASSUME cur.op \in Calls, cur.fn \in Bodied, "call" \notin e[cur]
         PROVE  ~ct[cur.fn] /\ "call" \notin e[prog[cur.fn]]
  <2>1. e[cur] = call_effect(ct, cur) /\ cur.fn # Startup
    BY <1>call, EffectForms, StmtFacts
  <2>2. ~ct[cur.fn]
    BY <2>1, <1>call DEF call_effect
  <2>3. e[prog[cur.fn]] = {}
    BY <2>1, <2>2, <1>call, QuietBodies
  <2> QED
    BY <2>2, <2>3
<1>top. ASSUME Top.k \in {"seq", "loop"}, NEW i \in 1..Len(konts), konts[i].k = "ltry",
               Clear(konts, i, Len(konts))
        PROVE  "call" \notin e[Top.node]
  <2>1. i # Len(konts)
    BY <1>top DEF Top
  <2>2. Len(konts) \in (i + 1)..Len(konts)
    BY <2>1, <1>0
  <2>3. ~Carries(e, ct, konts[Len(konts)])
    BY <2>2, <1>top, <1>0 DEF Confined
  <2> QED
    BY <2>3, <1>top DEF Carries, Top
<1> HIDE DEF e
<1>1. CASE Stays
  <2>1. konts' = konts
    BY <1>1 DEF Stays
  <2>2. ASSUME NEW i \in 1..Len(konts), konts[i].k = "ltry", Clear(konts, i, Len(konts) + 1)
        PROVE  "call" \notin e[cur']
    <3>1. "call" \notin e[cur]
      BY <1>0, <2>2 DEF Confined
    <3>2. CASE cur' = Nop
      BY <3>2, <1>nop
    <3>3. CASE cur.op = "if" /\ cur' \in {cur.a, cur.b}
      <4>1. e[cur] = e[cur.a] \cup e[cur.b]
        BY <3>3, EffectForms DEF e
      <4> QED
        BY <3>1, <3>3, <4>1
    <3>4. CASE cur = Nop /\ Top.k = "loop" /\ cur' = Top.node.a
      <4>1. Top.node.op = "loop" /\ Top.node \in Stmts
        BY <3>4, StackShape DEF Stack, Nodes, Top
      <4>2. e[Top.node] = e[Top.node.a]
        BY <4>1, EffectForms DEF e
      <4>3. Clear(konts, i, Len(konts))
        <5>1. \A m \in (i + 1)..(Len(konts) - 1) : m \in (i + 1)..((Len(konts) + 1) - 1)
          BY <1>0
        <5> QED
          BY <5>1, <2>2 DEF Clear
      <4> QED
        BY <3>4, <4>2, <4>3, <2>2, <1>top
    <3> QED
      BY <1>1, <3>2, <3>3, <3>4 DEF Stays
  <2> QED
    BY <2>1, <2>2, <1>0 DEF Confined, e
<1>2. CASE Cuts
  <2>1. PICK p \in 1..Len(konts) : konts' = SubSeq(konts, 1, p)
    BY <1>2 DEF Cuts
  <2>2. "call" \notin e[cur']
    BY <1>2, <1>nop DEF Cuts
  <2> QED
    BY <1>0, <2>1, <2>2, ConfinedCut DEF e
<1>3. CASE Resumes
  <2>1. Top.k = "seq" /\ konts' = SubSeq(konts, 1, Len(konts) - 1) /\ cur' = Top.node
    BY <1>3 DEF Resumes, Pop, Below
  <2>2. Len(konts) - 1 \in 1..Len(konts) /\ (Len(konts) - 1) + 1 = Len(konts)
    BY <2>1, StackShape
  <2>3. ASSUME NEW i \in 1..(Len(konts) - 1), konts[i].k = "ltry", Clear(konts, i, Len(konts))
        PROVE  "call" \notin e[cur']
    <3>1. i \in 1..Len(konts)
      BY <2>2, <1>0
    <3> QED
      BY <3>1, <2>1, <2>3, <1>top
  <2> QED
    BY <1>0, <2>1, <2>2, <2>3, ConfinedCut DEF e
<1>4. CASE Nests
  <2>1. CASE cur.op = "seq" /\ konts' = Push("seq", cur.b) /\ cur' = cur.a
    <3> DEFINE x == Over(konts[Len(konts)], "seq", cur.b)
    <3>1. cur.b \in Stmts /\ e[cur] = e[cur.a] \cup e[cur.b]
      BY <2>1, StmtFacts, EffectForms DEF Binary, e
    <3>2. x.k = "seq" /\ x.node = cur.b
      BY <3>1, PushIs DEF Kinds
    <3>3. konts' = Append(konts, x)
      BY <2>1 DEF Push, Top
    <3> HIDE DEF x
    <3>4. "call" \notin e[cur] => ~Carries(e, ct, x) /\ "call" \notin e[cur']
      BY <2>1, <3>1, <3>2 DEF Carries
    <3> QED
      BY <1>0, <3>2, <3>3, <3>4, ConfinedPush DEF e
  <2>2. CASE cur.op = "loop" /\ konts' = Push("loop", cur) /\ cur' = Nop
    <3> DEFINE x == Over(konts[Len(konts)], "loop", cur)
    <3>2. x.k = "loop" /\ x.node = cur
      BY PushIs DEF Kinds
    <3>3. konts' = Append(konts, x)
      BY <2>2 DEF Push, Top
    <3> HIDE DEF x
    <3>4. "call" \notin e[cur] => ~Carries(e, ct, x) /\ "call" \notin e[cur']
      BY <2>2, <3>2, <1>nop DEF Carries
    <3> QED
      BY <1>0, <3>2, <3>3, <3>4, ConfinedPush DEF e
  <2>3. CASE cur.op = "try" /\ konts' = Push(try_mode(can_throw, cur), cur) /\ cur' = cur.a
    <3> DEFINE mode == try_mode(can_throw, cur)
               x == Over(konts[Len(konts)], mode, cur)
    <3>1. e[cur] = try_effect(e[cur.a], e[cur.b])
      BY <2>3, EffectForms DEF e
    <3>2. /\ mode \in {"ntry", "ltry", "dtry"} /\ (mode = "ntry" <=> e[cur.a] = {})
          /\ mode = "ltry" => "call" \notin e[cur.a]
      BY ModeIs DEF e
    <3>3. konts' = Append(konts, x)
      BY <2>3 DEF Push, Top
    <3> HIDE DEF mode
    <3>4. x.k = mode /\ x.node = cur
      BY <3>2, PushIs DEF Kinds
    <3> HIDE DEF x
    <3>5. "call" \notin e[cur] => mode = "ntry" \/ "call" \notin e[cur.b]
      BY <3>1, <3>2 DEF try_effect
    <3>6. "call" \notin e[cur] => ~Carries(e, ct, x)
      BY <3>2, <3>4, <3>5 DEF Carries
    <3>7. x.k = "dtry" \/ "call" \notin e[cur']
      BY <2>3, <3>2, <3>4
    <3> QED
      BY <1>0, <3>3, <3>6, <3>7, ConfinedPush DEF e
  <2> QED
    BY <1>4, <2>1, <2>2, <2>3 DEF Nests
<1>5. CASE CallsIn
  <2> DEFINE x == CallEntry(cur.fn, Len(konts) + 1, Top.lv)
  <2>1. konts' = Append(konts, x) /\ cur' = prog[cur.fn] /\ cur.fn \in Bodied /\ cur.op \in Calls
    BY <1>5 DEF CallsIn, Calls
  <2>2. x.k = "call" /\ x.fn = cur.fn
    BY CallEntryIs
  <2> HIDE DEF x
  <2>3. "call" \notin e[cur] => ~Carries(e, ct, x) /\ "call" \notin e[cur']
    BY <2>1, <2>2, <1>call DEF Carries
  <2> QED
    BY <1>0, <2>1, <2>2, <2>3, ConfinedPush DEF e
<1>6. CASE ReturnsCall
  <2> DEFINE x == CallEntry(cur.fn, Len(konts) + 2, konts[Top.cp].lv)
             r == Over(Disarmed[Len(konts)], "ret", Nop)
  <2>1. konts' = Append(Returning, x) /\ cur' = prog[cur.fn] /\ cur.fn \in Bodied /\ cur.op \in Calls
    BY <1>6 DEF ReturnsCall, Calls
  <2>2. x.k = "call" /\ x.fn = cur.fn
    BY CallEntryIs
  <2> HIDE DEF x
  <2>3. Stack(Disarmed) /\ Len(Disarmed) = Len(konts)
    BY DisarmStack
  <2>4. Confined(e, ct, Disarmed, cur)
    BY <1>0, ConfinedDisarm
  <2>5. r.k = "ret"
    BY <2>3, <1>nop, PushIs DEF Kinds
  <2>6. Returning = Append(Disarmed, r)
    BY DEF Returning
  <2> HIDE DEF r
  <2>7. ~Carries(e, ct, r) /\ r.k # "ltry"
    BY <2>5 DEF Carries
  <2>8. Confined(e, ct, Returning, cur)
    BY <2>3, <2>4, <2>6, <2>7, ConfinedPush
  <2>9. "call" \notin e[cur] => ~Carries(e, ct, x) /\ "call" \notin e[cur']
    BY <2>1, <2>2, <1>call DEF Carries
  <2>11. Stack(Returning)
    BY ReturningStack
  <2> QED
    BY <2>1, <2>2, <2>8, <2>9, <2>11, ConfinedPush DEF e
<1>7. CASE Handles
  <2>1. PICK h \in 2..Len(konts) : konts[h].k \in {"ltry", "dtry"} /\ EnterCatch(h)
    BY <1>7 DEF Handles
  <2> DEFINE q == SubSeq(konts, 1, h - 1)
             x == Over(konts[h - 1], "catch", konts[h].node)
  <2>2. /\ konts' = Append(q, x) /\ Stack(q) /\ cur' = konts[h].node.b
        /\ konts[h].node \in Stmts
    BY <2>1, CatchStack DEF Bodies
  <2>3. x.k = "catch"
    BY DEF Over, Entry
  <2>4. h - 1 \in 1..Len(konts) /\ (h - 1) + 1 = h
    BY <1>0
  <2>5. ASSUME NEW i \in 1..(h - 1), konts[i].k = "ltry", Clear(konts, i, h)
        PROVE  "call" \notin e[cur']
    <3>1. i \in 1..Len(konts) /\ h \in (i + 1)..Len(konts)
      BY <1>0, <2>4
    <3>2. ~Carries(e, ct, konts[h])
      BY <3>1, <2>5, <1>0 DEF Confined
    <3> QED
      BY <3>2, <2>1, <2>2 DEF Carries
  <2>6. Confined(e, ct, q, cur')
    BY <1>0, <2>4, <2>5, ConfinedCut
  <2> HIDE DEF q, x
  <2>7. ~Carries(e, ct, x) /\ x.k # "ltry"
    BY <2>3 DEF Carries
  <2>8. "call" \notin e[cur'] => ~Carries(e, ct, x) /\ (x.k = "dtry" \/ "call" \notin e[cur'])
    BY <2>7
  <2>9. Confined(e, ct, Append(q, x), cur')
    BY <2>2, <2>6, <2>7, <2>8, ConfinedPush
  <2> QED
    BY <2>2, <2>9 DEF e
<1> QED
  BY <1>1, <1>2, <1>3, <1>4, <1>5, <1>6, <1>7 DEF Goes

LEMMA OwnedCut ==
    ASSUME NEW ks, Stack(ks), Owned(ks), NEW p \in 1..Len(ks)
    PROVE  Owned(SubSeq(ks, 1, p))
<1> DEFINE q == SubSeq(ks, 1, p)
<1>1. Len(q) = p /\ \A i \in 1..p : q[i] = ks[i]
  BY PrefixIs DEF Stack
<1>2. Len(ks) \in Nat /\ p \in Nat /\ p <= Len(ks)
  BY DEF Stack
<1> HIDE DEF q
<1>3. ASSUME NEW i \in 1..p
      PROVE  (q[i].k = "call" => q[i].cp = i) /\ q[i].fn = q[q[i].cp].fn
  <2>1. i \in 1..Len(ks) /\ q[i] = ks[i] /\ ks[i].cp \in 1..i
    BY <1>1, <1>2 DEF Stack, Activations
  <2>2. ks[i].cp \in 1..p
    BY <2>1
  <2>3. q[ks[i].cp] = ks[ks[i].cp]
    BY <2>2, <1>1
  <2> QED
    BY <2>1, <2>3 DEF Owned
<1>4. Owned(q)
  BY <1>1, <1>3 DEF Owned
<1> QED
  BY <1>4 DEF q

LEMMA OwnedPush ==
    ASSUME NEW ks, Stack(ks), Owned(ks), NEW x,
           \/ x.k # "call" /\ x.cp = ks[Len(ks)].cp /\ x.fn = ks[Len(ks)].fn
           \/ x.cp = Len(ks) + 1
    PROVE  Owned(Append(ks, x))
<1> DEFINE q == Append(ks, x)
           n == Len(ks)
<1>1. n \in Nat /\ Len(q) = n + 1 /\ q[n + 1] = x /\ (\A i \in 1..n : q[i] = ks[i]) /\ n \in 1..n
  BY AppendIs
<1> HIDE DEF q
<1>2. ASSUME NEW i \in 1..n
      PROVE  (q[i].k = "call" => q[i].cp = i) /\ q[i].fn = q[q[i].cp].fn
             /\ ks[i].cp \in 1..n /\ q[ks[i].cp] = ks[ks[i].cp]
  <2>1. q[i] = ks[i] /\ ks[i].cp \in 1..i
    BY <1>1 DEF Stack, Activations
  <2>2. ks[i].cp \in 1..n
    BY <2>1, <1>1
  <2>3. q[ks[i].cp] = ks[ks[i].cp]
    BY <2>2, <1>1
  <2> QED
    BY <2>1, <2>2, <2>3 DEF Owned
<1>3. (q[n + 1].k = "call" => q[n + 1].cp = n + 1) /\ q[n + 1].fn = q[q[n + 1].cp].fn
  <2>1. CASE x.cp = n + 1
    BY <2>1, <1>1
  <2>2. CASE x.k # "call" /\ x.cp = ks[n].cp /\ x.fn = ks[n].fn
    <3>1. q[ks[n].cp] = ks[ks[n].cp] /\ ks[n].fn = ks[ks[n].cp].fn
      BY <1>1, <1>2 DEF Owned
    <3> QED
      BY <2>2, <3>1, <1>1
  <2> QED
    BY <2>1, <2>2
<1>4. ASSUME NEW i \in 1..(n + 1)
      PROVE  (q[i].k = "call" => q[i].cp = i) /\ q[i].fn = q[q[i].cp].fn
  <2>1. i \in 1..n \/ i = n + 1
    BY <1>1
  <2> QED
    BY <2>1, <1>2, <1>3
<1>5. Owned(q)
  BY <1>1, <1>4 DEF Owned
<1> QED
  BY <1>5 DEF q

LEMMA OwnedDisarm ==
    ASSUME Stack(konts), Owned(konts)
    PROVE  Owned(Disarmed)
<1> DEFINE q == Disarmed
<1>1. Len(q) = Len(konts) /\ \A i \in 1..Len(konts) :
         /\ q[i].cp = konts[i].cp /\ q[i].fn = konts[i].fn
         /\ q[i].k = konts[i].k \/ (konts[i].k = "dtry" /\ q[i].k = "popped")
  BY DisarmStack
<1> HIDE DEF q
<1>2. \A i \in 1..Len(konts) : konts[i].cp \in 1..Len(konts)
  <2>1. Len(konts) \in Nat
    BY StackShape
  <2>2. \A i \in 1..Len(konts) : konts[i].cp \in 1..i
    BY DEF Stack, Activations
  <2> QED
    BY <2>1, <2>2
<1>3. Owned(q)
  BY <1>1, <1>2 DEF Owned
<1> QED
  BY <1>3 DEF q

\* Every move keeps the activations apart.
LEMMA OwnedMoves ==
    ASSUME Stack(konts), Owned(konts), cur \in Stmts, prog \in Programs, Goes
    PROVE  Owned(konts')
<1>0. /\ Len(konts) \in Nat /\ Len(konts) >= 1 /\ Len(konts) \in 1..Len(konts) /\ Nop \in Stmts
  BY StmtsAssumption, StackShape
<1>push. ASSUME NEW k \in Kinds \ {"call"}, NEW node \in Stmts, konts' = Push(k, node)
         PROVE  Owned(konts')
  <2> DEFINE x == Over(konts[Len(konts)], k, node)
  <2>1. x.k = k /\ x.fn = konts[Len(konts)].fn /\ x.cp = konts[Len(konts)].cp
    BY PushIs
  <2>2. konts' = Append(konts, x)
    BY <1>push DEF Push, Top
  <2> HIDE DEF x
  <2> QED
    BY <2>1, <2>2, OwnedPush
<1>1. CASE Stays
  BY <1>1 DEF Stays
<1>2. CASE Cuts
  BY <1>2, OwnedCut DEF Cuts
<1>3. CASE Resumes
  <2>1. Len(konts) - 1 \in 1..Len(konts)
    BY <1>3, StackShape DEF Resumes
  <2> QED
    BY <1>3, <2>1, OwnedCut DEF Resumes, Pop, Below
<1>4. CASE Nests
  <2>kinds. {"seq", "loop", "ntry", "ltry", "dtry"} \subseteq Kinds \ {"call"}
    BY DEF Kinds
  <2>1. CASE cur.op = "seq" /\ konts' = Push("seq", cur.b)
    <3>1. cur.b \in Stmts
      BY <2>1, StmtFacts DEF Binary
    <3> QED
      BY <2>1, <3>1, <2>kinds, <1>push
  <2>2. CASE konts' = Push("loop", cur)
    BY <2>2, <2>kinds, <1>push
  <2>3. CASE konts' = Push(try_mode(can_throw, cur), cur)
    <3>1. try_mode(can_throw, cur) \in Kinds \ {"call"}
      BY <2>kinds, ModeIs
    <3> QED
      BY <2>3, <3>1, <1>push
  <2> QED
    BY <1>4, <2>1, <2>2, <2>3 DEF Nests
<1>5. CASE CallsIn
  <2> DEFINE x == CallEntry(cur.fn, Len(konts) + 1, Top.lv)
  <2>1. konts' = Append(konts, x)
    BY <1>5 DEF CallsIn
  <2>2. x.cp = Len(konts) + 1
    BY CallEntryIs
  <2> HIDE DEF x
  <2> QED
    BY <2>1, <2>2, OwnedPush
<1>6. CASE ReturnsCall
  <2> DEFINE x == CallEntry(cur.fn, Len(konts) + 2, konts[Top.cp].lv)
             r == Over(Disarmed[Len(konts)], "ret", Nop)
  <2>1. konts' = Append(Returning, x)
    BY <1>6 DEF ReturnsCall
  <2>2. x.cp = Len(konts) + 2
    BY CallEntryIs
  <2> HIDE DEF x
  <2>3. Stack(Disarmed) /\ Len(Disarmed) = Len(konts) /\ Owned(Disarmed)
    BY DisarmStack, OwnedDisarm
  <2>4. "ret" \in Kinds \ {"call"}
    BY DEF Kinds
  <2>5. r.k = "ret" /\ r.cp = Disarmed[Len(Disarmed)].cp /\ r.fn = Disarmed[Len(Disarmed)].fn
    BY <1>0, <2>3, <2>4, PushIs
  <2>6. Returning = Append(Disarmed, r)
    BY DEF Returning
  <2> HIDE DEF r
  <2>7. Owned(Returning)
    BY <2>3, <2>5, <2>6, OwnedPush
  <2>8. Stack(Returning) /\ x.cp = Len(Returning) + 1
    BY <1>0, <2>2, ReturningStack
  <2> QED
    BY <2>1, <2>7, <2>8, OwnedPush
<1>7. CASE Handles
  <2>1. PICK h \in 2..Len(konts) : konts[h].k \in {"ltry", "dtry"} /\ EnterCatch(h)
    BY <1>7 DEF Handles
  <2> DEFINE q == SubSeq(konts, 1, h - 1)
             x == Over(konts[h - 1], "catch", konts[h].node)
  <2>2. konts' = Append(q, x) /\ Stack(q)
    BY <2>1, CatchStack DEF Bodies
  <2>3. h - 1 \in 1..Len(konts)
    BY <1>0
  <2>4. Owned(q) /\ Len(q) = h - 1 /\ q[h - 1] = konts[h - 1]
    BY <2>3, OwnedCut, PrefixIs DEF Stack
  <2>5. x.k = "catch" /\ x.fn = konts[h - 1].fn /\ x.cp = konts[h - 1].cp
    BY DEF Over, Entry
  <2> HIDE DEF q, x
  <2> QED
    BY <2>2, <2>4, <2>5, OwnedPush
<1> QED
  BY <1>1, <1>2, <1>3, <1>4, <1>5, <1>6, <1>7 DEF Goes

\* Entries above the activation's call entry are no calls.
LEMMA ActivationIs ==
    ASSUME NEW ks, Stack(ks), Owned(ks), NEW j \in 1..Len(ks), ks[j].k = "call"
    PROVE  j <= ks[Len(ks)].cp
<1> DEFINE n == Len(ks)
<1>1. n \in Nat /\ n \in 1..n
  BY DEF Stack
<1>2. ks[n].cp \in 1..n /\ \A m \in ks[n].cp..n : ks[m].cp = ks[n].cp
  BY <1>1 DEF Stack, Activations
<1>3. ks[j].cp = j
  BY DEF Owned
<1>4. ASSUME j > ks[n].cp PROVE FALSE
  <2>1. j \in ks[n].cp..n
    BY <1>1, <1>2, <1>4
  <2>2. j = ks[n].cp
    BY <1>2, <1>3, <2>1
  <2> QED
    BY <1>2, <1>4, <2>2
<1> QED
  BY <1>1, <1>2, <1>4

\* What is cut off above the running activation.
LEMMA CoveredCut ==
    ASSUME NEW ct, NEW ks, Stack(ks), Owned(ks), NEW c, Covered(ct, ks, c),
           NEW p \in 1..Len(ks), NEW d,
           c = Nop /\ ks[Len(ks)].k = "ret" => p = ks[Len(ks)].cp,
           ks[Len(ks)].cp <= p \/ (ks[Len(ks)].k = "call" /\ p = Len(ks) - 1 /\ d = Nop)
    PROVE  Covered(ct, SubSeq(ks, 1, p), d)
<1> DEFINE q == SubSeq(ks, 1, p)
           n == Len(ks)
<1>1. Len(q) = p /\ \A i \in 1..p : q[i] = ks[i]
  BY PrefixIs DEF Stack
<1>2. n \in Nat /\ p \in Nat /\ p <= n /\ n \in 1..n /\ p \in 1..n
  BY DEF Stack
<1> HIDE DEF q
<1>3. ASSUME NEW i \in 1..p, q[i].k = "popped"
      PROVE  \/ d = Nop /\ q[p].k = "ret" /\ q[p].cp = q[i].cp
             \/ \E j \in (i + 2)..p :
                   /\ q[j].k = "call" /\ ~ct[q[j].fn]
                   /\ q[j - 1].k = "ret" /\ q[j - 1].cp = q[i].cp
  <2>1. i \in 1..n /\ q[i] = ks[i] /\ ks[i].k = "popped"
    BY <1>1, <1>2, <1>3
  <2>2. CASE c = Nop /\ ks[n].k = "ret" /\ ks[n].cp = ks[i].cp
    <3>1. p = ks[i].cp /\ ks[i].cp \in 1..i /\ ks[ks[i].cp].k = "call"
      BY <2>1, <2>2 DEF Stack, Activations
    <3>2. i = ks[i].cp
      BY <3>1, <1>2
    <3> QED
      BY <2>1, <3>1, <3>2
  <2>3. CASE \E j \in (i + 2)..n : /\ ks[j].k = "call" /\ ~ct[ks[j].fn]
                                   /\ ks[j - 1].k = "ret" /\ ks[j - 1].cp = ks[i].cp
    <3>1. PICK j \in (i + 2)..n : /\ ks[j].k = "call" /\ ~ct[ks[j].fn]
                                  /\ ks[j - 1].k = "ret" /\ ks[j - 1].cp = ks[i].cp
      BY <2>3
    <3>2. j \in 1..n /\ j - 1 \in 1..n
      BY <1>2, <2>1
    <3>3. CASE j <= p
      <4>1. j \in (i + 2)..p /\ q[j] = ks[j] /\ q[j - 1] = ks[j - 1]
        BY <1>1, <1>2, <2>1, <3>2, <3>3
      <4> QED
        BY <2>1, <3>1, <4>1
    <3>4. CASE j > p
      <4>1. j <= ks[n].cp /\ ks[n].cp \in 1..n
        BY <3>1, <3>2, <1>2, ActivationIs DEF Stack, Activations
      <4>2. p = n - 1 /\ d = Nop /\ j = n
        BY <4>1, <3>4, <3>2, <1>2
      <4>3. q[p] = ks[j - 1]
        BY <4>2, <1>1, <1>2
      <4> QED
        BY <2>1, <3>1, <4>2, <4>3
    <3> QED
      BY <3>2, <3>3, <3>4, <1>2
  <2> QED
    BY <2>1, <2>2, <2>3 DEF Covered
<1>4. Covered(ct, q, d)
  BY <1>1, <1>3 DEF Covered
<1> QED
  BY <1>4 DEF q

LEMMA CoveredPush ==
    ASSUME NEW ct, NEW ks, Stack(ks), NEW c, Covered(ct, ks, c), NEW x, NEW d,
           x.k # "popped", c # Nop \/ ks[Len(ks)].k # "ret"
    PROVE  Covered(ct, Append(ks, x), d)
<1> DEFINE q == Append(ks, x)
           n == Len(ks)
<1>1. n \in Nat /\ Len(q) = n + 1 /\ q[n + 1] = x /\ (\A i \in 1..n : q[i] = ks[i]) /\ n \in 1..n
  BY AppendIs
<1> HIDE DEF q
<1>2. ASSUME NEW i \in 1..(n + 1), q[i].k = "popped"
      PROVE  \E j \in (i + 2)..(n + 1) : /\ q[j].k = "call" /\ ~ct[q[j].fn]
                                         /\ q[j - 1].k = "ret" /\ q[j - 1].cp = q[i].cp
  <2>1. i \in 1..n /\ q[i] = ks[i]
    <3>1. i # n + 1
      BY <1>1, <1>2
    <3> QED
      BY <3>1, <1>1
  <2>2. PICK j \in (i + 2)..n : /\ ks[j].k = "call" /\ ~ct[ks[j].fn]
                                /\ ks[j - 1].k = "ret" /\ ks[j - 1].cp = ks[i].cp
    BY <2>1, <1>2 DEF Covered
  <2>3. j \in (i + 2)..(n + 1) /\ q[j] = ks[j] /\ q[j - 1] = ks[j - 1]
    <3>1. j \in 1..n /\ j - 1 \in 1..n /\ j \in (i + 2)..(n + 1)
      BY <1>1, <2>1
    <3> QED
      BY <3>1, <1>1
  <2> QED
    BY <2>1, <2>2, <2>3
<1>3. Covered(ct, q, d)
  BY <1>1, <1>2 DEF Covered
<1> QED
  BY <1>3 DEF q

\* return f(), where f is quiet or nothing is disarmed.
LEMMA CoveredReturn ==
    ASSUME Stack(konts), Owned(konts), NEW ct, NEW c, Covered(ct, konts, c), c # Nop,
           NEW x, x.k = "call", NEW d,
           ct[x.fn] => ~\E i \in Armed : Top.cp < i
    PROVE  Covered(ct, Append(Returning, x), d)
<1> DEFINE n == Len(konts)
           q == Append(Returning, x)
<1>1. /\ Stack(Returning) /\ Len(Returning) = n + 1 /\ n \in Nat
      /\ Returning[n + 1].k = "ret" /\ Returning[n + 1].cp = Top.cp
      /\ \A i \in 1..n : Returning[i] = Disarmed[i]
  BY ReturningStack, StackShape
<1>2. Len(q) = n + 2 /\ q[n + 2] = x /\ q[n + 1] = Returning[n + 1] /\ \A i \in 1..n : q[i] = Disarmed[i]
  <2>1. Len(q) = (n + 1) + 1 /\ q[(n + 1) + 1] = x /\ \A i \in 1..(n + 1) : q[i] = Returning[i]
    BY <1>1, AppendIs
  <2>2. n + 1 \in 1..(n + 1) /\ (n + 1) + 1 = n + 2 /\ \A i \in 1..n : i \in 1..(n + 1)
    BY <1>1
  <2> QED
    BY <2>1, <2>2, <1>1
<1>3. \A i \in 1..n : /\ q[i].fn = konts[i].fn /\ q[i].cp = konts[i].cp
                      /\ q[i].k = (IF i > Top.cp /\ konts[i].k = "dtry" THEN "popped"
                                   ELSE konts[i].k)
  BY <1>2, DisarmStack
<1> HIDE DEF q
<1>4. ASSUME NEW i \in 1..(n + 2), q[i].k = "popped"
      PROVE  \E j \in (i + 2)..(n + 2) : /\ q[j].k = "call" /\ ~ct[q[j].fn]
                                         /\ q[j - 1].k = "ret" /\ q[j - 1].cp = q[i].cp
  <2>1. i \in 1..n
    <3>1. i # n + 1 /\ i # n + 2
      BY <1>1, <1>2, <1>4
    <3> QED
      BY <3>1, <1>1
  <2>2. CASE konts[i].k = "popped"
    <3>1. PICK j \in (i + 2)..n : /\ konts[j].k = "call" /\ ~ct[konts[j].fn]
                                  /\ konts[j - 1].k = "ret" /\ konts[j - 1].cp = konts[i].cp
      BY <2>1, <2>2 DEF Covered
    <3>2. j \in 1..n /\ j - 1 \in 1..n /\ j \in (i + 2)..(n + 2)
      BY <1>1, <2>1
    <3>3. /\ q[j].fn = konts[j].fn /\ q[j].k = "call"
          /\ q[j - 1].cp = konts[j - 1].cp /\ q[j - 1].k = "ret" /\ q[i].cp = konts[i].cp
      BY <3>1, <3>2, <2>1, <1>3
    <3> QED
      BY <3>1, <3>2, <3>3
  <2>3. CASE konts[i].k # "popped"
    <3>1. i > Top.cp /\ konts[i].k = "dtry"
      BY <2>1, <2>3, <1>3, <1>4
    <3>2. i \in Armed
      BY <2>1, <3>1, StackShape DEF Armed
    <3>3. ~ct[x.fn] /\ Top.cp \in 1..n
      BY <3>1, <3>2, StackShape
    <3>4. i \in Top.cp..n
      BY <2>1, <3>1, <3>3, <1>1
    <3>5. konts[i].cp = Top.cp
      BY <3>4, StackShape
    <3>6. n + 2 \in (i + 2)..(n + 2) /\ (n + 2) - 1 = n + 1
      BY <2>1, <1>1
    <3>7. q[n + 1].k = "ret" /\ q[n + 1].cp = q[i].cp
      BY <3>5, <2>1, <1>1, <1>2, <1>3
    <3>8. q[n + 2].k = "call" /\ ~ct[q[n + 2].fn]
      BY <1>2, <3>3
    <3> QED
      BY <3>6, <3>7, <3>8
  <2> QED
    BY <2>2, <2>3
<1>5. Covered(ct, q, d)
  BY <1>2, <1>4 DEF Covered
<1> QED
  BY <1>5 DEF q

\* A try body that a return has disarmed never sees an exception.
LEMMA NoPopped ==
    ASSUME FiniteTrees, AInv, Stack(konts), cur \in Stmts, Raises,
           Hushed(effect(can_throw), can_throw, konts, cur),
           Covered(can_throw, konts, cur), NEW i \in 1..Len(konts)
    PROVE  konts[i].k # "popped"
<1> SUFFICES ASSUME konts[i].k = "popped" PROVE FALSE
  OBVIOUS
<1>1. ~(cur = Nop /\ konts[Len(konts)].k = "ret")
  BY DEF Raises, Nop, Top
<1>2. PICK j \in (i + 2)..Len(konts) : konts[j].k = "call" /\ ~can_throw[konts[j].fn]
  BY <1>1 DEF Covered
<1>3. j \in 1..Len(konts)
  BY StackShape
<1>4. ~Barrier(can_throw, konts[j])
  BY <1>3, NoBarrier
<1> QED
  BY <1>2, <1>4 DEF Barrier

\* Every move keeps the disarmed try bodies covered, when no return loses one.
LEMMA CoveredMoves ==
    ASSUME FiniteTrees, AInv, status = "run", Stack(konts), Owned(konts),
           cur \in Stmts, prog \in Programs, Goes, ~ReturnLosesTry,
           Hushed(effect(can_throw), can_throw, konts, cur),
           Covered(can_throw, konts, cur)
    PROVE  Covered(can_throw, konts', cur')
<1> DEFINE ct == can_throw
<1>0. /\ Covered(ct, konts, cur) /\ Len(konts) \in Nat /\ Len(konts) >= 1
      /\ Len(konts) \in 1..Len(konts) /\ Nop.op = "nop" /\ Nop \in Stmts
  BY StackShape, StmtFacts
<1>push. ASSUME NEW k \in Kinds \ {"popped"}, NEW node \in Stmts, konts' = Push(k, node), cur # Nop
         PROVE  Covered(ct, konts', cur')
  <2> DEFINE x == Over(konts[Len(konts)], k, node)
  <2>1. x.k = k
    BY PushIs
  <2>2. konts' = Append(konts, x)
    BY <1>push DEF Push, Top
  <2> HIDE DEF x
  <2> QED
    BY <1>0, <1>push, <2>1, <2>2, CoveredPush
<1>1. CASE Stays
  <2>1. konts' = konts /\ (cur' = Nop \/ ~(cur = Nop /\ konts[Len(konts)].k = "ret"))
    BY <1>1, <1>0 DEF Stays, Top
  <2> QED
    BY <1>0, <2>1 DEF Covered
<1>2. CASE Cuts
  <2>1. PICK p \in 1..Len(konts) :
           /\ konts' = SubSeq(konts, 1, p)
           /\ Top.cp <= p \/ (Top.k = "call" /\ p = Len(konts) - 1)
           /\ cur = Nop /\ Top.k = "ret" => p = Top.cp
    BY <1>2 DEF Cuts
  <2>2. cur' = Nop
    BY <1>2 DEF Cuts
  <2> QED
    BY <1>0, <2>1, <2>2, CoveredCut DEF Top
<1>3. CASE Resumes
  <2>1. Top.k = "seq" /\ konts' = SubSeq(konts, 1, Len(konts) - 1)
    BY <1>3 DEF Resumes, Pop, Below
  <2>2. Len(konts) - 1 \in 1..Len(konts) /\ Top.cp <= Len(konts) - 1
    BY <2>1, StackShape
  <2> QED
    BY <1>0, <2>1, <2>2, CoveredCut DEF Top
<1>4. CASE Nests
  <2>kinds. {"seq", "loop", "ntry", "ltry", "dtry"} \subseteq Kinds \ {"popped"}
    BY DEF Kinds
  <2>1. CASE cur.op = "seq" /\ konts' = Push("seq", cur.b)
    <3>1. cur.b \in Stmts /\ cur # Nop
      BY <1>0, <2>1, StmtFacts DEF Binary
    <3> QED
      BY <2>1, <3>1, <2>kinds, <1>push
  <2>2. CASE cur.op = "loop" /\ konts' = Push("loop", cur)
    BY <1>0, <2>2, <2>kinds, <1>push
  <2>3. CASE cur.op = "try" /\ konts' = Push(try_mode(can_throw, cur), cur)
    <3>1. try_mode(can_throw, cur) \in Kinds \ {"popped"} /\ cur # Nop
      BY <1>0, <2>3, <2>kinds, ModeIs
    <3> QED
      BY <2>3, <3>1, <1>push
  <2> QED
    BY <1>4, <2>1, <2>2, <2>3 DEF Nests
<1>5. CASE CallsIn
  <2> DEFINE x == CallEntry(cur.fn, Len(konts) + 1, Top.lv)
  <2>1. konts' = Append(konts, x) /\ cur # Nop
    BY <1>0, <1>5 DEF CallsIn
  <2>2. x.k = "call"
    BY CallEntryIs
  <2> HIDE DEF x
  <2> QED
    BY <1>0, <2>1, <2>2, CoveredPush
<1>6. CASE ReturnsCall
  <2> DEFINE x == CallEntry(cur.fn, Len(konts) + 2, konts[Top.cp].lv)
  <2>1. konts' = Append(Returning, x) /\ cur # Nop /\ cur.op = "retcall"
    BY <1>0, <1>6 DEF ReturnsCall
  <2>2. x.k = "call" /\ x.fn = cur.fn
    BY CallEntryIs
  <2> HIDE DEF x
  <2>3. ct[x.fn] => ~\E i \in Armed : Top.cp < i
    BY <2>1, <2>2 DEF ReturnLosesTry
  <2> QED
    BY <1>0, <2>1, <2>2, <2>3, CoveredReturn
<1>7. CASE Handles
  <2>1. PICK h \in 2..Len(konts) : konts[h].k \in {"ltry", "dtry"} /\ EnterCatch(h)
    BY <1>7 DEF Handles
  <2>2. /\ Len(konts') = h /\ konts'[h].k = "catch"
        /\ \A i \in 1..(h - 1) : konts'[i] = konts[i]
    BY <2>1, CatchStack DEF Bodies
  <2>3. ASSUME NEW i \in 1..Len(konts') PROVE konts'[i].k # "popped"
    <3>1. CASE i = h
      BY <2>2, <3>1
    <3>2. CASE i # h
      <4>1. i \in 1..(h - 1) /\ i \in 1..Len(konts)
        BY <2>2, <3>2, <1>0
      <4>2. Raises
        BY <1>7 DEF Handles
      <4>3. konts[i].k # "popped"
        BY <4>1, <4>2, NoPopped
      <4> QED
        BY <4>1, <4>3, <2>2
    <3> QED
      BY <3>1, <3>2
  <2> QED
    BY <2>3 DEF Covered
<1> QED
  BY <1>1, <1>2, <1>3, <1>4, <1>5, <1>6, <1>7 DEF Goes

\* The invariant: silence above the barriers, local tries that need no frame,
\* and disarmed try bodies that are covered.
LInv == /\ QInv
        /\ Owned(konts)
        /\ status = "run" => /\ Confined(effect(can_throw), can_throw, konts, cur)
                             /\ Covered(can_throw, konts, cur)

LEMMA LocalStarts == FiniteTrees /\ Init => LInv
<1> SUFFICES ASSUME FiniteTrees, Init PROVE LInv
  OBVIOUS
<1>1. QInv
  BY QuietStarts
<1>2. konts = <<CallEntry(Startup, 1, 0)>> /\ status = "analyze"
  BY DEF Init
<1>3. Owned(konts)
  <2>1. \A i \in 1..Len(konts) : i = 1
    BY <1>2, StartStack
  <2> QED
    BY <1>2, <2>1, StartStack DEF Owned
<1> QED
  BY <1>1, <1>2, <1>3 DEF LInv

LEMMA LocalStep ==
    ASSUME FiniteTrees, LInv, ~ReturnLosesTry, [Next]_vars
    PROVE  LInv'
<1>0. QInv /\ AInv /\ cur \in Stmts /\ Stack(konts) /\ prog \in Programs /\ Owned(konts)
  BY DEF LInv, QInv, AInv
<1>q. QInv'
  BY <1>0, QuietStep
<1>same. ASSUME UNCHANGED konts, status' # "run" PROVE LInv'
  BY <1>0, <1>q, <1>same DEF LInv, Owned
<1>1. CASE Run
  <2>1. status = "run" /\ UNCHANGED <<prog, can_throw>>
    BY <1>1 DEF Run, analysis
  <2>2. /\ Hushed(effect(can_throw), can_throw, konts, cur)
        /\ Confined(effect(can_throw), can_throw, konts, cur)
        /\ Covered(can_throw, konts, cur)
    BY <2>1 DEF LInv, QInv
  <2>3. CASE Goes /\ status' = "run"
    <3>1. Owned(konts')
      BY <1>0, <2>3, OwnedMoves
    <3>2. Confined(effect(can_throw), can_throw, konts', cur')
      BY <1>0, <2>1, <2>2, <2>3, ConfinedMoves
    <3>3. Covered(can_throw, konts', cur')
      BY <1>0, <2>1, <2>2, <2>3, CoveredMoves
    <3>4. Owned(konts)' /\ Confined(effect(can_throw), can_throw, konts, cur)'
          /\ Covered(can_throw, konts, cur)'
      BY <2>1, <3>1, <3>2, <3>3
    <3> QED
      BY <1>q, <3>4 DEF LInv
  <2>4. CASE Ends
    BY <2>4, <1>same DEF Ends
  <2> QED
    BY <1>0, <1>1, <2>3, <2>4, Moves
<1>2. CASE Analyze
  <2>1. status = "analyze" /\ UNCHANGED <<prog, konts, cur>>
    BY <1>2 DEF Analyze, AnalyzeFn, AnalyzeAgain, AnalyzeDone
  <2>2. konts = <<CallEntry(Startup, 1, 0)>>
    BY <1>0, <2>1 DEF QInv
  <2>3. Len(konts) = 1 /\ \A i \in 1..Len(konts') : konts'[i].k = "call"
    <3>1. \A i \in 1..Len(konts') : i = 1
      BY <2>1, <2>2, StartStack
    <3> QED
      BY <2>1, <2>2, <3>1, StartStack
  <2>4. Confined(effect(can_throw), can_throw, konts, cur)'
    BY <2>3 DEF Confined
  <2>5. Covered(can_throw, konts, cur)'
    BY <2>3 DEF Covered
  <2>6. Owned(konts)'
    BY <1>0, <2>1 DEF Owned
  <2> QED
    BY <1>q, <2>4, <2>5, <2>6 DEF LInv
<1>3. CASE UNCHANGED vars
  <2>1. UNCHANGED <<status, can_throw, cur, konts>>
    BY <1>3 DEF vars, analysis
  <2> QED
    BY <1>q, <2>1 DEF LInv
<1> QED
  BY <1>1, <1>2, <1>3 DEF Next, Ended

\* How an exception finds its handler: by a goto to the innermost handler of the
\* activation where that is a local try, otherwise by the runtime's throw.
LEMMA Dispatch ==
    ASSUME FiniteTrees, AInv, Stack(konts), cur \in Stmts, prog \in Programs, Run,
           Catching \/ Dying
    PROVE  \E n \in {Len(konts), Len(konts) + 1} :
              /\ n = Len(konts) => Top.k = "catch"
              /\ \/ LocalHandler(n) /\ EnterCatch(Topmost(Handlers(n)))
                 \/ /\ ~LocalHandler(n) \/ "call" \in effect(can_throw)[cur]
                    /\ \E ch : rt_throw(ch)
<1> DEFINE Found(n) ==
             /\ n = Len(konts) => Top.k = "catch"
             /\ \/ LocalHandler(n) /\ EnterCatch(Topmost(Handlers(n)))
                \/ /\ ~LocalHandler(n) \/ "call" \in effect(can_throw)[cur]
                   /\ \E ch : rt_throw(ch)
<1>0. /\ Len(konts) \in Nat /\ Len(konts) >= 1 /\ konts \in Seq(StackEntry) /\ status = "run"
      /\ Nop.op = "nop" /\ Len(konts) + 1 # Len(konts)
  <2>1. Len(konts) \in Nat /\ Len(konts) >= 1 /\ konts \in Seq(StackEntry)
    BY StackShape
  <2>2. Len(konts) + 1 # Len(konts)
    BY <2>1
  <2> QED
    BY <2>1, <2>2 DEF Run, Nop
<1>1. Raises
  BY UnwoundFacts
<1>2. CASE cur.op = "throw"
  <2>1. ExecThrow
    BY <1>0, <1>2 DEF Run, ExecThrow, ExecThrowExpr, ExecSeq, ExecIf, ExecLoop, ExecExcept,
       ExecBreak, ExecExtern, ExecCall, ExecReturn, ExecReturnCall, StackOverflow, ExecTry,
       Resume, Calls
  <2>2. Found(Len(konts) + 1)
    BY <1>0, <2>1 DEF ExecThrow, emit_throw
  <2> QED
    BY <2>2
<1>3. CASE cur.op = "throwx"
  <2>1. ExecThrowExpr
    BY <1>0, <1>3 DEF Run, ExecThrow, ExecThrowExpr, ExecSeq, ExecIf, ExecLoop, ExecExcept,
       ExecBreak, ExecExtern, ExecCall, ExecReturn, ExecReturnCall, StackOverflow, ExecTry,
       Resume, Calls
  <2>2. "call" \in effect(can_throw)[cur]
    BY <1>3, EffectForms
  <2>3. Found(Len(konts) + 1)
    BY <1>0, <2>1, <2>2 DEF ExecThrowExpr
  <2> QED
    BY <2>3
<1>4. CASE cur.op \in {"call", "icall"} /\ cur.fn \in Externs /\ extern_can_throw(cur.fn)
  <2>1. cur.fn \notin Bodied
    BY <1>4, StmtFacts DEF Bodied, Calls
  <2>2. ExecExtern
    BY <1>0, <1>4, <2>1 DEF Run, ExecThrow, ExecThrowExpr, ExecSeq, ExecIf, ExecLoop, ExecExcept,
       ExecBreak, ExecExtern, ExecCall, ExecReturn, ExecReturnCall, StackOverflow, ExecTry,
       Resume, Calls
  <2>3. \E ch : rt_throw(ch)
    <3>1. ~Goto(konts, Nop)
      BY <1>0 DEF Goto, Catching, Dying
    <3> QED
      BY <2>2, <3>1 DEF ExecExtern
  <2>4. "call" \in effect(can_throw)[cur]
    <3>1. cur.fn \in Marked
      BY <1>4 DEF AInv, Throwing
    <3>2. can_throw[cur.fn]
      BY <3>1 DEF Marked
    <3>3. effect(can_throw)[cur] = call_effect(can_throw, cur)
      BY <1>4, EffectForms DEF Calls
    <3> QED
      BY <3>2, <3>3 DEF call_effect
  <2>5. Found(Len(konts) + 1)
    BY <1>0, <2>3, <2>4
  <2> QED
    BY <2>5
<1>5. CASE cur = Nop /\ Top.k = "catch"
  <2>1. EndCatch
    BY <1>0, <1>5 DEF Run, ExecThrow, ExecThrowExpr, ExecSeq, ExecIf, ExecLoop, ExecExcept,
       ExecBreak, ExecExtern, ExecCall, ExecReturn, ExecReturnCall, StackOverflow, ExecTry,
       Resume, Calls, EndSeq, EndLoopBody, EndTry, EndOperand, EndCall
  <2>2. ~Goto(Pop, Nop)
    <3> SUFFICES ASSUME Goto(Pop, Nop) PROVE FALSE
      OBVIOUS
    <3>1. konts' = SubSeq(konts, 1, Len(konts) - 1) /\ status' = "run"
      BY <1>0 DEF Goto, Pop, Below
    <3>2. Len(konts) - 1 \in 1..Len(konts)
      BY <1>5, StackShape
    <3>3. Len(konts') = Len(konts) - 1 /\ konts'[Len(konts')] = konts[Len(konts')]
      BY <1>0, <3>1, <3>2, PrefixIs
    <3>4. ~Dying /\ Len(konts') <= Len(konts) /\ ~(Len(konts') > Len(konts))
      BY <1>0, <3>1, <3>3 DEF Dying
    <3>5. konts'[Len(konts')].k = "catch" /\ konts[Len(konts')].k \in Bodies
      BY <3>4 DEF Catching
    <3> QED
      BY <3>3, <3>5 DEF Bodies
  <2>3. emit_rethrow
    BY <2>1, <2>2 DEF EndCatch
  <2>4. Found(Len(konts))
    BY <1>5, <2>3 DEF emit_rethrow
  <2> QED
    BY <2>4
<1> QED
  BY <1>1, <1>2, <1>3, <1>4, <1>5 DEF Raises

\* The runtime jumps to the topmost dynamic try, or finds none.
LEMMA TopmostFrame ==
    ASSUME IInv, NEW ch, rt_throw(ch), Catching \/ Dying
    PROVE  \/ Dying /\ Armed = {}
           \/ \E h \in Armed : EnterCatch(h) /\ (\A i \in Armed : i <= h) /\ ~Dying
<1>0. FramesMatchStack /\ status # "wild" /\ hc_ntry \in Nat /\ status = "run"
      /\ DOMAIN konts = 1..Len(konts) /\ Len(konts) \in Nat
  BY FramesAreArmed, StackFacts DEF IInv, Catching, Dying
<1>1. CASE hc_ntry = 0
  <2>1. Armed = {}
    BY <1>0, <1>1 DEF FramesMatchStack
  <2>2. status' = "unhandled"
    BY <1>1 DEF rt_throw, Stop
  <2> QED
    BY <1>0, <2>1, <2>2 DEF Dying
<1>2. CASE hc_ntry # 0
  <2> DEFINE h == hc_frames[hc_ntry]
  <2>1. hc_ntry \in 1..hc_ntry
    BY <1>0, <1>2
  <2>2. h \in Armed
    BY <1>0, <2>1 DEF FramesMatchStack
  <2>3. h \in DOMAIN konts /\ konts[h].k = "dtry"
    BY <2>2 DEF Armed
  <2>4. EnterCatch(h)
    BY <1>2, <2>3, Zenon DEF rt_throw
  <2>5. ASSUME NEW i \in Armed PROVE i <= h
    <3>1. PICK m \in 1..hc_ntry : hc_frames[m] = i
      BY <1>0 DEF FramesMatchStack
    <3>2. CASE m = hc_ntry
      BY <3>1, <3>2, <1>0, <2>2 DEF Armed
    <3>3. CASE m # hc_ntry
      <4>1. m < hc_ntry
        BY <1>0, <3>3
      <4>2. hc_frames[m] < hc_frames[hc_ntry]
        BY <1>0, <2>1, <4>1 DEF FramesMatchStack
      <4> QED
        BY <1>0, <2>2, <3>1, <4>2 DEF Armed
    <3> QED
      BY <3>2, <3>3
  <2>6. ~Dying
    BY <1>0, <2>4 DEF EnterCatch, Goto, Dying
  <2> HIDE DEF h
  <2> QED
    BY <2>2, <2>4, <2>5, <2>6
<1> QED
  BY <1>1, <1>2

\* Above the frame the runtime jumps to lies no local try either: the exception
\* would have been a goto, or the try would have needed a frame.
LEMMA NoLocalSkipped ==
    ASSUME FiniteTrees, QInv, Owned(konts), status = "run", Raises,
           Confined(effect(can_throw), can_throw, konts, cur),
           NEW n \in {Len(konts), Len(konts) + 1}, n = Len(konts) => Top.k = "catch",
           ~LocalHandler(n) \/ "call" \in effect(can_throw)[cur],
           \A m \in 1..Len(konts) : konts[m].k # "popped",
           NEW i \in 1..Len(konts), konts[i].k = "ltry",
           \A m \in (i + 1)..Len(konts) : konts[m].k # "dtry"
    PROVE  FALSE
<1> DEFINE e == effect(can_throw)
           len == Len(konts)
<1>0. /\ AInv /\ cur \in Stmts /\ Stack(konts) /\ len \in Nat /\ DOMAIN konts = 1..len
      /\ Hushed(e, can_throw, konts, cur) /\ Top.cp \in 1..len /\ konts[Top.cp].k = "call"
  BY StackShape DEF QInv
<1>1. ASSUME NEW j \in (i + 1)..(len + 1) PROVE Clear(konts, i, j)
  <2>1. \A m \in (i + 1)..(j - 1) : m \in (i + 1)..len /\ m \in 1..len
    BY <1>0, <1>1
  <2> QED
    BY <2>1 DEF Clear
<1>2. "call" \notin e[cur]
  <2>1. len + 1 \in (i + 1)..(len + 1)
    BY <1>0
  <2> QED
    BY <1>1, <2>1 DEF Confined
<1>3. ASSUME NEW j \in (i + 1)..len PROVE konts[j].k # "call"
  <2>1. j \in (i + 1)..(len + 1) /\ j \in 1..len
    BY <1>0, <1>3
  <2>2. ~Carries(e, can_throw, konts[j])
    BY <1>1, <2>1 DEF Confined
  <2>3. ~Barrier(can_throw, konts[j])
    BY <1>0, <2>1, NoBarrier
  <2> QED
    BY <2>2, <2>3 DEF Carries, Barrier
<1>4. Top.cp < i
  <2>1. ~(Top.cp \in (i + 1)..len) /\ Top.cp # i
    BY <1>0, <1>3
  <2> QED
    BY <2>1, <1>0
<1>5. i < n
  <2>1. n = len => i # len
    BY DEF Top
  <2> QED
    BY <2>1, <1>0
<1> DEFINE H == Handlers(n)
           t == Topmost(H)
<1>6. i \in H /\ H \in SUBSET (1..len)
  BY <1>0, <1>4, <1>5 DEF Handlers
<1>7. t \in H /\ i <= t
  BY <1>0, <1>6, TopmostExists
<1>8. t \in 1..len /\ konts[t].k \in {"ltry", "dtry"}
  BY <1>6, <1>7 DEF Handlers
<1>9. konts[t].k = "ltry"
  <2> HIDE DEF t
  <2>1. t = i \/ t \in (i + 1)..len
    BY <1>0, <1>7, <1>8
  <2> QED
    BY <2>1, <1>8
<1>10. LocalHandler(n)
  BY <1>6, <1>9 DEF LocalHandler
<1> QED
  BY <1>2, <1>10

\* An exception passes no try body.
LEMMA NothingSkipped ==
    ASSUME FiniteTrees, IInv, LInv, [Next]_vars
    PROVE  [Catching \/ Dying => \A i \in Unwound : konts[i].k \notin Bodies]_vars
<1> SUFFICES ASSUME Next, Catching \/ Dying, NEW i \in Unwound, konts[i].k \in Bodies
             PROVE  FALSE
  OBVIOUS
<1>1. status = "run"
  BY DEF Catching, Dying
<1>2. Run
  BY <1>1 DEF Next, Analyze, Ended
<1>3. /\ QInv /\ AInv /\ cur \in Stmts /\ Stack(konts) /\ prog \in Programs /\ Owned(konts)
      /\ Hushed(effect(can_throw), can_throw, konts, cur)
      /\ Confined(effect(can_throw), can_throw, konts, cur)
      /\ Covered(can_throw, konts, cur)
      /\ Len(konts) \in Nat /\ DOMAIN konts = 1..Len(konts)
  BY <1>1, StackShape DEF LInv, QInv, AInv
<1>4. Raises /\ i \in 1..Len(konts)
  BY <1>2, <1>3, UnwoundFacts
<1>5. \A m \in 1..Len(konts) : konts[m].k # "popped" /\ konts[m].k # "ntry"
  BY <1>3, <1>4, NoPopped, NoBarrier DEF Barrier
<1>6. konts[i].k \in {"ltry", "dtry"}
  BY <1>4, <1>5 DEF Bodies
<1>7. PICK n \in {Len(konts), Len(konts) + 1} :
         /\ n = Len(konts) => Top.k = "catch"
         /\ \/ LocalHandler(n) /\ EnterCatch(Topmost(Handlers(n)))
            \/ /\ ~LocalHandler(n) \/ "call" \in effect(can_throw)[cur]
               /\ \E ch : rt_throw(ch)
  BY <1>2, <1>3, Dispatch
<1>up. ASSUME NEW h \in 2..Len(konts), konts[h].k \in Bodies, EnterCatch(h)
       PROVE  i \in (h + 1)..Len(konts)
  <2>1. status' = "run" /\ Len(konts') = h
    BY <1>1, <1>3, <1>up, CatchStack DEF EnterCatch, Goto
  <2>2. Unwound = (h + 1)..Len(konts)
    BY <2>1 DEF Unwound, Dying
  <2> QED
    BY <2>2
<1>two. ASSUME NEW h \in 1..Len(konts), konts[h].k \in Bodies PROVE h \in 2..Len(konts)
  <2>1. konts[1].k = "call" /\ "call" \notin Bodies
    BY <1>3, StackShape DEF Bodies
  <2> QED
    BY <2>1, <1>two, <1>3
<1>8. CASE LocalHandler(n) /\ EnterCatch(Topmost(Handlers(n)))
  <2> DEFINE H == Handlers(n)
             h == Topmost(H)
  <2>1. H \in SUBSET (1..Len(konts)) /\ H # {}
    BY <1>3, <1>8 DEF Handlers, LocalHandler
  <2>2. h \in H /\ \A j \in H : j <= h
    BY <1>3, <2>1, TopmostExists
  <2>3. h \in 1..Len(konts) /\ Top.cp < h /\ konts[h].k = "ltry" /\ EnterCatch(h)
    BY <1>3, <1>8, <2>2 DEF Handlers, LocalHandler
  <2> HIDE DEF h
  <2>4. h \in 2..Len(konts) /\ konts[h].k \in Bodies
    BY <1>two, <2>3 DEF Bodies
  <2>5. i \in (h + 1)..Len(konts)
    BY <1>up, <2>3, <2>4
  <2>6. Top.cp < i /\ i < n
    <3>1. Top.cp \in Nat
      BY <1>3, StackShape
    <3>2. n = Len(konts) => i # Len(konts)
      BY <1>6, <1>7 DEF Top
    <3>3. Len(konts) \in Nat /\ h \in 2..Len(konts) /\ Top.cp < h /\ i \in (h + 1)..Len(konts)
      BY <1>3, <2>3, <2>4, <2>5
    <3>4. Top.cp < i
      BY <3>1, <3>3
    <3>5. i < n
      BY <3>2, <3>3
    <3> QED
      BY <3>4, <3>5
  <2>7. i \in H
    BY <1>3, <1>4, <1>6, <2>6 DEF Handlers
  <2>8. i <= h
    BY <2>2, <2>7
  <2> QED
    BY <2>4, <2>5, <2>8
<1>9. ASSUME ~LocalHandler(n) \/ "call" \in effect(can_throw)[cur], NEW ch, rt_throw(ch)
      PROVE  FALSE
  <2>1. ASSUME NEW m \in i..Len(konts) PROVE konts[m].k # "dtry"
    <3>1. m \in 1..Len(konts)
      BY <1>3, <1>4, <2>1
    <3>2. SUFFICES ASSUME m \in Armed PROVE FALSE
      BY <1>3, <3>1 DEF Armed
    <3>3. PICK h \in Armed : EnterCatch(h) /\ (\A j \in Armed : j <= h)
      BY <3>2, <1>9, TopmostFrame
    <3>4. h \in 1..Len(konts) /\ konts[h].k \in Bodies /\ m <= h
      BY <1>3, <3>2, <3>3 DEF Armed, Bodies
    <3>5. i \in (h + 1)..Len(konts)
      BY <3>3, <3>4, <1>two, <1>up
    <3> QED
      BY <3>1, <3>4, <3>5, <2>1, <1>4
  <2>2. konts[i].k # "dtry" /\ \A m \in (i + 1)..Len(konts) : konts[m].k # "dtry"
    BY <1>3, <1>4, <2>1
  <2> QED
    BY <1>1, <1>3, <1>4, <1>5, <1>6, <1>7, <1>9, <2>2, NoLocalSkipped
<1> QED
  BY <1>7, <1>8, <1>9

\* Whatever a program of finite trees does, as long as no break and no return
\* of a throwing call leaves a dynamic try: every exception is received by the
\* innermost try block that is executing, whatever lowerings the analysis chose
\* for it and for those around it, and ends the program only if there is none.
THEOREM InnermostReceives ==
    ASSUME FiniteTrees
    PROVE  Spec /\ []~BreakLeavesTry /\ []~ReturnLosesTry => InnermostHandler
<1>1. LInv /\ ~ReturnLosesTry /\ [Next]_vars => LInv'
  BY LocalStep
<1>2. Init => LInv
  BY LocalStarts
<1>3. IInv /\ LInv /\ [Next]_vars =>
        [Catching \/ Dying => \A i \in Unwound : konts[i].k \notin Bodies]_vars
  BY NothingSkipped
<1>4. IInv /\ ~BreakLeavesTry /\ [Next]_vars => IInv'
  BY NextKeeps
<1> QED
  BY <1>1, <1>2, <1>3, <1>4, InitKeeps, PTL DEF Spec, InnermostHandler

-----------------------------------------------------------------------------
(* The lowered program implements the handler search of the language.      *)

\* The stack of ExcSemantics that a stack stands for.
SemEntry(x) == [k |-> AbstractKind(x.k), node |-> x.node, fn |-> x.fn]
SemStack(ks) == [i \in DOMAIN ks |-> SemEntry(ks[i])]
SemStatus(how) == IF how \in {"analyze", "overflow"} THEN "run" ELSE how

LEMMA SemStackIs ==
    ASSUME NEW ks, Stack(ks)
    PROVE  /\ SemStack(ks) \in Seq([k : Kinds \cup {"try"}, node : Stmts, fn : Funcs])
           /\ Len(SemStack(ks)) = Len(ks) /\ DOMAIN SemStack(ks) = 1..Len(ks)
           /\ \A i \in 1..Len(ks) : SemStack(ks)[i] = SemEntry(ks[i])
<1> DEFINE E == [k : Kinds \cup {"try"}, node : Stmts, fn : Funcs]
<1>1. ks \in Seq(StackEntry) /\ DOMAIN ks = 1..Len(ks) /\ Len(ks) \in Nat
  BY DEF Stack
<1>2. \A i \in 1..Len(ks) : SemEntry(ks[i]) \in E
  <2>1. \A i \in 1..Len(ks) : ks[i].k \in Kinds /\ ks[i].node \in Stmts /\ ks[i].fn \in Funcs
    BY <1>1, EntryIs
  <2> QED
    BY <2>1 DEF SemEntry, AbstractKind
<1>3. SemStack(ks) \in [1..Len(ks) -> E] /\ \A i \in 1..Len(ks) : SemStack(ks)[i] = SemEntry(ks[i])
  BY <1>1, <1>2 DEF SemStack
<1> HIDE DEF E
<1>4. SemStack(ks) \in Seq(E) /\ Len(SemStack(ks)) = Len(ks)
  BY <1>1, <1>3
<1> QED
  BY <1>3, <1>4 DEF E

LEMMA SemCut ==
    ASSUME NEW ks, Stack(ks), NEW p \in 1..Len(ks)
    PROVE  SemStack(SubSeq(ks, 1, p)) = SubSeq(SemStack(ks), 1, p)
<1> DEFINE E == [k : Kinds \cup {"try"}, node : Stmts, fn : Funcs]
           q == SubSeq(ks, 1, p)
           a == SemStack(ks)
<1>1. Stack(q) /\ Len(q) = p /\ (\A i \in 1..p : q[i] = ks[i]) /\ Len(ks) \in Nat
  BY CutStack, PrefixIs DEF Stack
<1>2. SemStack(q) \in Seq(E) /\ Len(SemStack(q)) = p /\ \A i \in 1..p : SemStack(q)[i] = SemEntry(q[i])
  BY <1>1, SemStackIs
<1>3. a \in Seq(E) /\ Len(a) = Len(ks) /\ \A i \in 1..Len(ks) : a[i] = SemEntry(ks[i])
  BY SemStackIs
<1> HIDE DEF E, q, a
<1>4. SubSeq(a, 1, p) \in Seq(E) /\ Len(SubSeq(a, 1, p)) = p /\ \A i \in 1..p : SubSeq(a, 1, p)[i] = a[i]
  BY <1>3, SubSeqProperties
<1>5. \A i \in 1..p : SemStack(q)[i] = SubSeq(a, 1, p)[i]
  <2>1. \A i \in 1..p : i \in 1..Len(ks)
    BY <1>1
  <2> QED
    BY <2>1, <1>1, <1>2, <1>3, <1>4
<1>6. SemStack(q) = SubSeq(a, 1, p)
  BY <1>2, <1>4, <1>5, SeqEqual
<1> QED
  BY <1>6 DEF q, a

LEMMA SemAppend ==
    ASSUME NEW ks, Stack(ks), NEW x, Stack(Append(ks, x))
    PROVE  SemStack(Append(ks, x)) = Append(SemStack(ks), SemEntry(x))
<1> DEFINE E == [k : Kinds \cup {"try"}, node : Stmts, fn : Funcs]
           q == Append(ks, x)
           a == SemStack(ks)
           n == Len(ks)
<1>1. Len(q) = n + 1 /\ q[n + 1] = x /\ (\A i \in 1..n : q[i] = ks[i]) /\ n \in Nat
  BY AppendIs
<1>2. SemStack(q) \in Seq(E) /\ Len(SemStack(q)) = n + 1
      /\ \A i \in 1..(n + 1) : SemStack(q)[i] = SemEntry(q[i])
  BY <1>1, SemStackIs
<1>3. a \in Seq(E) /\ Len(a) = n /\ \A i \in 1..n : a[i] = SemEntry(ks[i])
  BY SemStackIs
<1>4. n + 1 \in 1..(n + 1) /\ \A i \in 1..(n + 1) : i \in 1..n \/ i = n + 1
  BY <1>1
<1> HIDE DEF E, q, a
<1>5. SemEntry(x) \in E
  <2>1. SemStack(q)[n + 1] \in E
    BY <1>2, <1>4
  <2> QED
    BY <1>1, <1>2, <1>4, <2>1
<1>6. /\ Append(a, SemEntry(x)) \in Seq(E) /\ Len(Append(a, SemEntry(x))) = n + 1
      /\ Append(a, SemEntry(x))[n + 1] = SemEntry(x)
      /\ \A i \in 1..n : Append(a, SemEntry(x))[i] = a[i]
  BY <1>3, <1>5
<1>7. \A i \in 1..(n + 1) : SemStack(q)[i] = Append(a, SemEntry(x))[i]
  BY <1>1, <1>2, <1>3, <1>4, <1>6
<1>8. SemStack(q) = Append(a, SemEntry(x))
  BY <1>2, <1>6, <1>7, SeqEqual
<1> QED
  BY <1>8 DEF q, a

\* The operators of ExcSemantics on the running stack.
LEMMA SemFacts ==
    ASSUME Stack(konts), Owned(konts)
    PROVE  /\ Sem!Top = SemEntry(Top)
           /\ Sem!Activation = Top.cp
           /\ Sem!Loops = Loops
           /\ Sem!Tries = {i \in 1..Len(konts) : konts[i].k \in Bodies}
<1> DEFINE a == SemStack(konts)
<1>1. Len(a) = Len(konts) /\ DOMAIN a = 1..Len(konts) /\ (\A i \in 1..Len(konts) : a[i] = SemEntry(konts[i]))
      /\ Len(konts) \in 1..Len(konts) /\ DOMAIN konts = 1..Len(konts) /\ Len(konts) \in Nat
      /\ Top.cp \in 1..Len(konts) /\ konts[Top.cp].k = "call"
  BY SemStackIs, StackShape
<1>2. \A i \in 1..Len(konts) : a[i].k = AbstractKind(konts[i].k)
  BY <1>1 DEF SemEntry
<1>3. Sem!Top = a[Len(a)]
  BY DEF Sem!Top, SemStack, SemEntry
<1>4. Sem!Tries = {i \in DOMAIN a : a[i].k = "try"}
      /\ Sem!Loops = {i \in DOMAIN a : a[i].k = "loop" /\ i > Sem!Activation}
      /\ Sem!Activation = Topmost({i \in DOMAIN a : a[i].k = "call"})
  BY DEF Sem!Tries, Sem!Loops, Sem!Activation, Sem!Topmost, Topmost, SemStack, SemEntry
<1> HIDE DEF a
<1>kinds. \A i \in 1..Len(konts) : /\ (a[i].k = "try" <=> konts[i].k \in Bodies)
                                   /\ (a[i].k = "call" <=> konts[i].k = "call")
                                   /\ (a[i].k = "loop" <=> konts[i].k = "loop")
  <2>1. \A i \in 1..Len(konts) : konts[i].k \in Kinds
    BY StackShape
  <2> QED
    BY <1>2, <2>1 DEF AbstractKind, Kinds, Bodies
<1>5. Sem!Activation = Top.cp
  <2> DEFINE C == {i \in DOMAIN a : a[i].k = "call"}
  <2>1. Top.cp \in C /\ C \in SUBSET (1..Len(konts))
    BY <1>1, <1>kinds
  <2>2. \A j \in C : j <= Top.cp
    BY <1>1, <1>kinds, ActivationIs DEF Top
  <2>3. Topmost(C) \in C /\ \A j \in C : j <= Topmost(C)
    BY <1>1, <2>1, TopmostExists
  <2> HIDE DEF C
  <2>4. /\ Topmost(C) \in Nat /\ Top.cp \in Nat
        /\ Topmost(C) <= Top.cp /\ Top.cp <= Topmost(C)
    <3>1. C \in SUBSET Nat /\ Top.cp \in C
      BY <1>1, <2>1
    <3> HIDE DEF Topmost
    <3> QED
      BY <3>1, <2>2, <2>3
  <2>5. Topmost(C) = Top.cp
    BY <2>4
  <2> QED
    BY <1>4, <2>5 DEF C
<1>6. Sem!Loops = Loops
  <2>1. \A i \in 1..Len(konts) : i > Top.cp <=> Top.cp < i
    BY <1>1
  <2> QED
    BY <1>1, <1>4, <1>5, <1>kinds, <2>1 DEF Loops
<1>7. Sem!Tries = {i \in 1..Len(konts) : konts[i].k \in Bodies}
  BY <1>1, <1>4, <1>kinds
<1>8. Sem!Top = SemEntry(Top)
  BY <1>1, <1>3 DEF Top
<1> QED
  BY <1>5, <1>6, <1>7, <1>8

\* A jump to a catch block is a step that catches.
LEMMA EnterCatches ==
    ASSUME Stack(konts), status = "run", NEW h \in 2..Len(konts), konts[h].k \in Bodies,
           EnterCatch(h)
    PROVE  Catching /\ ~Dying
<1>1. Len(konts') = h /\ konts'[h].k = "catch" /\ "catch" \notin Bodies
  BY CatchStack DEF Bodies
<1>2. konts' # konts
  BY <1>1
<1>3. status' = "run" /\ h <= Len(konts) /\ Len(konts) \in Nat
  BY StackShape DEF EnterCatch, Goto
<1> QED
  BY <1>1, <1>2, <1>3 DEF Catching, Dying

\* The runtime's throw catches or ends the program.
LEMMA RtThrowCatches ==
    ASSUME IInv, status = "run", NEW ch, rt_throw(ch)
    PROVE  Catching \/ Dying
<1>0. FramesMatchStack /\ hc_ntry \in Nat /\ Stack(konts) /\ DOMAIN konts = 1..Len(konts)
      /\ Len(konts) \in Nat /\ status # "wild"
  BY FramesAreArmed, StackFacts DEF IInv
<1>1. CASE hc_ntry = 0
  BY <1>1 DEF rt_throw, Stop, Dying
<1>2. CASE hc_ntry # 0
  <2> DEFINE h == hc_frames[hc_ntry]
  <2>1. hc_ntry \in 1..hc_ntry
    BY <1>0, <1>2
  <2>2. h \in Armed
    BY <1>0, <2>1 DEF FramesMatchStack
  <2>3. h \in DOMAIN konts /\ konts[h].k = "dtry"
    BY <2>2 DEF Armed
  <2>4. EnterCatch(h)
    BY <1>2, <2>3, Zenon DEF rt_throw
  <2> HIDE DEF h
  <2>5. konts[1].k = "call"
    BY <1>0, StackShape
  <2>6. h # 1
    BY <2>3, <2>5
  <2>7. h \in 2..Len(konts) /\ konts[h].k \in Bodies
    BY <1>0, <2>3, <2>6 DEF Bodies
  <2> QED
    BY <1>0, <2>4, <2>7, EnterCatches
<1> QED
  BY <1>1, <1>2

\* The entries of an activation above its call are of its function.
LEMMA SameFunction ==
    ASSUME Stack(konts), Owned(konts), NEW h \in 2..Len(konts), konts[h].k # "call"
    PROVE  konts[h].fn = konts[h - 1].fn
<1>1. Len(konts) \in Nat /\ h \in 1..Len(konts) /\ h - 1 \in 1..Len(konts)
  BY StackShape
<1>2. /\ konts[h].cp \in 1..h /\ konts[konts[h].cp].k = "call"
      /\ \A j \in konts[h].cp..h : konts[j].cp = konts[h].cp
  BY <1>1 DEF Stack, Activations
<1>3. konts[h].cp # h
  BY <1>2
<1>4. h - 1 \in konts[h].cp..h
  BY <1>1, <1>2, <1>3
<1>5. konts[h - 1].cp = konts[h].cp
  BY <1>2, <1>4
<1> QED
  BY <1>1, <1>5 DEF Owned

\* What catches an exception is what the search of the language finds.
LEMMA SemSearch ==
    ASSUME FiniteTrees, IInv, LInv, Run, Catching \/ Dying,
           NEW n \in {Len(konts), Len(konts) + 1}, n = Len(konts) => Top.k = "catch"
    PROVE  Sem!Search(n)
<1>0. /\ status = "run" /\ Stack(konts) /\ Owned(konts) /\ cur \in Stmts /\ prog \in Programs
      /\ Len(konts) \in Nat /\ DOMAIN konts = 1..Len(konts) /\ UNCHANGED prog
  BY StackShape DEF Run, LInv, QInv, AInv
<1> DEFINE H == {i \in Sem!Tries : i < n}
           a == SemStack(konts)
<1>1. H = {i \in 1..Len(konts) : konts[i].k \in Bodies /\ i < n}
  BY <1>0, SemFacts
<1>2. [Next]_vars
  BY DEF Next
<1>3. Catching \/ Dying => \A i \in Unwound : konts[i].k \notin Bodies
  <2>1. vars' # vars
    <3> SUFFICES ASSUME vars' = vars PROVE FALSE
      OBVIOUS
    <3>1. konts' = konts /\ status' = status
      BY DEF vars
    <3> QED
      BY <1>0, <3>1 DEF Catching, Dying
  <2> QED
    BY <1>2, <2>1, NothingSkipped
<1>4. CASE Dying
  <2>1. H = {}
    BY <1>0, <1>1, <1>3, <1>4 DEF Unwound
  <2>2. status' = "unhandled" /\ UNCHANGED <<prog, cur, konts>>
    BY <1>0, <1>4, Moves DEF Dying, Ends
  <2>3. Sem!Stop("unhandled")
    BY <2>2 DEF Sem!Stop
  <2> QED
    BY <2>1, <2>3 DEF Sem!Search
<1>5. CASE Catching /\ ~Dying
  <2>1. Goes
    BY <1>0, <1>5, Moves DEF Catching, Ends
  <2>2. Handles
    BY <1>0, <1>5, <2>1, CatchingHandles
  <2>3. PICK h \in 2..Len(konts) : konts[h].k \in {"ltry", "dtry"} /\ EnterCatch(h)
    BY <2>2 DEF Handles
  <2>4. /\ Stack(konts') /\ cur' = konts[h].node.b /\ Len(konts') = h
        /\ Stack(SubSeq(konts, 1, h - 1))
        /\ konts' = Append(SubSeq(konts, 1, h - 1), Over(konts[h - 1], "catch", konts[h].node))
    BY <1>0, <2>3, CatchStack DEF Bodies
  <2>5. Unwound = (h + 1)..Len(konts)
    BY <1>5, <2>4 DEF Unwound
  <2>6. h \in H
    <3>1. n = Len(konts) => h # Len(konts)
      BY <2>3 DEF Top
    <3>2. h \in 2..Len(konts) /\ Len(konts) \in Nat /\ n \in {Len(konts), Len(konts) + 1}
      BY <1>0
    <3>3. h \in 1..Len(konts) /\ h < n
      BY <3>1, <3>2
    <3> QED
      BY <1>1, <2>3, <3>3 DEF Bodies
  <2>7. ASSUME NEW j \in H PROVE j <= h
    <3>1. j \in 1..Len(konts) /\ konts[j].k \in Bodies
      BY <1>1
    <3>2. ~(j \in (h + 1)..Len(konts))
      BY <1>3, <1>5, <2>5, <3>1
    <3> QED
      BY <1>0, <3>1, <3>2
  <2>8. Sem!Topmost(H) = h
    <3>1. H \in SUBSET (1..Len(konts)) /\ H # {} /\ H \in SUBSET Nat
      BY <1>1, <2>6
    <3> HIDE DEF H
    <3>2. Topmost(H) \in H /\ \A j \in H : j <= Topmost(H)
      BY <1>0, <3>1, TopmostExists
    <3>3. Topmost(H) = h
      <4>1. h <= Topmost(H) /\ Topmost(H) <= h
        BY <2>6, <2>7, <3>2
      <4>2. Topmost(H) \in Nat /\ h \in Nat
        BY <2>6, <3>1, <3>2
      <4> QED
        BY <4>1, <4>2
    <3> QED
      BY <3>3 DEF Topmost, Sem!Topmost
  <2>9. SemStack(konts') = Append(SubSeq(a, 1, h - 1),
                                  [k |-> "catch", node |-> konts[h].node, fn |-> konts[h].fn])
    <3> DEFINE q == SubSeq(konts, 1, h - 1)
               x == Over(konts[h - 1], "catch", konts[h].node)
    <3>1. SemStack(konts') = Append(SemStack(q), SemEntry(x))
      BY <2>4, SemAppend
    <3>2. h - 1 \in 1..Len(konts)
      BY <1>0
    <3>3. SemStack(q) = SubSeq(a, 1, h - 1)
      BY <1>0, <3>2, SemCut
    <3>4. x.k = "catch" /\ x.node = konts[h].node /\ x.fn = konts[h - 1].fn
      BY DEF Over, Entry
    <3>5. konts[h - 1].fn = konts[h].fn
      BY <1>0, <2>3, SameFunction
    <3>6. SemEntry(x) = [k |-> "catch", node |-> konts[h].node, fn |-> konts[h].fn]
      <4> HIDE DEF x
      <4> QED
        BY <3>4, <3>5 DEF SemEntry, AbstractKind, Bodies
    <3> QED
      BY <3>1, <3>3, <3>6
  <2>10. a[h].node = konts[h].node /\ a[h].fn = konts[h].fn
    <3>1. h \in 1..Len(konts)
      BY <1>0
    <3>2. a[h] = SemEntry(konts[h])
      BY <1>0, <3>1, SemStackIs
    <3> QED
      BY <3>2 DEF SemEntry
  <2>11. status' = "run"
    BY <1>5 DEF Catching
  <2>12. Sem!Goto(Append(Sem!Below(h), Sem!Entry("catch", a[h].node, a[h].fn)), a[h].node.b)
    BY <1>0, <2>4, <2>9, <2>10, <2>11 DEF Sem!Goto, Sem!Below, Sem!Entry, SemStack, SemEntry
  <2>13. H # {}
    BY <2>6
  <2>14. LET t == Sem!Topmost(H)
         IN  Sem!Goto(Append(Sem!Below(t), Sem!Entry("catch", a[t].node, a[t].fn)), a[t].node.b)
    <3> DEFINE t == Sem!Topmost(H)
    <3>1. t = h
      BY <2>8
    <3> HIDE DEF t
    <3>2. Sem!Goto(Append(Sem!Below(t), Sem!Entry("catch", a[t].node, a[t].fn)), a[t].node.b)
      BY <2>12, <3>1 DEF Sem!Goto, Sem!Below, Sem!Entry
    <3> QED
      BY <3>2 DEF t
  <2> QED
    BY <2>13, <2>14, Zenon DEF Sem!Search, SemStack, SemEntry
<1> QED
  BY <1>4, <1>5

\* The instance counts as this module does.
LEMMA SemCardinality == \A S : Sem!Cardinality(S) = Cardinality(S)
BY DEF Sem!Cardinality, Cardinality

\* Every frame is a try body being executed, so a full frame stack is TryMax of
\* them.
LEMMA SemTooDeep ==
    ASSUME IInv, Owned(konts), try_full
    PROVE  Sem!Cardinality(Sem!Tries) >= TryMax
<1> DEFINE T == Sem!Tries
           f == [m \in 1..hc_ntry |-> hc_frames[m]]
<1>0. FramesMatchStack /\ hc_ntry \in Nat /\ Stack(konts) /\ DOMAIN konts = 1..Len(konts)
      /\ Len(konts) \in Nat /\ status # "wild" /\ TryMax \in Nat /\ hc_ntry >= TryMax
  BY FramesAreArmed, StackFacts, TryMaxAssumption DEF IInv, try_full
<1>1. T \in SUBSET (1..Len(konts)) /\ Armed \subseteq T
  BY <1>0, SemFacts DEF Armed, Bodies
<1>2. IsFiniteSet(1..Len(konts)) /\ IsFiniteSet(1..hc_ntry) /\ Cardinality(1..hc_ntry) = hc_ntry
  <2>1. ASSUME NEW n \in Nat PROVE IsFiniteSet(1..n) /\ Cardinality(1..n) = n
    <3>1. 1 \in Int /\ n \in Int /\ (IF 1 > n THEN 0 ELSE n - 1 + 1) = n
      OBVIOUS
    <3>2. IsFiniteSet(1..n) /\ Cardinality(1..n) = IF 1 > n THEN 0 ELSE n - 1 + 1
      BY <3>1, FS_Interval
    <3> QED
      BY <3>1, <3>2
  <2> QED
    BY <1>0, <2>1
<1>3. IsFiniteSet(T) /\ Cardinality(T) \in Nat
  BY <1>1, <1>2, FS_Subset, FS_CardinalityType
<1>4. f \in [1..hc_ntry -> T]
  BY <1>0, <1>1 DEF FramesMatchStack
<1>5. ASSUME NEW x \in 1..hc_ntry, NEW y \in 1..hc_ntry, x < y PROVE f[x] # f[y]
  <2>1. hc_frames[x] < hc_frames[y] /\ hc_frames[x] \in Armed /\ hc_frames[y] \in Armed
    BY <1>0, <1>5 DEF FramesMatchStack
  <2>2. hc_frames[x] \in Nat /\ hc_frames[y] \in Nat
    BY <1>0, <2>1 DEF Armed
  <2> QED
    BY <2>1, <2>2
<1>6. ASSUME NEW x \in 1..hc_ntry, NEW y \in 1..hc_ntry, x # y PROVE f[x] # f[y]
  <2>1. x < y \/ y < x
    BY <1>0, <1>6
  <2> QED
    BY <2>1, <1>5
<1> HIDE DEF f, T
<1>7. ~(Cardinality(T) < hc_ntry)
  <2> SUFFICES ASSUME Cardinality(T) < hc_ntry PROVE FALSE
    OBVIOUS
  <2>1. Cardinality(T) < Cardinality(1..hc_ntry)
    BY <1>2
  <2> QED
    BY <1>2, <1>3, <1>4, <1>6, <2>1, FS_PigeonHole
<1>8. Sem!Cardinality(T) >= TryMax
  BY <1>0, <1>3, <1>7, SemCardinality
<1> QED
  BY <1>8 DEF T

\* Every step of the lowered program is a step of ExcSemantics or changes nothing
\* there.
LEMMA SemRun ==
    ASSUME FiniteTrees, IInv, LInv, Run
    PROVE  Sem!Next \/ UNCHANGED Sem!vars
<1> DEFINE a == SemStack(konts)
           len == Len(konts)
           Step == Sem!ExecThrow \/ Sem!ExecSeq \/ Sem!ExecIf \/ Sem!ExecLoop \/ Sem!ExecBreak
                   \/ Sem!ExecExcept \/ Sem!ExecReturn \/ Sem!ExecExtern \/ Sem!ExecCall
                   \/ Sem!ExecReturnCall \/ Sem!ExecTry \/ Sem!Resume
           Done == Step \/ UNCHANGED Sem!vars
<1>0. /\ status = "run" /\ Stack(konts) /\ Owned(konts) /\ cur \in Stmts /\ prog \in Programs
      /\ UNCHANGED prog /\ len \in Nat /\ len \in 1..len /\ len >= 1
      /\ DOMAIN konts = 1..len /\ Top.cp \in 1..len
  BY StackShape DEF Run, LInv, QInv, AInv
<1>a. /\ Len(a) = len /\ \A i \in 1..len : a[i] = SemEntry(konts[i])
      /\ Sem!Top = SemEntry(Top) /\ Sem!Activation = Top.cp /\ Sem!Loops = Loops
  BY <1>0, SemStackIs, SemFacts
<1>top. Sem!Top.k = AbstractKind(Top.k) /\ Sem!Top.node = Top.node /\ Sem!Top.fn = Top.fn
        /\ Top.k \in Kinds
  <2>1. Top.k \in Kinds
    BY <1>0, StackShape DEF Top
  <2> QED
    BY <1>a, <2>1 DEF SemEntry
<1>run. SemStatus(status) = "run"
  BY <1>0 DEF SemStatus
<1>len. Sem!Pop = SubSeq(a, 1, len - 1) /\ \A i : Sem!Below(i) = SubSeq(a, 1, i - 1)
  <2>1. \A i : Sem!Below(i) = SubSeq(a, 1, i - 1)
    BY DEF Sem!Below, SemStack, SemEntry
  <2>2. Sem!Pop = Sem!Below(Len(a))
    BY DEF Sem!Pop, SemStack, SemEntry
  <2> QED
    BY <2>1, <2>2, <1>a
<1>new. status' = "run" => Stack(konts')
  BY <1>0, Moves, StackMoves DEF Ends
<1>goto. ASSUME NEW STATE n, Goto(konts', n) PROVE Sem!Goto(SemStack(konts'), n) /\ Stack(konts')
  BY <1>0, <1>goto, <1>new DEF Goto, Sem!Goto, SemStack, SemEntry
<1>pushed. ASSUME NEW k \in Kinds, NEW node \in Stmts, konts' = Push(k, node), status' = "run"
           PROVE  SemStack(konts') = Sem!Push(AbstractKind(k), node)
  <2> DEFINE x == Over(konts[len], k, node)
  <2>1. x.k = k /\ x.node = node /\ x.fn = Top.fn
    BY <1>0, PushIs DEF Top
  <2>2. konts' = Append(konts, x)
    BY <1>pushed DEF Push, Top
  <2> HIDE DEF x
  <2>3. Stack(Append(konts, x))
    BY <2>2, <1>pushed, <1>new
  <2>4. SemStack(konts') = Append(a, SemEntry(x))
    BY <1>0, <2>2, <2>3, SemAppend
  <2>5. SemEntry(x) = Sem!Entry(AbstractKind(k), node, Sem!Top.fn)
    BY <2>1, <1>top DEF SemEntry, Sem!Entry
  <2>6. Sem!Push(AbstractKind(k), node) = Append(a, SemEntry(x))
    BY <2>5 DEF Sem!Push, SemStack, SemEntry
  <2> QED
    BY <2>4, <2>6
<1>fs. UNCHANGED Fs => UNCHANGED Sem!Fs
  BY DEF Fs, Sem!Fs
<1>names. Sem!Nop = Nop /\ Sem!Externs = Externs /\ Sem!Bodied = Bodied
  BY DEF Sem!Nop, Nop, Sem!Externs, Externs, Sem!Bodied, Bodied, Sem!Listed, Listed
<1>pop. ASSUME Goto(Pop, Nop), len > 1 PROVE Sem!Goto(Sem!Pop, Sem!Nop)
  <2>1. konts' = SubSeq(konts, 1, len - 1) /\ cur' = Nop /\ status' = "run"
    BY <1>0, <1>pop DEF Goto, Pop, Below
  <2>2. len - 1 \in 1..len
    BY <1>0, <1>pop
  <2>3. SemStack(konts') = Sem!Pop
    BY <1>0, <2>1, <2>2, <1>len, SemCut
  <2> QED
    BY <1>0, <2>1, <2>3, <1>names DEF Sem!Goto, SemStack, SemEntry
<1>plus. len + 1 \in {len, len + 1} /\ (len + 1 = len => Top.k = "catch")
  <2>0. len \in Nat
    BY <1>0
  <2> HIDE DEF len
  <2>1. len + 1 # len
    BY <2>0
  <2> QED
    BY <2>1
<1>throw. ASSUME NEW ch, rt_throw(ch) PROVE Sem!Throw(ch)
  <2>1. Catching \/ Dying
    BY <1>0, <1>throw, RtThrowCatches
  <2>2. Sem!Search(len + 1)
    BY <1>plus, <2>1, SemSearch
  <2>3. except_ch' = ch /\ catch_except' = FALSE
    BY <1>throw DEF rt_throw
  <2>4. Sem!Search(Len(a) + 1)
    BY <2>2, <1>a
  <2> QED
    BY <2>3, <2>4 DEF Sem!Throw, SemStack, SemEntry
<1>local. ASSUME NEW n \in {len, len + 1}, LocalHandler(n), EnterCatch(Topmost(Handlers(n)))
          PROVE  Catching
  <2> DEFINE H == Handlers(n)
             h == Topmost(H)
  <2>1. H \in SUBSET (1..len) /\ H # {}
    BY <1>0, <1>local DEF Handlers, LocalHandler
  <2>2. h \in H
    BY <1>0, <2>1, TopmostExists
  <2>3. h \in 1..len /\ Top.cp < h /\ konts[h].k \in Bodies /\ EnterCatch(h)
    BY <1>0, <1>local, <2>2 DEF Handlers, Bodies
  <2> HIDE DEF h
  <2>4. h \in 2..len
    BY <1>0, <2>3
  <2> QED
    BY <1>0, <2>3, <2>4, EnterCatches
<1>kinds. {"seq", "loop", "ret", "ntry", "ltry", "dtry"} \subseteq Kinds
          /\ AbstractKind("seq") = "seq" /\ AbstractKind("loop") = "loop"
          /\ AbstractKind("ret") = "ret"
          /\ AbstractKind("ntry") = "try" /\ AbstractKind("ltry") = "try"
          /\ AbstractKind("dtry") = "try"
  BY DEF Kinds, AbstractKind, Bodies
<1>1. ASSUME ExecThrow PROVE Done
  <2>1. CASE LocalHandler(len + 1)
    <3>1. /\ except_ch' = cur.ch /\ catch_except' = FALSE
          /\ EnterCatch(Topmost(Handlers(len + 1)))
      BY <1>1, <2>1 DEF ExecThrow, emit_throw
    <3>2. Catching
      BY <2>1, <3>1, <1>local
    <3>3. Sem!Search(Len(a) + 1)
      BY <1>plus, <1>a, <3>2, SemSearch
    <3>4. Sem!Throw(cur.ch)
      BY <3>1, <3>3 DEF Sem!Throw, SemStack, SemEntry
    <3> QED
      BY <1>1, <3>4 DEF ExecThrow, Sem!ExecThrow
  <2>2. CASE ~LocalHandler(len + 1)
    <3>1. Sem!Throw(cur.ch)
      BY <1>1, <2>2, <1>throw DEF ExecThrow, emit_throw
    <3> QED
      BY <1>1, <3>1 DEF ExecThrow, Sem!ExecThrow
  <2> QED
    BY <2>1, <2>2
<1>2. ASSUME ExecThrowExpr PROVE Done
  <2>1. Sem!Throw(cur.ch)
    BY <1>2, <1>throw DEF ExecThrowExpr
  <2> QED
    BY <1>2, <2>1 DEF ExecThrowExpr, Sem!ExecThrow
<1>3. ASSUME ExecSeq PROVE Done
  <2>1. cur.b \in Stmts
    BY <1>0, <1>3, StmtFacts DEF ExecSeq, Binary
  <2>2. konts' = Push("seq", cur.b) /\ cur' = cur.a /\ status' = "run"
    BY <1>0, <1>3 DEF ExecSeq, Goto
  <2>3. SemStack(konts') = Sem!Push("seq", cur.b)
    BY <2>1, <2>2, <1>pushed, <1>kinds
  <2>4. Sem!Goto(Sem!Push("seq", cur.b), cur.a)
    BY <1>0, <2>2, <2>3 DEF Sem!Goto, SemStack, SemEntry
  <2> QED
    BY <1>3, <2>4, <1>fs DEF ExecSeq, Sem!ExecSeq
<1>4. ASSUME ExecIf PROVE Done
  <2>1. Sem!Goto(a, cur.a) \/ Sem!Goto(a, cur.b)
    BY <1>0, <1>4 DEF ExecIf, Goto, Sem!Goto, SemStack, SemEntry
  <2> QED
    BY <1>4, <2>1, <1>fs DEF ExecIf, Sem!ExecIf, SemStack, SemEntry
<1>5. ASSUME ExecLoop PROVE Done
  <2>1. konts' = Push("loop", cur) /\ cur' = Nop /\ status' = "run"
    BY <1>0, <1>5 DEF ExecLoop, Goto
  <2>2. SemStack(konts') = Sem!Push("loop", cur)
    BY <1>0, <2>1, <1>pushed, <1>kinds
  <2>3. Sem!Goto(Sem!Push("loop", cur), Nop)
    BY <1>0, <2>1, <2>2 DEF Sem!Goto, SemStack, SemEntry
  <2> QED
    BY <1>5, <2>3, <1>fs, <1>names DEF ExecLoop, Sem!ExecLoop
<1>6. ASSUME ExecExcept PROVE Done
  <2>1. Sem!Goto(a, Nop)
    BY <1>0, <1>6 DEF ExecExcept, Goto, Sem!Goto, SemStack, SemEntry
  <2> QED
    BY <1>6, <2>1, <1>names DEF ExecExcept, PutExcept, Sem!ExecExcept, SemStack, SemEntry
<1>7. ASSUME ExecBreak PROVE Done
  <2> DEFINE t == Topmost(Loops)
  <2>1. Loops \in SUBSET (1..len) /\ Loops # {}
    BY <1>0, <1>7 DEF Loops, ExecBreak
  <2>2. t \in Loops
    BY <1>0, <2>1, TopmostExists
  <2>3. t \in 1..len /\ Top.cp < t
    BY <1>0, <2>2 DEF Loops
  <2>4. Sem!Topmost(Sem!Loops) = t
    BY <1>a DEF Sem!Topmost, Topmost
  <2>5. Goto(SubSeq(konts, 1, t - 1), Nop)
    BY <1>7 DEF ExecBreak, Below
  <2> HIDE DEF t
  <2>6. t - 1 \in 1..len
    BY <1>0, <2>3
  <2>7. Sem!Goto(SubSeq(a, 1, t - 1), Nop)
    <3>1. konts' = SubSeq(konts, 1, t - 1) /\ Goto(konts', Nop)
      BY <2>5 DEF Goto
    <3>2. SemStack(konts') = SubSeq(a, 1, t - 1)
      BY <1>0, <2>6, <3>1, SemCut
    <3>3. cur' = Nop /\ status' = "run"
      BY <1>0, <3>1 DEF Goto
    <3> QED
      BY <1>0, <3>2, <3>3 DEF Sem!Goto, SemStack, SemEntry
  <2>8. Sem!Below(Sem!Topmost(Sem!Loops)) = SubSeq(a, 1, t - 1)
    BY <2>4, <1>len
  <2>9. Sem!Goto(Sem!Below(Sem!Topmost(Sem!Loops)), Nop)
    BY <2>7, <2>8 DEF Sem!Goto
  <2> QED
    BY <1>7, <2>9, <1>fs, <1>names DEF ExecBreak, Sem!ExecBreak
<1>8. ASSUME ExecExtern PROVE Done
  <2>1. CASE Goto(konts, Nop) /\ UNCHANGED <<Fs, frames>>
    <3>1. Sem!Goto(a, Nop)
      BY <1>0, <2>1 DEF Goto, Sem!Goto, SemStack, SemEntry
    <3> QED
      BY <1>8, <2>1, <3>1, <1>fs, <1>names DEF ExecExtern, Sem!ExecExtern, SemStack, SemEntry
  <2>2. CASE \E ch \in Chars : rt_throw(ch)
    <3>1. PICK ch \in Chars : Sem!Throw(ch)
      BY <2>2, <1>throw
    <3> QED
      BY <1>8, <3>1, <1>names DEF ExecExtern, Sem!ExecExtern
  <2> QED
    BY <1>8, <2>1, <2>2 DEF ExecExtern
<1>9. ASSUME ExecCall PROVE Done
  <2> DEFINE x == CallEntry(cur.fn, len + 1, Top.lv)
  <2>1. konts' = Append(konts, x) /\ cur' = prog[cur.fn] /\ status' = "run"
    BY <1>0, <1>9 DEF ExecCall, Goto
  <2>2. x.k = "call" /\ x.node = Nop /\ x.fn = cur.fn
    BY CallEntryIs
  <2> HIDE DEF x
  <2>3. SemStack(konts') = Append(a, SemEntry(x))
    BY <1>0, <2>1, <1>new, SemAppend
  <2>4. SemEntry(x) = Sem!Entry("call", Sem!Nop, cur.fn)
    BY <2>2, <1>names DEF SemEntry, Sem!Entry, AbstractKind, Bodies
  <2>5. Sem!PushCall(cur.fn) = Append(a, SemEntry(x))
    BY <2>4 DEF Sem!PushCall, SemStack, SemEntry
  <2>6. Sem!Goto(Sem!PushCall(cur.fn), prog[cur.fn])
    BY <1>0, <2>1, <2>3, <2>5 DEF Sem!Goto, SemStack, SemEntry
  <2> QED
    BY <1>9, <2>6, <1>fs, <1>names DEF ExecCall, Sem!ExecCall
<1>10. ASSUME StackOverflow PROVE Done
  BY <1>0, <1>10 DEF StackOverflow, Stop, Sem!vars, Fs
<1>11. ASSUME ExecReturn PROVE Done
  <2>1. Goto(SubSeq(konts, 1, Top.cp), Nop)
    BY <1>11 DEF ExecReturn
  <2>2. Sem!Goto(SubSeq(a, 1, Top.cp), Nop)
    <3>1. konts' = SubSeq(konts, 1, Top.cp) /\ cur' = Nop /\ status' = "run"
      BY <1>0, <2>1 DEF Goto
    <3>2. SemStack(konts') = SubSeq(a, 1, Top.cp)
      BY <1>0, <3>1, SemCut
    <3> QED
      BY <1>0, <3>1, <3>2 DEF Sem!Goto, SemStack, SemEntry
  <2>3. Sem!Goto(SubSeq(a, 1, Sem!Activation), Sem!Nop)
    BY <2>2, <1>a, <1>names
  <2> QED
    BY <1>11, <2>3, <1>fs DEF ExecReturn, Sem!ExecReturn, SemStack, SemEntry
<1>12. ASSUME ExecReturnCall PROVE Done
  <2> DEFINE x == CallEntry(cur.fn, len + 2, konts[Top.cp].lv)
             r == Over(Disarmed[len], "ret", Nop)
  <2>1. konts' = Append(Returning, x) /\ cur' = prog[cur.fn] /\ status' = "run"
    BY <1>0, <1>12 DEF ExecReturnCall, Returning, Goto
  <2>2. x.k = "call" /\ x.node = Nop /\ x.fn = cur.fn
    BY CallEntryIs
  <2>3. Stack(Returning) /\ Stack(Disarmed) /\ Len(Disarmed) = len /\ Returning = Append(Disarmed, r)
    BY <1>0, ReturningStack, DisarmStack DEF Returning
  <2>4. SemStack(Disarmed) = a
    <3> DEFINE E == [k : Kinds \cup {"try"}, node : Stmts, fn : Funcs]
    <3>1. /\ SemStack(Disarmed) \in Seq(E) /\ Len(SemStack(Disarmed)) = len
          /\ \A i \in 1..len : SemStack(Disarmed)[i] = SemEntry(Disarmed[i])
      BY <2>3, SemStackIs
    <3>2. a \in Seq(E) /\ Len(a) = len /\ \A i \in 1..len : a[i] = SemEntry(konts[i])
      BY <1>0, SemStackIs
    <3>3. ASSUME NEW i \in 1..len PROVE SemEntry(Disarmed[i]) = SemEntry(konts[i])
      <4>1. /\ Disarmed[i].node = konts[i].node /\ Disarmed[i].fn = konts[i].fn
            /\ Disarmed[i].k = konts[i].k \/ (konts[i].k = "dtry" /\ Disarmed[i].k = "popped")
        BY <1>0, DisarmStack
      <4> QED
        BY <4>1 DEF SemEntry, AbstractKind, Bodies
    <3> HIDE DEF E, a
    <3> QED
      BY <3>1, <3>2, <3>3, SeqEqual
  <2>5. r.k = "ret" /\ r.node = Nop /\ r.fn = Top.fn
    <3>1. Disarmed[len].fn = konts[len].fn
      BY <1>0, DisarmStack
    <3>2. Nop \in Stmts /\ "ret" \in Kinds
      BY StmtsAssumption, <1>kinds
    <3> QED
      BY <2>3, <3>1, <3>2, PushIs DEF Top
  <2> HIDE DEF x, r
  <2>6. SemStack(Returning) = Append(a, SemEntry(r))
    BY <2>3, <2>4, SemAppend
  <2>7. SemStack(konts') = Append(Append(a, SemEntry(r)), SemEntry(x))
    BY <2>1, <2>3, <2>6, <1>new, SemAppend
  <2>8. SemEntry(x) = Sem!Entry("call", Sem!Nop, cur.fn)
    BY <2>2, <1>names DEF SemEntry, Sem!Entry, AbstractKind, Bodies
  <2>9. SemEntry(r) = Sem!Entry("ret", Sem!Nop, Sem!Top.fn)
    BY <2>5, <1>names, <1>kinds, <1>top DEF SemEntry, Sem!Entry
  <2>10. Sem!Push("ret", Sem!Nop) = Append(a, SemEntry(r))
    BY <2>9 DEF Sem!Push, SemStack, SemEntry
  <2>11. Sem!Goto(Append(Sem!Push("ret", Sem!Nop), Sem!Entry("call", Sem!Nop, cur.fn)), prog[cur.fn])
    BY <1>0, <2>1, <2>7, <2>8, <2>10 DEF Sem!Goto, SemStack, SemEntry
  <2> QED
    BY <1>12, <2>11, <1>fs, <1>names DEF ExecReturnCall, Sem!ExecReturnCall
<1>13. ASSUME ExecTry PROVE Done
  <2> DEFINE mode == try_mode(can_throw, cur)
  <2>0. mode \in {"ntry", "ltry", "dtry"}
    BY ModeIs
  <2>1. CASE Goto(Push(mode, cur), cur.a)
    <3> HIDE DEF mode
    <3>1. konts' = Push(mode, cur) /\ cur' = cur.a /\ status' = "run"
      BY <1>0, <2>1 DEF Goto
    <3>2. SemStack(konts') = Sem!Push("try", cur)
      BY <1>0, <2>0, <3>1, <1>pushed, <1>kinds
    <3>3. Sem!Goto(Sem!Push("try", cur), cur.a)
      BY <1>0, <3>1, <3>2 DEF Sem!Goto, SemStack, SemEntry
    <3> QED
      BY <1>13, <3>3, <1>fs DEF ExecTry, Sem!ExecTry
  <2>2. CASE try_full /\ Stop("toodeep")
    <3>1. Sem!Cardinality(Sem!Tries) >= TryMax
      BY <1>0, <2>2, SemTooDeep
    <3>2. Sem!Stop("toodeep")
      BY <1>0, <2>2 DEF Stop, Sem!Stop
    <3>3. cur.op = "try" /\ UNCHANGED Sem!Fs
      BY <1>13, <1>fs DEF ExecTry
    <3>4. Sem!ExecTry
      BY <3>1, <3>2, <3>3, Zenon DEF Sem!ExecTry
    <3> QED
      BY <3>4
  <2> HIDE DEF mode
  <2>3. Goto(Push(mode, cur), cur.a) \/ (try_full /\ Stop("toodeep"))
    BY <1>13, Zenon DEF ExecTry, mode
  <2> QED
    BY <2>1, <2>2, <2>3 DEF mode
<1>more. Top.k # "call" => len > 1
  BY <1>0, StackShape
<1>14. ASSUME cur = Nop, EndSeq PROVE Done
  <2>1. konts' = SubSeq(konts, 1, len - 1) /\ cur' = Top.node /\ status' = "run" /\ Top.k = "seq"
    BY <1>0, <1>14 DEF EndSeq, Goto, Pop, Below
  <2>2. len - 1 \in 1..len
    BY <1>0, <2>1, <1>more
  <2>3. SemStack(konts') = Sem!Pop
    BY <1>0, <2>1, <2>2, <1>len, SemCut
  <2>4. Sem!Goto(Sem!Pop, Sem!Top.node)
    BY <1>0, <2>1, <2>3, <1>top DEF Sem!Goto, SemStack, SemEntry
  <2>5. Sem!Top.k = "seq"
    BY <2>1, <1>top, <1>kinds
  <2> QED
    BY <1>14, <2>4, <2>5, <1>fs, <1>names DEF EndSeq, Sem!Resume
<1>15. ASSUME cur = Nop, EndLoopBody PROVE Done
  <2>1. Sem!Top.k = "loop" /\ UNCHANGED Sem!Fs /\ Top.k = "loop"
    BY <1>15, <1>top, <1>kinds, <1>fs DEF EndLoopBody
  <2>2. CASE Goto(konts, Top.node.a)
    <3>1. Sem!Goto(a, Sem!Top.node.a)
      BY <1>0, <2>2, <1>top DEF Goto, Sem!Goto, SemStack, SemEntry
    <3> QED
      BY <1>15, <2>1, <3>1, <1>names DEF Sem!Resume, SemStack, SemEntry
  <2>3. CASE Goto(Pop, Nop)
    <3>1. Sem!Goto(Sem!Pop, Sem!Nop)
      BY <2>1, <2>3, <1>pop, <1>more, <1>names
    <3> QED
      BY <1>15, <2>1, <3>1, <1>names DEF Sem!Resume
  <2> QED
    BY <1>15, <2>2, <2>3 DEF EndLoopBody
<1>16. ASSUME cur = Nop, EndTry PROVE Done
  <2>1. Top.k \in {"ntry", "ltry", "dtry"} /\ Goto(Pop, Nop) /\ UNCHANGED Fs
    BY <1>16 DEF EndTry
  <2>2. Sem!Top.k = "try" /\ UNCHANGED Sem!Fs
    BY <2>1, <1>top, <1>kinds, <1>fs
  <2>3. Sem!Goto(Sem!Pop, Sem!Nop)
    BY <2>1, <1>pop, <1>more, <1>names
  <2> QED
    BY <1>16, <2>2, <2>3, <1>names DEF Sem!Resume
<1>17. ASSUME cur = Nop, EndOperand PROVE Done
  <2>1. Top.k = "ret" /\ UNCHANGED Fs
        /\ konts' = SubSeq(konts, 1, Top.cp) /\ cur' = Nop /\ status' = "run"
    BY <1>0, <1>17 DEF EndOperand, Goto
  <2>2. SemStack(konts') = SubSeq(a, 1, Sem!Activation)
    BY <1>0, <2>1, <1>a, SemCut
  <2>3. Sem!Goto(SubSeq(a, 1, Sem!Activation), Sem!Nop)
    BY <1>0, <2>1, <2>2, <1>names DEF Sem!Goto, SemStack, SemEntry
  <2>4. Sem!Top.k = "ret" /\ UNCHANGED Sem!Fs
    BY <2>1, <1>top, <1>kinds, <1>fs
  <2> QED
    BY <1>17, <2>3, <2>4, <1>names DEF Sem!Resume, SemStack, SemEntry
<1>18. ASSUME cur = Nop, EndCall PROVE Done
  <2>1. Top.k = "call" /\ UNCHANGED Fs /\ (IF len > 1 THEN Goto(Pop, Nop) ELSE Stop("done"))
    BY <1>18 DEF EndCall
  <2>2. Sem!Top.k = "call" /\ UNCHANGED Sem!Fs
    BY <2>1, <1>top, <1>fs DEF AbstractKind, Bodies
  <2>3. CASE len > 1
    <3>1. Sem!Goto(Sem!Pop, Sem!Nop) /\ Len(a) > 1
      BY <2>1, <2>3, <1>pop, <1>names, <1>a
    <3> QED
      BY <1>18, <2>2, <3>1, <1>names DEF Sem!Resume, SemStack, SemEntry
  <2>4. CASE ~(len > 1)
    <3>1. Len(a) = 1
      BY <1>0, <1>a, <2>4
    <3>2. Sem!Stop("done")
      BY <1>0, <2>1, <2>4 DEF Stop, Sem!Stop
    <3> QED
      BY <1>18, <2>2, <3>1, <3>2, <1>names DEF Sem!Resume, SemStack, SemEntry
  <2> QED
    BY <2>3, <2>4
<1>19. ASSUME cur = Nop, EndCatch PROVE Done
  <2>1. Top.k = "catch" /\ Sem!Top.k = "catch"
    BY <1>19, <1>top DEF EndCatch, AbstractKind, Bodies
  <2>2. CASE catch_except
    <3>1. Goto(Pop, Nop) /\ UNCHANGED Fs
      BY <1>19, <2>2 DEF EndCatch
    <3>2. Sem!Goto(Sem!Pop, Sem!Nop) /\ UNCHANGED Sem!Fs
      BY <2>1, <3>1, <1>pop, <1>more, <1>names, <1>fs
    <3> QED
      BY <1>19, <2>1, <2>2, <3>2, <1>names DEF Sem!Resume
  <2>3. CASE ~catch_except
    <3>1. emit_rethrow
      BY <1>19, <2>3 DEF EndCatch
    <3>2. (Catching \/ Dying) /\ UNCHANGED Fs
      <4>1. CASE LocalHandler(len)
        <5>1. EnterCatch(Topmost(Handlers(len))) /\ UNCHANGED Fs
          BY <3>1, <4>1 DEF emit_rethrow
        <5>2. Catching
          BY <4>1, <5>1, <1>local
        <5> QED
          BY <5>1, <5>2
      <4>2. CASE ~LocalHandler(len)
        <5>1. rt_throw(except_ch)
          BY <3>1, <4>2 DEF emit_rethrow
        <5>2. Catching \/ Dying
          BY <1>0, <5>1, RtThrowCatches
        <5>3. except_ch' = except_ch /\ catch_except' = FALSE /\ catch_except = FALSE
          BY <2>3, <5>1 DEF rt_throw, IInv, TypeOK
        <5> QED
          BY <5>2, <5>3 DEF Fs
      <4> QED
        BY <4>1, <4>2
    <3>3. Sem!Search(Len(a))
      BY <2>1, <3>2, <1>a, SemSearch
    <3> QED
      BY <1>19, <2>1, <2>3, <3>2, <3>3, <1>names, <1>fs DEF Sem!Resume, SemStack, SemEntry
  <2> QED
    BY <2>2, <2>3
<1> HIDE DEF Done
<1>20. Done
  BY <1>1, <1>2, <1>3, <1>4, <1>5, <1>6, <1>7, <1>8, <1>9, <1>10, <1>11, <1>12, <1>13,
     <1>14, <1>15, <1>16, <1>17, <1>18, <1>19 DEF Run, Resume
<1>21. Sem!Next \/ UNCHANGED Sem!vars
  BY <1>0, <1>20 DEF Done, Sem!Next
<1> QED
  BY <1>21

\* The two programs start alike.
LEMMA SemInit == Init => Sem!Init
<1> SUFFICES ASSUME Init PROVE Sem!Init
  OBVIOUS
<1> DEFINE e == CallEntry(Startup, 1, 0)
<1>1. konts = <<e>> /\ Stack(konts) /\ Len(konts) = 1 /\ konts[1] = e
  BY StartStack DEF Init
<1>2. SemEntry(e) = Sem!Entry("call", Sem!Nop, Startup)
  BY DEF SemEntry, AbstractKind, Bodies, CallEntry, Entry, Sem!Entry, Nop, Sem!Nop
<1> HIDE DEF e
<1>3. /\ Len(SemStack(konts)) = 1 /\ DOMAIN SemStack(konts) = 1..1
      /\ SemStack(konts) \in Seq([k : Kinds \cup {"try"}, node : Stmts, fn : Funcs])
      /\ SemStack(konts)[1] = SemEntry(e)
  <2>1. /\ SemStack(konts) \in Seq([k : Kinds \cup {"try"}, node : Stmts, fn : Funcs])
        /\ Len(SemStack(konts)) = Len(konts) /\ DOMAIN SemStack(konts) = 1..Len(konts)
        /\ \A i \in 1..Len(konts) : SemStack(konts)[i] = SemEntry(konts[i])
    BY <1>1, SemStackIs
  <2>2. 1 \in 1..1
    OBVIOUS
  <2>3. SemStack(konts)[1] = SemEntry(konts[1])
    BY <1>1, <2>1, <2>2, Zenon
  <2> QED
    BY <1>1, <2>1, <2>3, Zenon
<1>4. SemStack(konts) = <<Sem!Entry("call", Sem!Nop, Startup)>>
  BY <1>2, <1>3
<1>5. /\ prog \in Programs /\ status = "analyze" /\ cur = prog[Startup]
      /\ except_ch = Sem!NoChar /\ catch_except = FALSE
  BY DEF Init, NoChar, Sem!NoChar
<1> QED
  BY <1>4, <1>5 DEF Sem!Init, SemStack, SemEntry

\* The analysis is invisible to the language.
LEMMA SemStep ==
    ASSUME FiniteTrees, IInv, LInv, [Next]_vars
    PROVE  [Sem!Next]_(Sem!vars)
<1>1. CASE Run
  BY <1>1, SemRun
<1>2. CASE Analyze
  <2>1. /\ UNCHANGED <<prog, cur, konts, Fs>> /\ status = "analyze"
        /\ status' \in {"analyze", "run"}
    BY <1>2 DEF Analyze, AnalyzeFn, AnalyzeAgain, AnalyzeDone
  <2> QED
    BY <2>1 DEF Sem!vars, Fs
<1>3. CASE UNCHANGED vars
  BY <1>3 DEF vars, Sem!vars, Fs
<1> QED
  BY <1>1, <1>2, <1>3 DEF Next, Ended

\* As long as no break and no return of a throwing call leaves a dynamic try,
\* the analysis of effects.c, the three lowerings of try and the frame stack of
\* rt.c implement the handler search of the language: every step of the lowered
\* program is a step of ExcSemantics, which has no analysis and no jmp_bufs.
THEOREM LoweringImplementsSearch ==
    ASSUME FiniteTrees
    PROVE  Spec /\ []~BreakLeavesTry /\ []~ReturnLosesTry => ImplementsHandlerSearch
<1>1. LInv /\ ~ReturnLosesTry /\ [Next]_vars => LInv'
  BY LocalStep
<1>2. Init => LInv
  BY LocalStarts
<1>3. IInv /\ LInv /\ [Next]_vars => [Sem!Next]_(Sem!vars)
  BY SemStep
<1>4. IInv /\ ~BreakLeavesTry /\ [Next]_vars => IInv'
  BY NextKeeps
<1>5. Init => Sem!Init
  BY SemInit
<1> QED
  BY <1>1, <1>2, <1>3, <1>4, <1>5, InitKeeps, PTL DEF Spec, ImplementsHandlerSearch, Sem!Spec
-----------------------------------------------------------------------------
(* Programs that never leave a try body with a frame by break or by the    *)
(* return of a throwing call.                                              *)

\* The statements X are where such a break, or return, is: with a statement the
\* one around it is in X, unless that is a loop and loops are among the stops.
Upward(S, X) ==
    /\ Nop \notin X
    /\ \A n \in Stmts \ X : /\ n.op \in Binary => n.a \notin X /\ n.b \notin X
                            /\ n.op = "loop" /\ "loop" \notin S => n.a \notin X

\* A condition on the text of the program.  T holds the functions that can throw
\* (the least such T are the marks of the analysis), B the statements a break
\* leaves, R those that return the call of such a function: the body of a try
\* out of which an exception of a call can come is in neither.
StaysIn(T, B, R) ==
    /\ Throwing \subseteq T /\ Closed(T)
    /\ Upward({"loop", "call"}, B) /\ \A n \in Stmts : n.op = "break" => n \in B
    /\ Upward({"call"}, R) /\ \A n \in Stmts : n.op = "retcall" /\ n.fn \in T => n \in R
    /\ \A n \in Stmts : n.op = "try" /\ "call" \in effect([f \in Funcs |-> f \in T])[n.a] =>
          n.a \notin B /\ n.a \notin R
StaysInTries == \E T : \E B, R \in SUBSET Stmts : StaysIn(T, B, R)

\* No entry of the kinds S between the positions i and j.
Unstopped(S, ks, i, j) == \A m \in (i + 1)..(j - 1) : ks[m].k \notin S

\* A statement of X is left to do at the entry x.
Leads(S, X, x) == \/ x.k \in {"seq", "loop"} \ S /\ x.node \in X
                  \/ x.k \in {"ltry", "dtry"} /\ x.node.b \in X

\* In a try body with a frame no statement of X is left to do, up to the stops S.
Tame(S, X, ks, c) ==
    \A i \in 1..Len(ks) : ks[i].k = "dtry" =>
       /\ \A j \in (i + 1)..Len(ks) : Unstopped(S, ks, i, j) => ~Leads(S, X, ks[j])
       /\ Unstopped(S, ks, i, Len(ks) + 1) => c \notin X

LEMMA TameCut ==
    ASSUME NEW S, NEW X, NEW ks, Stack(ks), NEW c, Tame(S, X, ks, c),
           NEW p \in 1..Len(ks), NEW d,
           \A i \in 1..p : ks[i].k = "dtry" /\ Unstopped(S, ks, i, p + 1) => d \notin X
    PROVE  Tame(S, X, SubSeq(ks, 1, p), d)
<1> DEFINE q == SubSeq(ks, 1, p)
<1>1. Len(q) = p /\ \A i \in 1..p : q[i] = ks[i]
  BY PrefixIs DEF Stack
<1>2. Len(ks) \in Nat /\ p \in Nat /\ p <= Len(ks)
  BY DEF Stack
<1> HIDE DEF q
<1>3. ASSUME NEW i \in 1..p, NEW j \in (i + 1)..(p + 1)
      PROVE  Unstopped(S, q, i, j) <=> Unstopped(S, ks, i, j)
  <2>1. \A m \in (i + 1)..(j - 1) : m \in 1..p /\ q[m] = ks[m]
    BY <1>1, <1>2, <1>3
  <2> QED
    BY <2>1 DEF Unstopped
<1>4. ASSUME NEW i \in 1..p, q[i].k = "dtry", NEW j \in (i + 1)..p, Unstopped(S, q, i, j)
      PROVE  ~Leads(S, X, q[j])
  <2>1. i \in 1..Len(ks) /\ j \in (i + 1)..Len(ks) /\ q[i] = ks[i] /\ q[j] = ks[j]
        /\ j \in (i + 1)..(p + 1)
    BY <1>1, <1>2, <1>4
  <2>2. Unstopped(S, ks, i, j)
    BY <2>1, <1>3, <1>4
  <2> QED
    BY <2>1, <2>2, <1>4 DEF Tame
<1>5. ASSUME NEW i \in 1..p, q[i].k = "dtry", Unstopped(S, q, i, p + 1) PROVE d \notin X
  <2>1. p + 1 \in (i + 1)..(p + 1)
    BY <1>2
  <2>2. Unstopped(S, ks, i, p + 1)
    BY <2>1, <1>3, <1>5
  <2> QED
    BY <2>2, <1>1, <1>5
<1>6. Tame(S, X, q, d)
  BY <1>1, <1>4, <1>5 DEF Tame
<1> QED
  BY <1>6 DEF q

LEMMA TamePush ==
    ASSUME NEW S, NEW X, NEW ks, Stack(ks), NEW c, Tame(S, X, ks, c), NEW x, NEW d,
           c \notin X => ~Leads(S, X, x) /\ (x.k \in S \/ d \notin X),
           x.k = "dtry" => d \notin X
    PROVE  Tame(S, X, Append(ks, x), d)
<1> DEFINE q == Append(ks, x)
           n == Len(ks)
<1>1. n \in Nat /\ Len(q) = n + 1 /\ q[n + 1] = x /\ \A i \in 1..n : q[i] = ks[i]
  BY AppendIs
<1> HIDE DEF q
<1>2. ASSUME NEW i \in 1..n, NEW j \in (i + 1)..(n + 1)
      PROVE  Unstopped(S, q, i, j) <=> Unstopped(S, ks, i, j)
  <2>1. \A m \in (i + 1)..(j - 1) : m \in 1..n /\ q[m] = ks[m]
    BY <1>1, <1>2
  <2> QED
    BY <2>1 DEF Unstopped
<1>3. ASSUME NEW i \in 1..n, Unstopped(S, q, i, n + 2)
      PROVE  Unstopped(S, ks, i, n + 1) /\ x.k \notin S
  <2>1. n + 1 \in (i + 1)..(n + 1) /\ (n + 2) - 1 = n + 1 /\ n + 1 \in (i + 1)..((n + 2) - 1)
    BY <1>1, <1>3
  <2>2. \A m \in (i + 1)..n : m \in (i + 1)..((n + 2) - 1)
    BY <1>1
  <2>3. Unstopped(S, q, i, n + 1)
    <3>1. (n + 1) - 1 = n
      BY <1>1
    <3> QED
      BY <2>2, <3>1, <1>3 DEF Unstopped
  <2>4. q[n + 1].k \notin S
    BY <2>1, <1>3 DEF Unstopped
  <2> QED
    BY <2>1, <2>3, <2>4, <1>1, <1>2
<1>4. ASSUME NEW i \in 1..(n + 1), q[i].k = "dtry", NEW j \in (i + 1)..(n + 1), Unstopped(S, q, i, j)
      PROVE  ~Leads(S, X, q[j])
  <2>1. i \in 1..n /\ q[i] = ks[i]
    BY <1>1, <1>4
  <2>2. Unstopped(S, ks, i, j)
    BY <2>1, <1>2, <1>4
  <2>3. CASE j = n + 1
    BY <2>1, <2>2, <2>3, <1>1, <1>4 DEF Tame
  <2>4. CASE j # n + 1
    <3>1. j \in (i + 1)..n /\ q[j] = ks[j]
      BY <2>1, <2>4, <1>1
    <3> QED
      BY <3>1, <2>1, <2>2, <1>4 DEF Tame
  <2> QED
    BY <2>3, <2>4
<1>5. ASSUME NEW i \in 1..(n + 1), q[i].k = "dtry", Unstopped(S, q, i, n + 2) PROVE d \notin X
  <2>1. CASE i = n + 1
    BY <2>1, <1>1, <1>5
  <2>2. CASE i # n + 1
    <3>1. i \in 1..n /\ q[i] = ks[i]
      BY <2>2, <1>1
    <3>2. Unstopped(S, ks, i, n + 1) /\ x.k \notin S
      BY <3>1, <1>3, <1>5
    <3>3. c \notin X
      BY <3>1, <3>2, <1>5 DEF Tame
    <3> QED
      BY <3>2, <3>3
  <2> QED
    BY <2>1, <2>2
<1>6. Len(q) + 1 = n + 2
  BY <1>1
<1>7. Tame(S, X, q, d)
  BY <1>1, <1>4, <1>5, <1>6 DEF Tame
<1> QED
  BY <1>7 DEF q

LEMMA TameDisarm ==
    ASSUME Stack(konts), NEW S \in {{"loop", "call"}, {"call"}}, NEW X, NEW c, Tame(S, X, konts, c)
    PROVE  Tame(S, X, Disarmed, c)
<1> DEFINE q == Disarmed
           n == Len(konts)
<1>1. Len(q) = n /\ \A i \in 1..n :
         /\ q[i].node = konts[i].node
         /\ q[i].k = konts[i].k \/ (konts[i].k = "dtry" /\ q[i].k = "popped")
  BY DisarmStack
<1> HIDE DEF q
<1>2. ASSUME NEW i \in 1..n
      PROVE  /\ q[i].k = "dtry" => konts[i].k = "dtry"
             /\ Leads(S, X, q[i]) => Leads(S, X, konts[i])
             /\ q[i].k \in S <=> konts[i].k \in S
  <2>1. CASE q[i].k = konts[i].k
    BY <1>1, <2>1 DEF Leads
  <2>2. CASE konts[i].k = "dtry" /\ q[i].k = "popped"
    BY <1>1, <2>2 DEF Leads
  <2> QED
    BY <1>1, <2>1, <2>2
<1>3. n \in Nat
  BY StackShape
<1>4. ASSUME NEW i \in 1..n, NEW j \in (i + 1)..(n + 1)
      PROVE  Unstopped(S, q, i, j) <=> Unstopped(S, konts, i, j)
  <2>1. \A m \in (i + 1)..(j - 1) : m \in 1..n
    BY <1>3, <1>4
  <2> QED
    BY <2>1, <1>2 DEF Unstopped
<1>5. \A i \in 1..n : /\ n + 1 \in (i + 1)..(n + 1)
                      /\ \A j \in (i + 1)..n : j \in 1..n /\ j \in (i + 1)..(n + 1)
  BY <1>3
<1>6. Tame(S, X, q, c)
  BY <1>1, <1>2, <1>4, <1>5 DEF Tame
<1> QED
  BY <1>6 DEF q

\* Every move keeps such breaks and returns out of the try bodies with a frame.
LEMMA TameMoves ==
    ASSUME Stack(konts), cur \in Stmts, Goes, NEW S \in {{"loop", "call"}, {"call"}}, NEW X,
           Upward(S, X), Tame(S, X, konts, cur),
           \A n \in Stmts : n.op = "try" /\ try_mode(can_throw, n) = "dtry" => n.a \notin X
    PROVE  Tame(S, X, konts', cur')
<1>0. /\ Len(konts) \in Nat /\ Len(konts) \in 1..Len(konts) /\ Len(konts) >= 1
      /\ Nop \in Stmts /\ Nop \notin X /\ "call" \in S
  BY StackShape, StmtsAssumption DEF Upward
<1>before. ASSUME NEW i \in 1..Len(konts), Unstopped(S, konts, i, Len(konts) + 1)
           PROVE  Unstopped(S, konts, i, Len(konts))
  <2>1. \A m \in (i + 1)..(Len(konts) - 1) : m \in (i + 1)..((Len(konts) + 1) - 1)
    BY <1>0
  <2> QED
    BY <2>1, <1>before DEF Unstopped
<1>top. ASSUME Top.k \in {"seq", "loop"} \ S, NEW i \in 1..Len(konts), konts[i].k = "dtry",
               Unstopped(S, konts, i, Len(konts))
        PROVE  Top.node \notin X
  <2>1. i # Len(konts)
    BY <1>top DEF Top
  <2>2. Len(konts) \in (i + 1)..Len(konts)
    BY <2>1, <1>0
  <2>3. ~Leads(S, X, konts[Len(konts)])
    BY <2>2, <1>top DEF Tame
  <2> QED
    BY <2>3, <1>top DEF Leads, Top
<1>1. CASE Stays
  <2>1. konts' = konts
    BY <1>1 DEF Stays
  <2>2. ASSUME NEW i \in 1..Len(konts), konts[i].k = "dtry", Unstopped(S, konts, i, Len(konts) + 1)
        PROVE  cur' \notin X
    <3>1. cur \notin X
      BY <2>2 DEF Tame
    <3>2. CASE cur' = Nop
      BY <3>2, <1>0
    <3>3. CASE cur.op = "if" /\ cur' \in {cur.a, cur.b}
      BY <3>1, <3>3 DEF Upward, Binary
    <3>4. CASE cur = Nop /\ Top.k = "loop" /\ cur' = Top.node.a
      <4>1. Top.node.op = "loop" /\ Top.node \in Stmts
        BY <3>4, StackShape DEF Stack, Nodes, Top
      <4>2. i # Len(konts)
        BY <3>4, <2>2 DEF Top
      <4>3. Len(konts) \in (i + 1)..((Len(konts) + 1) - 1)
        BY <4>2, <1>0
      <4>4. konts[Len(konts)].k \notin S
        BY <4>3, <2>2 DEF Unstopped
      <4>5. "loop" \notin S
        BY <3>4, <4>4 DEF Top
      <4>6. Top.node \notin X
        BY <3>4, <4>5, <2>2, <1>before, <1>top
      <4> QED
        BY <3>4, <4>1, <4>5, <4>6 DEF Upward
    <3> QED
      BY <1>1, <3>2, <3>3, <3>4 DEF Stays
  <2> QED
    BY <2>1, <2>2 DEF Tame
<1>2. CASE Cuts
  <2>1. PICK p \in 1..Len(konts) : konts' = SubSeq(konts, 1, p)
    BY <1>2 DEF Cuts
  <2>2. cur' \notin X
    BY <1>2, <1>0 DEF Cuts
  <2> QED
    BY <2>1, <2>2, TameCut
<1>3. CASE Resumes
  <2>1. Top.k = "seq" /\ konts' = SubSeq(konts, 1, Len(konts) - 1) /\ cur' = Top.node
    BY <1>3 DEF Resumes, Pop, Below
  <2>2. Len(konts) - 1 \in 1..Len(konts) /\ (Len(konts) - 1) + 1 = Len(konts)
    BY <2>1, StackShape
  <2>3. ASSUME NEW i \in 1..(Len(konts) - 1), konts[i].k = "dtry", Unstopped(S, konts, i, Len(konts))
        PROVE  cur' \notin X
    <3>1. i \in 1..Len(konts)
      BY <2>2, <1>0
    <3> QED
      BY <3>1, <2>1, <2>3, <1>top
  <2> QED
    BY <2>1, <2>2, <2>3, TameCut
<1>4. CASE Nests
  <2>1. CASE cur.op = "seq" /\ konts' = Push("seq", cur.b) /\ cur' = cur.a
    <3> DEFINE x == Over(konts[Len(konts)], "seq", cur.b)
    <3>1. cur.b \in Stmts
      BY <2>1, StmtFacts DEF Binary
    <3>2. x.k = "seq" /\ x.node = cur.b
      BY <3>1, PushIs DEF Kinds
    <3>3. konts' = Append(konts, x)
      BY <2>1 DEF Push, Top
    <3> HIDE DEF x
    <3>4. cur \notin X => ~Leads(S, X, x) /\ cur' \notin X
      BY <2>1, <3>2 DEF Leads, Upward, Binary
    <3> QED
      BY <3>2, <3>3, <3>4, TamePush
  <2>2. CASE cur.op = "loop" /\ konts' = Push("loop", cur) /\ cur' = Nop
    <3> DEFINE x == Over(konts[Len(konts)], "loop", cur)
    <3>2. x.k = "loop" /\ x.node = cur
      BY PushIs DEF Kinds
    <3>3. konts' = Append(konts, x)
      BY <2>2 DEF Push, Top
    <3> HIDE DEF x
    <3>4. cur \notin X => ~Leads(S, X, x) /\ cur' \notin X
      BY <2>2, <3>2, <1>0 DEF Leads
    <3> QED
      BY <3>2, <3>3, <3>4, TamePush
  <2>3. CASE cur.op = "try" /\ konts' = Push(try_mode(can_throw, cur), cur) /\ cur' = cur.a
    <3> DEFINE mode == try_mode(can_throw, cur)
               x == Over(konts[Len(konts)], mode, cur)
    <3>1. mode \in {"ntry", "ltry", "dtry"}
      BY ModeIs
    <3>2. mode = "dtry" => cur.a \notin X
      BY <2>3
    <3>3. konts' = Append(konts, x)
      BY <2>3 DEF Push, Top
    <3> HIDE DEF mode
    <3>4. x.k = mode /\ x.node = cur
      BY <3>1, PushIs DEF Kinds
    <3> HIDE DEF x
    <3>5. cur \notin X => ~Leads(S, X, x) /\ cur' \notin X
      BY <2>3, <3>1, <3>4 DEF Leads, Upward, Binary
    <3> QED
      BY <2>3, <3>2, <3>3, <3>4, <3>5, TamePush
  <2> QED
    BY <1>4, <2>1, <2>2, <2>3 DEF Nests
<1>5. CASE CallsIn
  <2> DEFINE x == CallEntry(cur.fn, Len(konts) + 1, Top.lv)
  <2>1. konts' = Append(konts, x)
    BY <1>5 DEF CallsIn
  <2>2. x.k = "call"
    BY CallEntryIs
  <2> HIDE DEF x
  <2>3. ~Leads(S, X, x) /\ x.k \in S
    BY <2>2, <1>0 DEF Leads
  <2> QED
    BY <2>1, <2>2, <2>3, TamePush
<1>6. CASE ReturnsCall
  <2> DEFINE x == CallEntry(cur.fn, Len(konts) + 2, konts[Top.cp].lv)
             r == Over(Disarmed[Len(konts)], "ret", Nop)
  <2>1. konts' = Append(Returning, x)
    BY <1>6 DEF ReturnsCall
  <2>2. x.k = "call"
    BY CallEntryIs
  <2> HIDE DEF x
  <2>3. Stack(Disarmed) /\ Len(Disarmed) = Len(konts)
    BY DisarmStack
  <2>4. Tame(S, X, Disarmed, cur)
    BY TameDisarm
  <2>5. r.k = "ret"
    BY <2>3, <1>0, PushIs DEF Kinds
  <2>6. Returning = Append(Disarmed, r)
    BY DEF Returning
  <2> HIDE DEF r
  <2>7. ~Leads(S, X, r) /\ r.k # "dtry"
    BY <2>5 DEF Leads
  <2>8. Tame(S, X, Returning, cur)
    BY <2>3, <2>4, <2>6, <2>7, TamePush
  <2>9. ~Leads(S, X, x) /\ x.k \in S
    BY <2>2, <1>0 DEF Leads
  <2>10. Stack(Returning)
    BY ReturningStack
  <2> QED
    BY <2>1, <2>2, <2>8, <2>9, <2>10, TamePush
<1>7. CASE Handles
  <2>1. PICK h \in 2..Len(konts) : konts[h].k \in {"ltry", "dtry"} /\ EnterCatch(h)
    BY <1>7 DEF Handles
  <2> DEFINE q == SubSeq(konts, 1, h - 1)
             x == Over(konts[h - 1], "catch", konts[h].node)
  <2>2. konts' = Append(q, x) /\ Stack(q) /\ cur' = konts[h].node.b
    BY <2>1, CatchStack DEF Bodies
  <2>3. x.k = "catch"
    BY DEF Over, Entry
  <2>4. h - 1 \in 1..Len(konts) /\ (h - 1) + 1 = h
    BY <1>0
  <2>5. ASSUME NEW i \in 1..(h - 1), konts[i].k = "dtry", Unstopped(S, konts, i, h)
        PROVE  cur' \notin X
    <3>1. i \in 1..Len(konts) /\ h \in (i + 1)..Len(konts)
      BY <1>0, <2>4
    <3>2. ~Leads(S, X, konts[h])
      BY <3>1, <2>5 DEF Tame
    <3> QED
      BY <3>2, <2>1, <2>2 DEF Leads
  <2>6. Tame(S, X, q, cur')
    BY <2>4, <2>5, TameCut
  <2> HIDE DEF q, x
  <2>7. ~Leads(S, X, x) /\ x.k # "dtry"
    BY <2>3 DEF Leads
  <2>8. cur' \notin X => ~Leads(S, X, x) /\ (x.k \in S \/ cur' \notin X)
    BY <2>7
  <2>9. Tame(S, X, Append(q, x), cur')
    BY <2>2, <2>6, <2>7, <2>8, TamePush
  <2> QED
    BY <2>2, <2>9
<1> QED
  BY <1>1, <1>2, <1>3, <1>4, <1>5, <1>6, <1>7 DEF Goes

\* A try that gets a frame is one of those the condition is about.
LEMMA FramesNeeded ==
    ASSUME FiniteTrees, AInv, NEW T, NEW B \in SUBSET Stmts, NEW R \in SUBSET Stmts,
           StaysIn(T, B, R), NEW n \in Stmts, n.op = "try", try_mode(can_throw, n) = "dtry"
    PROVE  n.a \notin B /\ n.a \notin R
<1> DEFINE ct == can_throw
           du == [f \in Funcs |-> f \in T]
<1>1. "call" \in effect(ct)[n.a] /\ n.a \in Stmts
  BY StmtFacts DEF try_mode, Binary
<1>2. Marked \subseteq T
  BY DEF AInv, StaysIn
<1>3. \A fn \in Listed : ct[fn] => du[fn]
  BY <1>2, FuncFacts DEF Marked
<1>4. effect(ct)[n.a] \subseteq effect(du)[n.a]
  <2> HIDE DEF ct, du
  <2> QED
    BY <1>1, <1>3, EffectGrows
<1> QED
  BY <1>1, <1>4 DEF StaysIn

\* Between a call entry and the top of its activation there is no other call.
LEMMA NoCallAbove ==
    ASSUME Stack(konts), Owned(konts), NEW m \in 1..Len(konts), Top.cp < m
    PROVE  konts[m].k # "call"
<1>1. m \in Top.cp..Len(konts) /\ Top.cp \in Nat /\ m \in Nat
  BY StackShape
<1>2. konts[m].cp = Top.cp
  BY <1>1, StackShape
<1>3. konts[m].k = "call" => konts[m].cp = m
  BY DEF Owned
<1> QED
  BY <1>1, <1>2, <1>3

\* Where the number of frames changes between two entries there is a dynamic try.
LEMMA FrameBetween ==
    ASSUME Stack(konts), NEW t \in 2..Len(konts), konts[t].k = "loop",
           konts[t - 1].lv # Top.lv
    PROVE  \E i \in (t + 1)..Len(konts) : konts[i].k = "dtry"
<1> DEFINE D == {i \in t..Len(konts) : konts[i].lv # konts[t - 1].lv}
<1>0. Len(konts) \in Nat /\ t \in Nat /\ t <= Len(konts) /\ t >= 2 /\ Len(konts) \in t..Len(konts)
  BY StackShape
<1>1. \A i \in 2..Len(konts) :
         konts[i].lv = (IF konts[i].k = "dtry" THEN konts[i-1].lv + 1 ELSE konts[i-1].lv)
  BY DEF Stack, Levels
<1>2. D \in SUBSET Nat /\ Len(konts) \in D
  BY <1>0 DEF Top
<1> HIDE DEF D
<1>3. PICK m \in D : \A j \in D : m <= j
  BY <1>2, LeastMember
<1>4. m \in t..Len(konts) /\ konts[m].lv # konts[t - 1].lv /\ m \in Nat /\ m \in 2..Len(konts)
  BY <1>0, <1>3 DEF D
<1>5. konts[t].lv = konts[t - 1].lv
  BY <1>1
<1>6. m # t /\ m - 1 \in t..Len(konts) /\ m \in (t + 1)..Len(konts) /\ ~(m <= m - 1)
  <2>1. m # t
    BY <1>4, <1>5
  <2> QED
    BY <2>1, <1>0, <1>4
<1>7. konts[m - 1].lv = konts[t - 1].lv
  <2>1. m - 1 \notin D
    BY <1>3, <1>6
  <2> QED
    BY <2>1, <1>6 DEF D
<1>8. konts[m].k = "dtry"
  BY <1>1, <1>4, <1>7
<1> QED
  BY <1>6, <1>8

\* The invariant of such programs.
TInv == /\ QInv
        /\ Owned(konts)
        /\ \E T : \E B, R \in SUBSET Stmts :
              /\ StaysIn(T, B, R)
              /\ status = "run" => /\ Tame({"loop", "call"}, B, konts, cur)
                                   /\ Tame({"call"}, R, konts, cur)

LEMMA TameStarts == FiniteTrees /\ Init /\ StaysInTries => TInv
<1> SUFFICES ASSUME FiniteTrees, Init, StaysInTries PROVE TInv
  OBVIOUS
<1>1. QInv /\ Owned(konts)
  BY LocalStarts DEF LInv
<1>2. status = "analyze"
  BY DEF Init
<1> QED
  BY <1>1, <1>2 DEF TInv, StaysInTries

LEMMA TameStep ==
    ASSUME FiniteTrees, TInv, [Next]_vars
    PROVE  TInv'
<1>0. QInv /\ AInv /\ cur \in Stmts /\ Stack(konts) /\ prog \in Programs /\ Owned(konts)
  BY DEF TInv, QInv, AInv
<1>q. QInv'
  BY <1>0, QuietStep
<1>t. PICK T : \E B, R \in SUBSET Stmts :
         /\ StaysIn(T, B, R)
         /\ status = "run" => Tame({"loop", "call"}, B, konts, cur) /\ Tame({"call"}, R, konts, cur)
  BY DEF TInv
<1>b. PICK B \in SUBSET Stmts, R \in SUBSET Stmts :
         /\ StaysIn(T, B, R)
         /\ status = "run" => Tame({"loop", "call"}, B, konts, cur) /\ Tame({"call"}, R, konts, cur)
  BY <1>t
<1>same. ASSUME prog' = prog PROVE StaysIn(T, B, R)'
  <2>1. Closed(T)' <=> Closed(T)
    BY <1>same DEF Closed
  <2> QED
    BY <2>1, <1>b DEF StaysIn
<1>done. ASSUME prog' = prog, Owned(konts'),
                status' = "run" => /\ Tame({"loop", "call"}, B, konts', cur')
                                   /\ Tame({"call"}, R, konts', cur')
         PROVE  TInv'
  <2>1. StaysIn(T, B, R)'
    BY <1>same, <1>done
  <2>2. Owned(konts)'
    BY <1>done
  <2>3. /\ Tame({"loop", "call"}, B, konts, cur)' <=> Tame({"loop", "call"}, B, konts', cur')
        /\ Tame({"call"}, R, konts, cur)' <=> Tame({"call"}, R, konts', cur')
    OBVIOUS
  <2> QED
    BY <1>q, <1>done, <2>1, <2>2, <2>3 DEF TInv
<1>1. CASE Run
  <2>1. status = "run" /\ prog' = prog
    BY <1>1 DEF Run
  <2>2. Tame({"loop", "call"}, B, konts, cur) /\ Tame({"call"}, R, konts, cur)
    BY <2>1, <1>b
  <2>3. CASE Goes /\ status' = "run"
    <3>1. Owned(konts')
      BY <1>0, <2>3, OwnedMoves
    <3>2. \A n \in Stmts : n.op = "try" /\ try_mode(can_throw, n) = "dtry" => n.a \notin B /\ n.a \notin R
      BY <1>0, <1>b, FramesNeeded
    <3>3. Upward({"loop", "call"}, B) /\ Upward({"call"}, R)
      BY <1>b DEF StaysIn
    <3>4. Tame({"loop", "call"}, B, konts', cur')
      BY <1>0, <2>2, <2>3, <3>2, <3>3, TameMoves
    <3>5. Tame({"call"}, R, konts', cur')
      BY <1>0, <2>2, <2>3, <3>2, <3>3, TameMoves
    <3> QED
      BY <2>1, <3>1, <3>4, <3>5, <1>done
  <2>4. CASE Ends
    BY <1>0, <2>1, <2>4, <1>done DEF Ends
  <2> QED
    BY <1>0, <1>1, <2>3, <2>4, Moves
<1>2. CASE Analyze
  <2>1. status = "analyze" /\ UNCHANGED <<prog, konts, cur>>
    BY <1>2 DEF Analyze, AnalyzeFn, AnalyzeAgain, AnalyzeDone
  <2>2. konts = <<CallEntry(Startup, 1, 0)>>
    BY <1>0, <2>1 DEF QInv
  <2>3. \A i \in 1..Len(konts') : konts'[i].k # "dtry"
    <3>1. \A i \in 1..Len(konts') : i = 1
      BY <2>1, <2>2, StartStack
    <3> QED
      BY <2>1, <2>2, <3>1, StartStack
  <2>4. Tame({"loop", "call"}, B, konts', cur') /\ Tame({"call"}, R, konts', cur')
    BY <2>3 DEF Tame
  <2> QED
    BY <1>0, <2>1, <2>4, <1>done
<1>3. CASE UNCHANGED vars
  <2>1. UNCHANGED <<prog, status, cur, konts>>
    BY <1>3 DEF vars
  <2> QED
    BY <1>0, <1>b, <2>1, <1>done
<1> QED
  BY <1>1, <1>2, <1>3 DEF Next, Ended

\* Neither a break nor the return of a throwing call leaves a dynamic try.
LEMMA TameStays ==
    ASSUME FiniteTrees, TInv
    PROVE  ~BreakLeavesTry /\ ~ReturnLosesTry
<1>0. QInv /\ AInv /\ cur \in Stmts /\ Stack(konts) /\ Owned(konts)
      /\ Len(konts) \in Nat /\ DOMAIN konts = 1..Len(konts) /\ Top.cp \in 1..Len(konts)
  BY StackShape DEF TInv, QInv
<1>b. PICK T, B, R : /\ StaysIn(T, B, R)
                     /\ status = "run" => /\ Tame({"loop", "call"}, B, konts, cur)
                                          /\ Tame({"call"}, R, konts, cur)
  BY DEF TInv
<1>1. ASSUME BreakLeavesTry PROVE FALSE
  <2> DEFINE t == Topmost(Loops)
  <2>1. Loops \in SUBSET (1..Len(konts)) /\ Loops # {}
    BY <1>0, <1>1 DEF BreakLeavesTry, Loops
  <2>2. t \in Loops /\ \A j \in Loops : j <= t
    BY <1>0, <2>1, TopmostExists
  <2>3. konts[t - 1].lv # Top.lv
    BY <1>1 DEF BreakLeavesTry
  <2> HIDE DEF t
  <2>4. t \in 1..Len(konts) /\ Top.cp < t /\ konts[t].k = "loop" /\ t \in 2..Len(konts)
    <3>1. t \in 1..Len(konts) /\ Top.cp < t /\ konts[t].k = "loop"
      BY <1>0, <2>2 DEF Loops
    <3> QED
      BY <1>0, <3>1
  <2>5. PICK i \in (t + 1)..Len(konts) : konts[i].k = "dtry"
    BY <1>0, <2>3, <2>4, FrameBetween
  <2>6. i \in 1..Len(konts) /\ i > t /\ (Len(konts) + 1) - 1 = Len(konts)
    BY <1>0, <2>4
  <2>7. ASSUME NEW m \in (i + 1)..Len(konts) PROVE konts[m].k \notin {"loop", "call"}
    <3>1. m \in 1..Len(konts) /\ Top.cp < m /\ ~(m <= t)
      BY <1>0, <2>4, <2>6
    <3>2. m \notin Loops
      BY <2>2, <3>1
    <3>3. konts[m].k # "loop"
      BY <1>0, <3>1, <3>2 DEF Loops
    <3> QED
      BY <1>0, <3>1, <3>3, NoCallAbove
  <2>8. Unstopped({"loop", "call"}, konts, i, Len(konts) + 1)
    BY <2>6, <2>7 DEF Unstopped
  <2>9. cur \notin B
    BY <1>1, <1>b, <2>5, <2>6, <2>8 DEF Tame, BreakLeavesTry
  <2> QED
    BY <1>0, <1>1, <1>b, <2>9 DEF StaysIn, BreakLeavesTry
<1>2. ASSUME ReturnLosesTry PROVE FALSE
  <2>1. PICK i \in Armed : Top.cp < i
    BY <1>2 DEF ReturnLosesTry
  <2>2. i \in 1..Len(konts) /\ konts[i].k = "dtry" /\ (Len(konts) + 1) - 1 = Len(konts)
    BY <1>0 DEF Armed
  <2>3. ASSUME NEW m \in (i + 1)..Len(konts) PROVE konts[m].k \notin {"call"}
    <3>1. m \in 1..Len(konts) /\ Top.cp < m
      BY <1>0, <2>1, <2>2
    <3> QED
      BY <1>0, <3>1, NoCallAbove
  <2>4. Unstopped({"call"}, konts, i, Len(konts) + 1)
    BY <2>2, <2>3 DEF Unstopped
  <2>5. cur \notin R /\ cur.op = "retcall" /\ can_throw[cur.fn]
    BY <1>2, <1>b, <2>2, <2>4 DEF Tame, ReturnLosesTry
  <2>6. cur.fn \in Funcs /\ cur.fn # Startup
    BY <1>0, <2>5, StmtFacts DEF Calls
  <2>7. cur.fn \in T
    BY <1>0, <1>b, <2>5, <2>6 DEF AInv, Marked, StaysIn
  <2> QED
    BY <1>0, <1>b, <2>5, <2>7 DEF StaysIn
<1> QED
  BY <1>1, <1>2

\* What the two conditions on behaviours come to in the source: if no break and
\* no return of a call that can throw stands inside a try body out of which an
\* exception of a call can come, none ever leaves a dynamic try.
THEOREM SourceStaysInTries ==
    ASSUME FiniteTrees
    PROVE  Spec /\ StaysInTries => [](~BreakLeavesTry /\ ~ReturnLosesTry)
<1>1. Init /\ StaysInTries => TInv
  BY TameStarts
<1>2. TInv /\ [Next]_vars => TInv'
  BY TameStep
<1>3. TInv => ~BreakLeavesTry /\ ~ReturnLosesTry
  BY TameStays
<1> QED
  BY <1>1, <1>2, <1>3, PTL DEF Spec

\* So for every program whose source stays in its tries: the frames match the C
\* stack, throw never jumps to a dead frame, and the code that the backends emit
\* implements the handler search of the language.
THEOREM SourceImplementsSearch ==
    ASSUME FiniteTrees
    PROVE  Spec /\ StaysInTries =>
             /\ [](TypeOK /\ FramesMatchStack /\ NoWildJump)
             /\ InnermostHandler /\ ImplementsHandlerSearch
<1>1. Spec /\ StaysInTries => [](~BreakLeavesTry /\ ~ReturnLosesTry)
  BY SourceStaysInTries
<1>2. Spec /\ []~BreakLeavesTry /\ []~ReturnLosesTry => InnermostHandler
  BY InnermostReceives
<1>3. Spec /\ []~BreakLeavesTry /\ []~ReturnLosesTry => ImplementsHandlerSearch
  BY LoweringImplementsSearch
<1> QED
  BY <1>1, <1>2, <1>3, TypeCorrect, FramesAlwaysMatch, NeverWild, PTL
-----------------------------------------------------------------------------
(* Consumption.  Fs->catch_except is one flag for all the catch blocks     *)
(* executing; claimed (ExcConsumption) remembers which of them set it.     *)

\* The statement about to run consumes an exception while two catch blocks are
\* executing: the outer one will find the flag of the inner one.
NestedConsumption ==
    /\ status = "run"
    /\ cur.op = "except" /\ cur.v
    /\ \E i, j \in DOMAIN konts : i # j /\ konts[i].k = "catch" /\ konts[j].k = "catch"

\* The operand of a return is a call, and nothing runs once it has ended.
Operands(ks, c) ==
    \A i \in 1..Len(ks) : ks[i].k = "ret" =>
       IF i = Len(ks) THEN c = Nop ELSE ks[i + 1].k = "call"

\* The catch block has set the flag itself, or its activation is returning.
Settled(ks, S, p) == \/ p \in S
                     \/ \E q \in (p + 1)..Len(ks) : ks[q].k = "ret" /\ ks[q].cp = ks[p].cp

\* While the flag is set, every catch block executing has set it or will not end.
CInv == /\ prog \in Programs /\ cur \in Stmts
        /\ Stack(konts) /\ Owned(konts) /\ Operands(konts, cur)
        /\ catch_except =>
              \A p \in 1..Len(konts) : konts[p].k = "catch" => Settled(konts, claimed, p)

\* Nop is no statement of another form.
LEMMA NopIs == Nop.op = "nop"
BY DEF Nop

LEMMA OperandsCut ==
    ASSUME NEW ks, Stack(ks), NEW c, Operands(ks, c), NEW p \in 1..Len(ks), NEW d,
           ks[p].k = "ret" => d = Nop
    PROVE  Operands(SubSeq(ks, 1, p), d)
<1> DEFINE q == SubSeq(ks, 1, p)
<1>1. Len(q) = p /\ \A i \in 1..p : q[i] = ks[i]
  BY PrefixIs DEF Stack
<1>2. Len(ks) \in Nat /\ p \in Nat /\ p <= Len(ks)
  BY DEF Stack
<1> HIDE DEF q
<1>3. ASSUME NEW i \in 1..p, q[i].k = "ret" PROVE IF i = p THEN d = Nop ELSE q[i + 1].k = "call"
  <2>1. CASE i = p
    BY <1>1, <1>3, <2>1
  <2>2. CASE i # p
    <3>1. i + 1 \in 1..p /\ i \in 1..Len(ks) /\ i # Len(ks) /\ q[i] = ks[i] /\ q[i + 1] = ks[i + 1]
      BY <1>1, <1>2, <2>2
    <3> QED
      BY <2>2, <3>1, <1>3 DEF Operands
  <2> QED
    BY <2>1, <2>2
<1>4. Operands(q, d)
  BY <1>1, <1>3 DEF Operands
<1> QED
  BY <1>4 DEF q

LEMMA OperandsPush ==
    ASSUME NEW ks, Stack(ks), NEW c, Operands(ks, c), NEW x, NEW d,
           ks[Len(ks)].k = "ret" => x.k = "call",
           x.k = "ret" => d = Nop
    PROVE  Operands(Append(ks, x), d)
<1> DEFINE q == Append(ks, x)
           n == Len(ks)
<1>1. n \in Nat /\ Len(q) = n + 1 /\ q[n + 1] = x /\ \A i \in 1..n : q[i] = ks[i]
  BY AppendIs
<1> HIDE DEF q
<1>2. ASSUME NEW i \in 1..(n + 1), q[i].k = "ret"
      PROVE  IF i = n + 1 THEN d = Nop ELSE q[i + 1].k = "call"
  <2>1. CASE i = n + 1
    BY <1>1, <1>2, <2>1
  <2>2. CASE i = n
    <3>1. n # n + 1 /\ q[n] = ks[n]
      BY <1>1, <1>2, <2>2
    <3> QED
      BY <1>1, <1>2, <2>2, <3>1
  <2>3. CASE i \notin {n, n + 1}
    <3>1. i \in 1..n /\ i + 1 \in 1..n /\ q[i] = ks[i] /\ q[i + 1] = ks[i + 1]
      BY <1>1, <2>3
    <3> QED
      BY <2>3, <3>1, <1>2 DEF Operands
  <2> QED
    BY <2>1, <2>2, <2>3
<1>3. Operands(q, d)
  BY <1>1, <1>2 DEF Operands
<1> QED
  BY <1>3 DEF q

\* Every move keeps the operands of returns where they are.
LEMMA OperandsMoves ==
    ASSUME Stack(konts), Operands(konts, cur), cur \in Stmts, prog \in Programs, Goes
    PROVE  Operands(konts', cur')
<1>0. /\ Len(konts) \in Nat /\ Len(konts) >= 1 /\ Len(konts) \in 1..Len(konts) /\ Nop \in Stmts
  BY StmtsAssumption, StackShape
<1>1. Top.k = "ret" => cur = Nop
  BY <1>0 DEF Operands, Top
<1>push. ASSUME NEW k \in Kinds, k \notin {"call", "ret"}, NEW node \in Stmts, konts' = Push(k, node),
                Top.k # "ret"
         PROVE  Operands(konts', cur')
  <2> DEFINE x == Over(konts[Len(konts)], k, node)
  <2>1. x.k = k
    BY PushIs
  <2>2. konts' = Append(konts, x)
    BY <1>push DEF Push, Top
  <2> HIDE DEF x
  <2> QED
    BY <2>1, <2>2, <1>push, OperandsPush DEF Top
<1>2. CASE Stays
  <2>1. Top.k = "ret" => cur' = Nop
    BY <1>1, <1>2, NopIs DEF Stays
  <2> QED
    BY <1>0, <1>2, <2>1 DEF Stays, Operands, Top
<1>3. CASE Cuts
  BY <1>3, OperandsCut DEF Cuts
<1>4. CASE Resumes
  <2> DEFINE p == Len(konts) - 1
  <2>1. konts' = SubSeq(konts, 1, p) /\ cur' = Top.node /\ Top.k = "seq"
    BY <1>4 DEF Resumes, Pop, Below
  <2>2. Len(konts) >= 2
    BY <2>1, StackShape
  <2>3. p \in 1..Len(konts) /\ p # Len(konts) /\ p + 1 = Len(konts)
    BY <1>0, <2>2
  <2> HIDE DEF p
  <2>4. konts[p].k # "ret"
    <3>1. konts[p + 1].k = "seq"
      BY <2>1, <2>3 DEF Top
    <3> QED
      BY <2>3, <3>1 DEF Operands
  <2> QED
    BY <2>1, <2>3, <2>4, OperandsCut
<1>5. CASE Nests
  <2>kinds. \A k \in {"seq", "loop", "ntry", "ltry", "dtry"} : k \in Kinds /\ k \notin {"call", "ret"}
    BY DEF Kinds
  <2>top. Top.k # "ret"
    BY <1>1, <1>5, NopIs DEF Nests
  <2>1. CASE cur.op = "seq" /\ konts' = Push("seq", cur.b)
    <3>1. cur.b \in Stmts
      BY <2>1, StmtFacts DEF Binary
    <3> QED
      BY <2>1, <2>top, <3>1, <2>kinds, <1>push
  <2>2. CASE konts' = Push("loop", cur)
    BY <2>2, <2>top, <2>kinds, <1>push
  <2>3. CASE konts' = Push(try_mode(can_throw, cur), cur)
    <3>1. try_mode(can_throw, cur) \in Kinds /\ try_mode(can_throw, cur) \notin {"call", "ret"}
      BY <2>kinds, ModeIs
    <3> QED
      BY <2>3, <2>top, <3>1, <1>push
  <2> QED
    BY <1>5, <2>1, <2>2, <2>3 DEF Nests
<1>6. CASE CallsIn
  <2> DEFINE x == CallEntry(cur.fn, Len(konts) + 1, Top.lv)
  <2>1. konts' = Append(konts, x)
    BY <1>6 DEF CallsIn
  <2>2. x.k = "call"
    BY CallEntryIs
  <2> HIDE DEF x
  <2> QED
    BY <2>1, <2>2, OperandsPush
<1>7. CASE ReturnsCall
  <2> DEFINE x == CallEntry(cur.fn, Len(konts) + 2, konts[Top.cp].lv)
             q == Disarmed
             r == Over(q[Len(konts)], "ret", Nop)
  <2>1. konts' = Append(Returning, x)
    BY <1>7 DEF ReturnsCall
  <2>2. x.k = "call"
    BY CallEntryIs
  <2> HIDE DEF x
  <2>top. Top.k # "ret"
    BY <1>1, <1>7, NopIs DEF ReturnsCall
  <2>3. Stack(q) /\ Len(q) = Len(konts)
        /\ \A i \in 1..Len(konts) : q[i].k = konts[i].k \/ (konts[i].k = "dtry" /\ q[i].k = "popped")
    BY DisarmStack
  <2>4. Returning = Append(q, r)
    BY DEF Returning
  <2>5. r.k = "ret"
    BY DEF Over, Entry
  <2> HIDE DEF q, r
  <2>6. q[Len(q)].k # "ret"
    BY <1>0, <2>3, <2>top DEF Top
  <2>7. Operands(q, Nop)
    <3>1. ASSUME NEW i \in 1..Len(q), q[i].k = "ret" PROVE i # Len(q) /\ q[i + 1].k = "call"
      <4>1. i # Len(q)
        BY <2>6, <3>1
      <4>2. i \in 1..Len(konts) /\ i + 1 \in 1..Len(konts) /\ i # Len(konts)
        BY <4>1, <2>3, <1>0
      <4>3. konts[i].k = "ret"
        BY <2>3, <3>1, <4>2
      <4>4. konts[i + 1].k = "call"
        BY <4>2, <4>3 DEF Operands
      <4> QED
        BY <2>3, <4>1, <4>2, <4>4
    <3> QED
      BY <3>1 DEF Operands
  <2>8. Operands(Returning, Nop)
    BY <2>3, <2>4, <2>6, <2>7, OperandsPush
  <2>9. Stack(Returning)
    BY ReturningStack
  <2> QED
    BY <2>1, <2>2, <2>8, <2>9, OperandsPush
<1>8. CASE Handles
  <2>1. PICK h \in 2..Len(konts) : konts[h].k \in {"ltry", "dtry"} /\ EnterCatch(h)
    BY <1>8 DEF Handles
  <2> DEFINE q == SubSeq(konts, 1, h - 1)
             x == Over(konts[h - 1], "catch", konts[h].node)
  <2>2. konts' = Append(q, x) /\ Stack(q)
    BY <2>1, CatchStack DEF Bodies
  <2>3. h - 1 \in 1..Len(konts) /\ h - 1 # Len(konts) /\ (h - 1) + 1 = h
    BY <1>0
  <2>4. konts[h - 1].k # "ret"
    BY <2>1, <2>3 DEF Operands
  <2>5. Operands(q, Nop) /\ Len(q) = h - 1 /\ q[h - 1] = konts[h - 1]
    BY <2>3, <2>4, OperandsCut, PrefixIs DEF Stack
  <2>6. x.k = "catch"
    BY DEF Over, Entry
  <2> HIDE DEF q, x
  <2> QED
    BY <2>2, <2>4, <2>5, <2>6, OperandsPush
<1> QED
  BY <1>2, <1>3, <1>4, <1>5, <1>6, <1>7, <1>8 DEF Goes

\* The step that handles an exception clears the flag.
LEMMA HandlesResets ==
    ASSUME Stack(konts), Run, Handles
    PROVE  ~catch_except'
<1>1. PICK h \in 2..Len(konts) : konts[h].k \in {"ltry", "dtry"} /\ EnterCatch(h)
  BY DEF Handles
<1>2. Len(konts') = h /\ konts'[h].k = "catch"
  BY <1>1, CatchStack DEF Bodies
<1>3. konts' # konts
  BY <1>1, <1>2
<1>4. Top.k = "catch" => konts' # Pop
  <2>1. ASSUME konts' = Pop, Top.k = "catch" PROVE FALSE
    <3>1. Len(konts) - 1 \in 1..Len(konts) /\ konts \in Seq(StackEntry)
      <4>1. Len(konts) \in Nat /\ Len(konts) >= 2 /\ konts \in Seq(StackEntry)
        BY <2>1, StackShape
      <4> QED
        BY <4>1
    <3>2. konts' = SubSeq(konts, 1, Len(konts) - 1)
      BY <2>1 DEF Pop, Below
    <3>3. konts'[h] = konts[h]
      BY <1>2, <3>1, <3>2, PrefixIs
    <3> QED
      BY <1>1, <1>2, <3>3
  <2> QED
    BY <2>1
<1>5. CASE cur.op \in {"throw", "throwx", "call", "icall"}
  <2>1. ExecThrow \/ ExecThrowExpr \/ ExecExtern \/ ExecCall \/ StackOverflow
    BY <1>5, NopIs DEF Run, Resume, ExecThrow, ExecThrowExpr, ExecSeq, ExecIf, ExecLoop, ExecExcept,
       ExecBreak, ExecExtern, ExecCall, ExecReturn, ExecReturnCall, StackOverflow, ExecTry
  <2>2. CASE ExecThrow
    BY <2>2 DEF ExecThrow, emit_throw, rt_throw
  <2>3. CASE ExecThrowExpr
    BY <2>3 DEF ExecThrowExpr, rt_throw
  <2>4. CASE ExecExtern
    BY <1>3, <2>4 DEF ExecExtern, Goto, rt_throw
  <2>5. CASE ExecCall \/ StackOverflow
    <3>1. CASE StackOverflow
      BY <1>3, <3>1 DEF StackOverflow, Stop
    <3>2. CASE ExecCall
      <4>1. konts' = Append(konts, CallEntry(cur.fn, Len(konts) + 1, Top.lv))
        BY <3>2 DEF ExecCall, Goto
      <4>2. Len(konts') = Len(konts) + 1 /\ Len(konts) \in Nat
        BY <4>1, AppendIs
      <4> QED
        BY <1>2, <4>2
    <3> QED
      BY <2>5, <3>1, <3>2
  <2> QED
    BY <2>1, <2>2, <2>3, <2>4, <2>5
<1>6. CASE cur = Nop /\ Top.k = "catch"
  <2>1. EndCatch
    BY <1>6, NopIs DEF Run, Resume, ExecThrow, ExecThrowExpr, ExecSeq, ExecIf, ExecLoop, ExecExcept,
       ExecBreak, ExecExtern, ExecCall, ExecReturn, ExecReturnCall, StackOverflow, ExecTry, Calls,
       EndSeq, EndLoopBody, EndTry, EndOperand, EndCall
  <2>2. ~catch_except /\ emit_rethrow
    BY <1>4, <1>6, <2>1 DEF EndCatch, Goto
  <2> QED
    BY <2>2 DEF emit_rethrow, rt_throw, Fs
<1> QED
  BY <1>5, <1>6 DEF Handles, Raises

LEMMA FlagSame == UNCHANGED Fs => catch_except' = catch_except
BY DEF Fs

\* The flag gets set by its assignment only.
LEMMA FlagMoves ==
    ASSUME Run, catch_except'
    PROVE  IF cur.op = "except" THEN cur.v /\ konts' = konts ELSE catch_except
<1>1. CASE cur.op = "except"
  <2>1. ExecExcept
    BY <1>1, NopIs DEF Run, Resume, ExecThrow, ExecThrowExpr, ExecSeq, ExecIf, ExecLoop, ExecExcept,
       ExecBreak, ExecExtern, ExecCall, ExecReturn, ExecReturnCall, StackOverflow, ExecTry, Calls
  <2> QED
    BY <1>1, <2>1 DEF ExecExcept, PutExcept, Goto
<1>2. CASE cur.op # "except"
  <2>1. ASSUME NEW ch, rt_throw(ch) PROVE ~catch_except'
    BY <2>1 DEF rt_throw
  <2>2. ASSUME ExecThrow \/ ExecThrowExpr PROVE ~catch_except'
    BY <2>1, <2>2 DEF ExecThrow, ExecThrowExpr, emit_throw
  <2>3. ASSUME ExecExtern PROVE ~catch_except' \/ UNCHANGED Fs
    BY <2>1, <2>3 DEF ExecExtern
  <2>4. ASSUME ExecSeq \/ ExecIf \/ ExecLoop \/ ExecBreak \/ ExecCall \/ ExecReturn \/ ExecReturnCall
               \/ StackOverflow \/ ExecTry
        PROVE  UNCHANGED Fs
    BY <2>4 DEF ExecSeq, ExecIf, ExecLoop, ExecBreak, ExecCall, ExecReturn, ExecReturnCall,
       StackOverflow, ExecTry
  <2>5. ASSUME EndSeq \/ EndLoopBody \/ EndTry \/ EndOperand \/ EndCall PROVE UNCHANGED Fs
    BY <2>5 DEF EndSeq, EndLoopBody, EndTry, EndOperand, EndCall
  <2>6. ASSUME EndCatch PROVE ~catch_except' \/ UNCHANGED Fs
    BY <2>1, <2>6 DEF EndCatch, emit_rethrow
  <2>7. ~catch_except' \/ UNCHANGED Fs
    BY <1>2, <2>2, <2>3, <2>4, <2>5, <2>6 DEF Run, Resume, ExecExcept
  <2>8. UNCHANGED Fs
    BY <2>7, Zenon
  <2>9. catch_except' = catch_except
    BY <2>8, FlagSame, Zenon
  <2>10. catch_except
    BY <2>9, Zenon
  <2> QED
    BY <1>2, <2>10
<1> QED
  BY <1>1, <1>2

\* A step that handles no exception leaves every catch block settled that was.
LEMMA SettledMoves ==
    ASSUME Stack(konts), Owned(konts), Operands(konts, cur), cur \in Stmts, prog \in Programs,
           Goes, ~Handles, NEW S,
           \A p \in 1..Len(konts) : konts[p].k = "catch" => Settled(konts, S, p)
    PROVE  \A p \in 1..Len(konts') : konts'[p].k = "catch" =>
              Settled(konts', {i \in S : i \in DOMAIN konts' /\ konts'[i] = konts[i]}, p)
<1> DEFINE K == {i \in S : i \in DOMAIN konts' /\ konts'[i] = konts[i]}
           n == Len(konts)
<1>0. /\ n \in Nat /\ n >= 1 /\ n \in 1..n /\ Nop \in Stmts /\ Top.cp \in 1..n
      /\ Top = konts[n] /\ konts[Top.cp].k = "call"
      /\ Stack(konts') /\ DOMAIN konts' = 1..Len(konts') /\ Len(konts') \in Nat
  <2>1. Stack(konts')
    BY StackMoves
  <2>2. DOMAIN konts' = 1..Len(konts') /\ Len(konts') \in Nat
    BY <2>1 DEF Stack
  <2> QED
    BY <2>1, <2>2, StmtsAssumption, StackShape DEF Top
<1>cut. ASSUME NEW c \in 1..n, konts' = SubSeq(konts, 1, c),
               \A q \in 1..c : \A r \in (c + 1)..n :
                  konts[q].k = "catch" /\ konts[r].k = "ret" => konts[r].cp # konts[q].cp,
               NEW p \in 1..Len(konts'), konts'[p].k = "catch"
        PROVE  Settled(konts', K, p)
  <2>1. Len(konts') = c /\ (\A i \in 1..c : konts'[i] = konts[i]) /\ c \in Nat /\ c <= n
    BY <1>0, <1>cut, PrefixIs DEF Stack
  <2>2. p \in 1..c /\ p \in 1..n /\ konts'[p] = konts[p]
    BY <2>1, <1>0
  <2>3. CASE p \in S
    BY <1>0, <2>2, <2>3 DEF Settled
  <2>4. CASE p \notin S
    <3>1. PICK r \in (p + 1)..n : konts[r].k = "ret" /\ konts[r].cp = konts[p].cp
      BY <1>cut, <2>2, <2>4 DEF Settled
    <3>2. r \notin (c + 1)..n
      BY <1>cut, <2>2, <3>1
    <3>3. r \in (p + 1)..c /\ r \in 1..c
      BY <1>0, <2>1, <2>2, <3>1, <3>2
    <3>4. konts'[r].k = "ret" /\ konts'[r].cp = konts'[p].cp
      BY <2>1, <2>2, <3>1, <3>3
    <3> QED
      BY <2>1, <3>3, <3>4 DEF Settled
  <2> QED
    BY <2>3, <2>4
<1>push. ASSUME NEW x, konts' = Append(konts, x), x.k # "catch",
                NEW p \in 1..Len(konts'), konts'[p].k = "catch"
         PROVE  Settled(konts', K, p)
  <2>1. Len(konts') = n + 1 /\ konts'[n + 1] = x /\ \A i \in 1..n : konts'[i] = konts[i]
    BY <1>push, AppendIs
  <2>2. p \in 1..n /\ konts'[p] = konts[p] /\ p \in DOMAIN konts'
    BY <1>0, <1>push, <2>1
  <2>3. CASE p \in S
    BY <2>2, <2>3 DEF Settled
  <2>4. CASE p \notin S
    <3>1. PICK r \in (p + 1)..n : konts[r].k = "ret" /\ konts[r].cp = konts[p].cp
      BY <1>push, <2>2, <2>4 DEF Settled
    <3>2. r \in 1..n /\ r \in (p + 1)..Len(konts')
      BY <1>0, <2>1, <2>2, <3>1
    <3>3. konts'[r].k = "ret" /\ konts'[r].cp = konts'[p].cp
      BY <2>1, <2>2, <3>1, <3>2
    <3> QED
      BY <3>2, <3>3 DEF Settled
  <2> QED
    BY <2>3, <2>4
<1>1. CASE Stays
  <2>1. konts' = konts
    BY <1>1 DEF Stays
  <2> QED
    BY <1>0, <2>1 DEF Settled
<1>2. CASE Cuts
  <2>1. PICK c \in 1..n : /\ konts' = SubSeq(konts, 1, c)
                          /\ Top.cp <= c \/ (Top.k = "call" /\ c = n - 1)
                          /\ cur = Nop /\ Top.k = "ret" => c = Top.cp
    BY <1>2 DEF Cuts
  <2>2. ASSUME NEW q \in 1..c, NEW r \in (c + 1)..n,
               konts[q].k = "catch", konts[r].k = "ret", konts[r].cp = konts[q].cp
        PROVE  FALSE
    <3>1. c \in Nat /\ r \in 1..n /\ q \in 1..n /\ r > c
      BY <1>0
    <3>2. Top.cp <= c
      <4>1. ASSUME Top.k = "call", c = n - 1 PROVE FALSE
        <5>1. r = n
          BY <1>0, <3>1, <4>1
        <5> QED
          BY <1>0, <2>2, <4>1, <5>1
      <4> QED
        BY <2>1, <4>1
    <3>3. r \in Top.cp..n
      BY <1>0, <3>1, <3>2
    <3>4. konts[r].cp = Top.cp
      BY <3>3, StackShape
    <3>5. r = n
      <4>1. ASSUME r # n PROVE FALSE
        <5>1. r + 1 \in 1..n /\ Top.cp < r + 1
          BY <1>0, <3>1, <3>3, <4>1
        <5>2. konts[r + 1].k = "call"
          BY <2>2, <3>1, <4>1 DEF Operands
        <5> QED
          BY <5>1, <5>2, NoCallAbove
      <4> QED
        BY <4>1
    <3>6. cur = Nop /\ Top.k = "ret"
      BY <1>0, <2>2, <3>5 DEF Operands
    <3>7. c = Top.cp
      BY <2>1, <3>6
    <3>8. konts[q].cp \in 1..q
      BY <3>1 DEF Stack, Activations
    <3>9. q = Top.cp
      BY <1>0, <2>2, <3>4, <3>7, <3>8
    <3> QED
      BY <1>0, <2>2, <3>9
  <2> QED
    BY <2>1, <2>2, <1>cut
<1>3. CASE Resumes
  <2> DEFINE c == n - 1
  <2>1. konts' = SubSeq(konts, 1, c) /\ Top.k = "seq"
    BY <1>3 DEF Resumes, Pop, Below
  <2>2. n >= 2
    BY <2>1, StackShape
  <2>3. c \in 1..n /\ \A r \in (c + 1)..n : r = n
    BY <1>0, <2>2
  <2> HIDE DEF c
  <2>4. \A r \in (c + 1)..n : konts[r].k # "ret"
    BY <1>0, <2>1, <2>3
  <2> QED
    BY <2>1, <2>3, <2>4, <1>cut
<1>4. CASE Nests
  <2>1. PICK k \in {"seq", "loop", "ntry", "ltry", "dtry"}, node \in Stmts : konts' = Push(k, node)
    <3>1. CASE cur.op = "seq" /\ konts' = Push("seq", cur.b)
      BY <3>1, StmtFacts DEF Binary
    <3>2. CASE cur.op = "loop" /\ konts' = Push("loop", cur)
      BY <3>2
    <3>3. CASE konts' = Push(try_mode(can_throw, cur), cur)
      BY <3>3, ModeIs
    <3> QED
      BY <1>4, <3>1, <3>2, <3>3 DEF Nests
  <2>2. k \in Kinds /\ k # "catch"
    BY DEF Kinds
  <2>3. Over(konts[n], k, node).k = k
    BY <2>2, PushIs
  <2> QED
    BY <2>1, <2>2, <2>3, <1>push DEF Push, Top
<1>5. CASE CallsIn
  BY <1>5, <1>push, CallEntryIs DEF CallsIn
<1>6. CASE ReturnsCall
  <2> DEFINE x == CallEntry(cur.fn, n + 2, konts[Top.cp].lv)
             R == Returning
  <2>1. konts' = Append(R, x) /\ x.k = "call"
    BY <1>6, CallEntryIs DEF ReturnsCall
  <2> HIDE DEF x
  <2>2. Stack(R) /\ Len(R) = n + 1 /\ R[n + 1].k = "ret" /\ R[n + 1].cp = Top.cp
        /\ \A i \in 1..n : R[i] = Disarmed[i]
    BY ReturningStack
  <2>3. /\ \A i \in 1..Top.cp : Disarmed[i] = konts[i]
        /\ \A i \in 1..n : /\ Disarmed[i].cp = konts[i].cp
                           /\ Disarmed[i].k = (IF i > Top.cp /\ konts[i].k = "dtry" THEN "popped"
                                               ELSE konts[i].k)
    BY DisarmStack
  <2> HIDE DEF R
  <2>4. Len(konts') = n + 2 /\ konts'[n + 2] = x /\ \A i \in 1..(n + 1) : konts'[i] = R[i]
    <3>1. (n + 1) + 1 = n + 2
      BY <1>0
    <3> QED
      BY <2>1, <2>2, <3>1, AppendIs
  <2>5. \A i \in 1..n : konts'[i] = Disarmed[i]
    BY <1>0, <2>2, <2>4
  <2>6. konts'[n + 1].k = "ret" /\ konts'[n + 1].cp = Top.cp
    BY <1>0, <2>2, <2>4
  <2>7. ASSUME NEW p \in 1..Len(konts'), konts'[p].k = "catch" PROVE Settled(konts', K, p)
    <3>1. p \in 1..n
      <4>1. p = n + 1 \/ p = n + 2 \/ p \in 1..n
        BY <1>0, <2>4
      <4> QED
        BY <4>1, <2>1, <2>4, <2>6, <2>7
    <3>2. konts[p].k = "catch" /\ konts'[p].cp = konts[p].cp /\ p \in DOMAIN konts'
      BY <1>0, <2>3, <2>4, <2>5, <2>7, <3>1
    <3>3. CASE p \in S /\ p <= Top.cp
      <4>1. konts'[p] = konts[p]
        BY <1>0, <2>3, <2>5, <3>1, <3>3
      <4> QED
        BY <3>2, <3>3, <4>1 DEF Settled
    <3>4. CASE p \notin S
      <4>1. PICK r \in (p + 1)..n : konts[r].k = "ret" /\ konts[r].cp = konts[p].cp
        BY <3>1, <3>2, <3>4 DEF Settled
      <4>2. r \in 1..n /\ r \in (p + 1)..Len(konts')
        BY <1>0, <2>4, <3>1, <4>1
      <4>3. konts'[r].k = "ret" /\ konts'[r].cp = konts'[p].cp
        BY <2>3, <2>5, <3>2, <4>1, <4>2
      <4> QED
        BY <4>2, <4>3 DEF Settled
    <3>5. CASE p > Top.cp
      <4>1. p \in Top.cp..n
        BY <1>0, <3>1, <3>5
      <4>2. konts[p].cp = Top.cp
        BY <4>1, StackShape
      <4>3. n + 1 \in (p + 1)..Len(konts')
        BY <1>0, <2>4, <3>1
      <4> QED
        BY <2>6, <3>2, <4>2, <4>3 DEF Settled
    <3>6. p <= Top.cp \/ p > Top.cp
      BY <1>0, <3>1
    <3> QED
      BY <3>3, <3>4, <3>5, <3>6
  <2> QED
    BY <2>7
<1> QED
  BY <1>1, <1>2, <1>3, <1>4, <1>5, <1>6 DEF Goes

LEMMA ConsumptionStarts == HInit => CInv
<1> SUFFICES ASSUME HInit PROVE CInv
  OBVIOUS
<1>1. /\ prog \in Programs /\ catch_except = FALSE
      /\ konts = <<CallEntry(Startup, 1, 0)>> /\ cur = prog[Startup]
  BY DEF HInit, Init
<1>2. cur \in Stmts
  BY <1>1, ProgramsAssumption DEF Bodied
<1>3. Stack(konts) /\ Len(konts) = 1 /\ konts[1].k = "call" /\ konts[1].cp = 1
  BY <1>1, StartStack
<1>4. \A i \in 1..Len(konts) : i = 1
  BY <1>3
<1>5. Owned(konts) /\ Operands(konts, cur)
  BY <1>3, <1>4 DEF Owned, Operands
<1> QED
  BY <1>1, <1>2, <1>3, <1>5 DEF CInv

\* The only catch block executing is the one that claims.
LEMMA ClaimsAll ==
    ASSUME Stack(konts), status = "run", cur.op = "except", cur.v, ~NestedConsumption,
           NEW p \in 1..Len(konts), konts[p].k = "catch"
    PROVE  p \in Claims
<1> DEFINE C == {i \in DOMAIN konts : konts[i].k = "catch"}
<1>1. DOMAIN konts = 1..Len(konts) /\ Len(konts) \in Nat
  BY StackShape
<1>2. C = {p}
  BY <1>1 DEF NestedConsumption
<1>3. Topmost(C) \in C
  <2>1. C \in SUBSET (1..Len(konts)) /\ C # {}
    BY <1>1, <1>2
  <2> HIDE DEF C
  <2> QED
    BY <1>1, <2>1, TopmostExists
<1>4. InnermostCatch = p
  BY <1>2, <1>3 DEF InnermostCatch
<1> QED
  BY <1>4 DEF Claims

LEMMA ConsumptionStep ==
    ASSUME CInv, ~NestedConsumption, [HNext]_<<vars, claimed>>
    PROVE  CInv'
<1>0. /\ prog \in Programs /\ cur \in Stmts
      /\ Stack(konts) /\ Owned(konts) /\ Operands(konts, cur)
  BY DEF CInv
<1>dom. Len(konts) \in Nat /\ DOMAIN konts = 1..Len(konts)
  BY <1>0, StackShape
<1>same. ASSUME UNCHANGED <<prog, cur, konts, catch_except>>,
                \A p \in 1..Len(konts) : p \in claimed => p \in claimed'
         PROVE  CInv'
  <2>1. Stack(konts)' /\ Owned(konts)' /\ Operands(konts, cur)'
    BY <1>0, <1>same DEF Stack, Activations, Levels, Nodes, Owned, Operands
  <2>2. ASSUME catch_except', NEW p \in 1..Len(konts), konts[p].k = "catch"
        PROVE  Settled(konts, claimed', p)
    <3>1. catch_except
      BY <1>same, <2>2, Zenon
    <3>2. Settled(konts, claimed, p)
      BY <2>2, <3>1 DEF CInv
    <3> QED
      BY <1>same, <3>2 DEF Settled
  <2> QED
    BY <1>0, <1>same, <2>1, <2>2 DEF CInv, Settled
<1>1. CASE HNext /\ Run
  <2>1. status = "run" /\ UNCHANGED prog
    BY <1>1 DEF Run
  <2>k. claimed' = {i \in Claims : i \in DOMAIN konts' /\ konts'[i] = konts[i]
                                     /\ ~(Catching /\ i = Len(konts'))}
    BY <1>1 DEF HNext
  <2>2. CASE Goes
    <3>1. Stack(konts') /\ cur' \in Stmts
      BY <1>0, <2>2, StackMoves
    <3>2. Owned(konts') /\ Operands(konts', cur')
      BY <1>0, <2>2, OwnedMoves, OperandsMoves
    <3>3. ASSUME catch_except', NEW p \in 1..Len(konts'), konts'[p].k = "catch"
          PROVE  Settled(konts', claimed', p)
      <4>1. ~Handles
        BY <1>0, <1>1, <3>3, HandlesResets
      <4>2. ~Catching
        BY <1>0, <2>2, <4>1, CatchingHandles
      <4>3. claimed' = {i \in Claims : i \in DOMAIN konts' /\ konts'[i] = konts[i]}
        BY <2>k, <4>2
      <4>4. \A q \in 1..Len(konts) : konts[q].k = "catch" => Settled(konts, Claims, q)
        <5>1. CASE cur.op = "except"
          <6>1. cur.v
            BY <1>1, <3>3, <5>1, FlagMoves
          <6> QED
            BY <1>0, <2>1, <5>1, <6>1, ClaimsAll DEF Settled
        <5>2. CASE cur.op # "except"
          <6>1. catch_except
            BY <1>1, <3>3, <5>2, FlagMoves, Zenon
          <6>2. Claims = claimed
            BY <5>2 DEF Claims
          <6> QED
            BY <6>1, <6>2 DEF CInv
        <5> QED
          BY <5>1, <5>2
      <4>5. Settled(konts', {i \in Claims : i \in DOMAIN konts' /\ konts'[i] = konts[i]}, p)
        BY <1>0, <2>2, <3>3, <4>1, <4>4, SettledMoves
      <4> QED
        BY <4>3, <4>5
    <3>4. Stack(konts)' /\ Owned(konts)' /\ Operands(konts, cur)'
      BY <3>1, <3>2 DEF Stack, Activations, Levels, Nodes, Owned, Operands
    <3> QED
      BY <1>0, <2>1, <3>1, <3>3, <3>4 DEF CInv, Settled
  <2>3. CASE Ends
    <3>1. UNCHANGED <<konts, cur>>
      BY <2>3 DEF Ends
    <3>2. ASSUME catch_except', NEW p \in 1..Len(konts), konts[p].k = "catch"
          PROVE  Settled(konts, claimed', p)
      <4>1. claimed' = Claims \cap DOMAIN konts
        BY <2>k, <3>1 DEF Catching
      <4>2. Settled(konts, Claims, p)
        <5>1. CASE cur.op = "except"
          <6>1. cur.v
            BY <1>1, <3>2, <5>1, FlagMoves
          <6> QED
            BY <1>0, <2>1, <3>2, <5>1, <6>1, ClaimsAll DEF Settled
        <5>2. CASE cur.op # "except"
          <6>1. catch_except
            BY <1>1, <3>2, <5>2, FlagMoves, Zenon
          <6>2. Claims = claimed
            BY <5>2 DEF Claims
          <6> QED
            BY <3>2, <6>1, <6>2 DEF CInv
        <5> QED
          BY <5>1, <5>2
      <4> QED
        BY <1>dom, <4>1, <4>2 DEF Settled
    <3>3. Stack(konts)' /\ Owned(konts)' /\ Operands(konts, cur)'
      BY <1>0, <3>1 DEF Stack, Activations, Levels, Nodes, Owned, Operands
    <3> QED
      BY <1>0, <2>1, <3>1, <3>2, <3>3 DEF CInv, Settled
  <2> QED
    BY <1>0, <1>1, <2>2, <2>3, Moves
<1>2. CASE HNext /\ (Analyze \/ Ended)
  <2>1. status # "run" /\ UNCHANGED <<prog, cur, konts, catch_except>>
    <3>1. CASE Ended
      BY <3>1 DEF Ended, vars, Fs
    <3>2. CASE Analyze
      BY <3>2 DEF Analyze, AnalyzeFn, AnalyzeAgain, AnalyzeDone, Fs
    <3> QED
      BY <1>2, <3>1, <3>2
  <2>2. claimed' = {i \in claimed : i \in DOMAIN konts}
    BY <1>2, <2>1 DEF HNext, Claims, Catching
  <2>3. \A p \in 1..Len(konts) : p \in claimed => p \in claimed'
    BY <1>dom, <2>2
  <2> QED
    BY <2>1, <2>3, <1>same
<1>3. CASE UNCHANGED <<vars, claimed>>
  <2>1. UNCHANGED <<prog, cur, konts, catch_except, claimed>>
    BY <1>3 DEF vars, Fs
  <2> QED
    BY <2>1, <1>same
<1> QED
  BY <1>1, <1>2, <1>3 DEF HNext, Next

\* A catch block that ends normally is settled, and nothing runs above it.
LEMMA ConsumptionIs ==
    ASSUME CInv, [HNext]_<<vars, claimed>>
    PROVE  [status = "run" /\ cur = Nop /\ Top.k = "catch" /\ konts' = Pop /\ status' = "run"
              => Len(konts) \in claimed]_<<vars, claimed>>
<1> SUFFICES ASSUME HNext, status = "run", cur = Nop, Top.k = "catch", konts' = Pop, status' = "run"
             PROVE  Len(konts) \in claimed
  BY Zenon
<1>0. Stack(konts) /\ Run
  BY DEF CInv, HNext, Next, Analyze, Ended
<1>1. EndCatch
  BY <1>0, NopIs DEF Run, Resume, ExecThrow, ExecThrowExpr, ExecSeq, ExecIf, ExecLoop, ExecExcept,
     ExecBreak, ExecExtern, ExecCall, ExecReturn, ExecReturnCall, StackOverflow, ExecTry, Calls,
     EndSeq, EndLoopBody, EndTry, EndOperand, EndCall
<1>2. Len(konts) \in Nat /\ Len(konts) \in 1..Len(konts) /\ Len(konts) >= 2
      /\ konts \in Seq(StackEntry) /\ konts[Len(konts)].k = "catch"
  BY <1>0, StackShape DEF Top
<1>3. CASE catch_except
  <2>1. Settled(konts, claimed, Len(konts))
    BY <1>2, <1>3 DEF CInv
  <2>2. (Len(konts) + 1)..Len(konts) = {}
    BY <1>2
  <2> QED
    BY <2>1, <2>2 DEF Settled
<1>4. CASE ~catch_except
  <2>1. Raises /\ emit_rethrow
    BY <1>1, <1>4 DEF Raises, EndCatch
  <2>2. Handles
    <3>1. CASE LocalHandler(Len(konts))
      <4>1. EnterCatch(Topmost(Handlers(Len(konts))))
        BY <2>1, <3>1 DEF emit_rethrow
      <4> QED
        BY <1>0, <2>1, <3>1, <4>1, LocalMoves
    <3>2. CASE ~LocalHandler(Len(konts))
      <4>1. rt_throw(except_ch)
        BY <2>1, <3>2 DEF emit_rethrow
      <4> QED
        BY <1>0, <2>1, <4>1, RtThrowMoves DEF Ends
    <3> QED
      BY <3>1, <3>2
  <2>3. PICK h \in 2..Len(konts) : konts[h].k \in {"ltry", "dtry"} /\ EnterCatch(h)
    BY <2>2 DEF Handles
  <2>4. Len(konts') = h /\ konts'[h].k = "catch"
    BY <1>0, <2>3, CatchStack DEF Bodies
  <2>5. konts' = SubSeq(konts, 1, Len(konts) - 1) /\ Len(konts) - 1 \in 1..Len(konts)
    BY <1>2 DEF Pop, Below
  <2>6. konts'[h] = konts[h]
    BY <1>2, <2>4, <2>5, PrefixIs
  <2> QED
    BY <2>3, <2>4, <2>6
<1> QED
  BY <1>3, <1>4

\* The one flag serves all catch blocks as long as no exception is consumed
\* while two of them are executing: then control passes the end of a catch
\* block only if that block has set the flag itself, for every program and
\* whatever breaks and returns do.  Nested consumption is the only way the
\* outer block of the run ExcNested can swallow what it never claimed.
THEOREM SwallowsWhatItClaimed ==
    HSpec /\ []~NestedConsumption => SwallowOnlyClaimed
<1>1. CInv /\ ~NestedConsumption /\ [HNext]_<<vars, claimed>> => CInv'
  BY ConsumptionStep
<1>2. CInv /\ [HNext]_<<vars, claimed>> =>
        [status = "run" /\ cur = Nop /\ Top.k = "catch" /\ konts' = Pop /\ status' = "run"
           => Len(konts) \in claimed]_<<vars, claimed>>
  BY ConsumptionIs
<1> QED
  BY <1>1, <1>2, ConsumptionStarts, PTL DEF HSpec, SwallowOnlyClaimed

-----------------------------------------------------------------------------
(* Programs whose catch blocks run no try that consumes. *)

\* X holds with a statement the ones around it and the calls of its function.
Reaching(X) ==
    /\ Nop \notin X
    /\ \A n \in Stmts \ X : /\ n.op \in Binary => n.a \notin X /\ n.b \notin X
                            /\ n.op = "loop" => n.a \notin X
                            /\ n.op \in Calls /\ n.fn \in Bodied => prog[n.fn] \notin X

\* A condition on the text of the program.  K holds the statements that can
\* consume an exception, N those that can run a try whose catch block does: no
\* catch block is among these.
ConsumesApart(K, N) ==
    /\ Reaching(K) /\ \A n \in Stmts : n.op = "except" /\ n.v => n \in K
    /\ Reaching(N) /\ \A n \in Stmts : n.op = "try" /\ n.b \in K => n \in N
    /\ \A n \in Stmts : n.op = "try" => n.b \notin N
ClaimsStayApart == \E K, N \in SUBSET Stmts : ConsumesApart(K, N)

\* The catch blocks executing; with two, those inside another one.
CatchesIn(ks, two) ==
    {i \in 1..Len(ks) : /\ ks[i].k = "catch"
                        /\ two => \E m \in 1..(i - 1) : ks[m].k = "catch"}

\* Inside such a catch block nothing of X is left to do.
FreeOf(X, two, ks, c) ==
    \A i \in CatchesIn(ks, two) : c \notin X /\ \A j \in (i + 1)..Len(ks) : ks[j].node \notin X

LEMMA FreeCut ==
    ASSUME NEW ks, Stack(ks), NEW X, NEW two, NEW c, FreeOf(X, two, ks, c), NEW p \in 1..Len(ks), NEW d,
           (\E i \in CatchesIn(ks, two) : i <= p) => d \notin X
    PROVE  FreeOf(X, two, SubSeq(ks, 1, p), d)
<1> DEFINE q == SubSeq(ks, 1, p)
<1>1. Len(q) = p /\ \A i \in 1..p : q[i] = ks[i]
  BY PrefixIs DEF Stack
<1>2. Len(ks) \in Nat /\ p \in Nat /\ p <= Len(ks)
  BY DEF Stack
<1> HIDE DEF q
<1>3. ASSUME NEW i \in CatchesIn(q, two)
      PROVE  d \notin X /\ \A j \in (i + 1)..p : q[j].node \notin X
  <2>1. i \in 1..p /\ i \in 1..Len(ks) /\ q[i] = ks[i] /\ i <= p
    BY <1>1, <1>2 DEF CatchesIn
  <2>2. \A m \in 1..(i - 1) : q[m] = ks[m]
    BY <1>1, <1>2, <2>1
  <2>3. i \in CatchesIn(ks, two)
    BY <2>1, <2>2 DEF CatchesIn
  <2>4. \A j \in (i + 1)..p : j \in (i + 1)..Len(ks) /\ q[j] = ks[j]
    BY <1>1, <1>2, <2>1
  <2> QED
    BY <2>1, <2>3, <2>4 DEF FreeOf
<1>4. FreeOf(X, two, q, d)
  BY <1>1, <1>3 DEF FreeOf
<1> QED
  BY <1>4 DEF q

LEMMA FreePush ==
    ASSUME NEW ks, Stack(ks), NEW X, NEW two, NEW c, FreeOf(X, two, ks, c), NEW x, NEW d,
           CatchesIn(ks, two) # {} => x.node \notin X /\ d \notin X,
           x.k = "catch" /\ (two => \E m \in 1..Len(ks) : ks[m].k = "catch") => d \notin X
    PROVE  FreeOf(X, two, Append(ks, x), d)
<1> DEFINE q == Append(ks, x)
           n == Len(ks)
<1>1. n \in Nat /\ Len(q) = n + 1 /\ q[n + 1] = x /\ \A i \in 1..n : q[i] = ks[i]
  BY AppendIs
<1> HIDE DEF q
<1>2. ASSUME NEW i \in CatchesIn(q, two)
      PROVE  d \notin X /\ \A j \in (i + 1)..(n + 1) : q[j].node \notin X
  <2>1. i \in 1..(n + 1) /\ \A m \in 1..(i - 1) : m \in 1..n /\ q[m] = ks[m]
    BY <1>1 DEF CatchesIn
  <2>2. CASE i = n + 1
    <3>1. 1..(i - 1) = 1..n /\ (i + 1)..(n + 1) = {}
      BY <1>1, <2>2
    <3>2. x.k = "catch" /\ (two => \E m \in 1..n : ks[m].k = "catch")
      BY <1>1, <2>1, <2>2, <3>1 DEF CatchesIn
    <3> QED
      BY <3>1, <3>2
  <2>3. CASE i # n + 1
    <3>1. i \in 1..n /\ q[i] = ks[i]
      BY <1>1, <2>1, <2>3
    <3>2. i \in CatchesIn(ks, two)
      BY <2>1, <3>1 DEF CatchesIn
    <3>3. \A j \in (i + 1)..(n + 1) : j = n + 1 \/ (j \in (i + 1)..n /\ q[j] = ks[j])
      BY <1>1, <3>1
    <3> QED
      BY <1>1, <3>2, <3>3 DEF FreeOf
  <2> QED
    BY <2>2, <2>3
<1>3. FreeOf(X, two, q, d)
  BY <1>1, <1>2 DEF FreeOf
<1> QED
  BY <1>3 DEF q

\* Every move keeps the catch blocks free of X.
LEMMA FreeMoves ==
    ASSUME Stack(konts), cur \in Stmts, prog \in Programs, Goes,
           NEW X, Reaching(X), NEW two, FreeOf(X, two, konts, cur),
           \A h \in 2..Len(konts) :
              konts[h].k \in {"ltry", "dtry"} /\ (two => \E m \in 1..(h - 1) : konts[m].k = "catch")
                 => konts[h].node.b \notin X
    PROVE  FreeOf(X, two, konts', cur')
<1> DEFINE n == Len(konts)
           C == CatchesIn(konts, two)
<1>0. /\ n \in Nat /\ n >= 1 /\ n \in 1..n /\ Nop \in Stmts /\ Nop \notin X
      /\ Top = konts[n] /\ Top.node \in Stmts
  BY StmtsAssumption, StackShape DEF Reaching, Top
<1>c. C # {} => cur \notin X
  BY DEF FreeOf
<1>above. ASSUME C # {}, Top.k # "catch" PROVE Top.node \notin X
  <2>1. PICK i \in C : TRUE
    BY <1>above
  <2>2. i \in 1..n /\ i # n
    BY <1>0, <1>above DEF CatchesIn
  <2>3. n \in (i + 1)..n
    BY <1>0, <2>2
  <2> QED
    BY <1>0, <2>3 DEF FreeOf
<1>push. ASSUME NEW k \in Kinds, k # "catch", NEW node \in Stmts, konts' = Push(k, node),
                C # {} => node \notin X /\ cur' \notin X
         PROVE  FreeOf(X, two, konts', cur')
  <2> DEFINE x == Over(konts[n], k, node)
  <2>1. x.k = k /\ x.node = node
    BY PushIs
  <2>2. konts' = Append(konts, x)
    BY <1>push DEF Push, Top
  <2> HIDE DEF x
  <2> QED
    BY <2>1, <2>2, <1>push, FreePush
<1>1. CASE Stays
  <2>1. C # {} => cur' \notin X
    <3>1. CASE cur' = Nop
      BY <1>0, <3>1
    <3>2. CASE cur.op = "if" /\ cur' \in {cur.a, cur.b}
      BY <1>c, <3>2 DEF Reaching, Binary
    <3>3. CASE cur = Nop /\ Top.k = "loop" /\ cur' = Top.node.a
      <4>1. Top.node.op = "loop"
        BY <1>0, <3>3 DEF Stack, Nodes
      <4> QED
        BY <1>0, <1>above, <3>3, <4>1 DEF Reaching
    <3> QED
      BY <1>1, <3>1, <3>2, <3>3 DEF Stays
  <2> QED
    BY <1>1, <2>1 DEF Stays, FreeOf
<1>2. CASE Cuts
  BY <1>0, <1>2, FreeCut DEF Cuts
<1>3. CASE Resumes
  <2> DEFINE p == n - 1
  <2>1. konts' = SubSeq(konts, 1, p) /\ cur' = Top.node /\ Top.k = "seq"
    BY <1>3 DEF Resumes, Pop, Below
  <2>2. n >= 2
    BY <2>1, StackShape
  <2>3. p \in 1..n
    BY <1>0, <2>2
  <2> HIDE DEF p
  <2> QED
    BY <2>1, <2>3, <1>above, FreeCut
<1>4. CASE Nests
  <2>kinds. \A k \in {"seq", "loop", "ntry", "ltry", "dtry"} : k \in Kinds /\ k # "catch"
    BY DEF Kinds
  <2>1. CASE cur.op = "seq" /\ konts' = Push("seq", cur.b) /\ cur' = cur.a
    <3>1. cur.b \in Stmts /\ (C # {} => cur.a \notin X /\ cur.b \notin X)
      BY <1>c, <2>1, StmtFacts DEF Binary, Reaching
    <3> QED
      BY <2>1, <3>1, <2>kinds, <1>push
  <2>2. CASE konts' = Push("loop", cur) /\ cur' = Nop
    BY <1>0, <1>c, <2>2, <2>kinds, <1>push
  <2>3. CASE cur.op = "try" /\ konts' = Push(try_mode(can_throw, cur), cur) /\ cur' = cur.a
    <3>1. try_mode(can_throw, cur) \in Kinds /\ try_mode(can_throw, cur) # "catch"
      BY <2>kinds, ModeIs
    <3>2. C # {} => cur.a \notin X /\ cur \notin X
      BY <1>c, <2>3 DEF Binary, Reaching
    <3> QED
      BY <2>3, <3>1, <3>2, <1>push
  <2> QED
    BY <1>4, <2>1, <2>2, <2>3 DEF Nests
<1>5. CASE CallsIn
  <2> DEFINE x == CallEntry(cur.fn, n + 1, Top.lv)
  <2>1. konts' = Append(konts, x) /\ cur' = prog[cur.fn]
    BY <1>5 DEF CallsIn
  <2>2. x.k = "call" /\ x.node = Nop
    BY CallEntryIs
  <2>3. C # {} => cur' \notin X
    BY <1>5, <1>c, <2>1 DEF CallsIn, Calls, Reaching
  <2> HIDE DEF x
  <2> QED
    BY <1>0, <2>1, <2>2, <2>3, FreePush
<1>6. CASE ReturnsCall
  <2> DEFINE x == CallEntry(cur.fn, n + 2, konts[Top.cp].lv)
             q == Disarmed
             r == Over(q[n], "ret", Nop)
  <2>1. konts' = Append(Returning, x) /\ cur' = prog[cur.fn]
    BY <1>6 DEF ReturnsCall
  <2>2. x.k = "call" /\ x.node = Nop
    BY CallEntryIs
  <2> HIDE DEF x
  <2>c. cur \notin X => prog[cur.fn] \notin X
    BY <1>6 DEF ReturnsCall, Calls, Reaching
  <2>3. Stack(q) /\ Len(q) = n
        /\ \A i \in 1..n : /\ q[i].node = konts[i].node
                           /\ q[i].k = konts[i].k \/ (konts[i].k = "dtry" /\ q[i].k = "popped")
    BY DisarmStack
  <2>4. Returning = Append(q, r) /\ Stack(Returning)
    BY ReturningStack DEF Returning
  <2>5. r.k = "ret" /\ r.node = Nop
    BY DEF Over, Entry
  <2> HIDE DEF q, r
  <2>6. CatchesIn(q, two) = C
    <3>1. \A i \in 1..n : q[i].k = "catch" <=> konts[i].k = "catch"
      BY <2>3
    <3>2. \A i \in 1..n : \A m \in 1..(i - 1) : m \in 1..n
      BY <1>0
    <3> QED
      BY <2>3, <3>1, <3>2 DEF CatchesIn
  <2>7. FreeOf(X, two, q, cur)
    <3>1. ASSUME NEW i \in C PROVE cur \notin X /\ \A j \in (i + 1)..n : q[j].node \notin X
      <4>1. i \in 1..n
        BY DEF CatchesIn
      <4>2. \A j \in (i + 1)..n : j \in 1..n
        BY <1>0, <4>1
      <4> QED
        BY <2>3, <4>2, <3>1 DEF FreeOf
    <3> QED
      BY <2>3, <2>6, <3>1 DEF FreeOf
  <2>8. FreeOf(X, two, Append(q, r), cur)
    BY <1>0, <1>c, <2>3, <2>5, <2>6, <2>7, FreePush
  <2>9. CatchesIn(Append(q, r), two) # {} => cur \notin X
    BY <2>8 DEF FreeOf
  <2> QED
    BY <1>0, <2>1, <2>2, <2>c, <2>4, <2>8, <2>9, FreePush
<1>7. CASE Handles
  <2>1. PICK h \in 2..n : konts[h].k \in {"ltry", "dtry"} /\ EnterCatch(h)
    BY <1>7 DEF Handles
  <2> DEFINE q == SubSeq(konts, 1, h - 1)
             x == Over(konts[h - 1], "catch", konts[h].node)
  <2>2. /\ konts' = Append(q, x) /\ Stack(q) /\ cur' = konts[h].node.b
        /\ konts[h].node \in Stmts /\ konts[h].node.op = "try"
    BY <2>1, CatchStack DEF Bodies
  <2>3. h - 1 \in 1..n /\ h \in Nat
    BY <1>0
  <2>4. Len(q) = h - 1 /\ \A i \in 1..(h - 1) : q[i] = konts[i]
    BY <2>3, PrefixIs DEF Stack
  <2>5. x.k = "catch" /\ x.node = konts[h].node
    BY DEF Over, Entry
  <2>6. FreeOf(X, two, q, Nop)
    BY <1>0, <2>3, FreeCut
  <2> HIDE DEF q, x
  <2>7. ASSUME CatchesIn(q, two) # {} PROVE x.node \notin X /\ cur' \notin X
    <3>1. PICK i \in CatchesIn(q, two) : TRUE
      BY <2>7
    <3>2. i \in 1..(h - 1) /\ i \in 1..n /\ h \in (i + 1)..n /\ \A m \in 1..(i - 1) : m \in 1..(h - 1)
      BY <1>0, <2>3, <2>4 DEF CatchesIn
    <3>3. i \in C
      BY <2>4, <3>1, <3>2 DEF CatchesIn
    <3>4. konts[h].node \notin X
      BY <3>2, <3>3 DEF FreeOf
    <3> QED
      BY <2>2, <2>5, <3>4 DEF Reaching, Binary
  <2>8. (two => \E m \in 1..Len(q) : q[m].k = "catch") => cur' \notin X
    BY <2>1, <2>2, <2>4
  <2> QED
    BY <2>2, <2>6, <2>7, <2>8, FreePush
<1> QED
  BY <1>1, <1>2, <1>3, <1>4, <1>5, <1>6, <1>7 DEF Goes

\* The invariant of such programs.
PInv == /\ prog \in Programs /\ cur \in Stmts /\ Stack(konts)
        /\ \E K, N \in SUBSET Stmts : /\ ConsumesApart(K, N)
                                      /\ FreeOf(K, TRUE, konts, cur)
                                      /\ FreeOf(N, FALSE, konts, cur)

LEMMA ApartStarts == Init /\ ClaimsStayApart => PInv
<1> SUFFICES ASSUME Init, ClaimsStayApart PROVE PInv
  OBVIOUS
<1>1. prog \in Programs /\ konts = <<CallEntry(Startup, 1, 0)>> /\ cur = prog[Startup]
  BY DEF Init
<1>2. cur \in Stmts
  BY <1>1, ProgramsAssumption DEF Bodied
<1>3. Stack(konts) /\ Len(konts) = 1 /\ konts[1].k = "call"
  BY <1>1, StartStack
<1>4. \A two \in BOOLEAN : CatchesIn(konts, two) = {}
  <2>1. \A i \in 1..Len(konts) : i = 1
    BY <1>3
  <2> QED
    BY <1>3, <2>1 DEF CatchesIn
<1>5. \A X : FreeOf(X, TRUE, konts, cur) /\ FreeOf(X, FALSE, konts, cur)
  BY <1>4 DEF FreeOf
<1> QED
  BY <1>1, <1>2, <1>3, <1>5 DEF PInv, ClaimsStayApart

LEMMA ApartStep ==
    ASSUME PInv, [Next]_vars
    PROVE  PInv'
<1>0. prog \in Programs /\ cur \in Stmts /\ Stack(konts)
  BY DEF PInv
<1>k. PICK K \in SUBSET Stmts, N \in SUBSET Stmts :
         ConsumesApart(K, N) /\ FreeOf(K, TRUE, konts, cur) /\ FreeOf(N, FALSE, konts, cur)
  BY DEF PInv
<1>done. ASSUME UNCHANGED prog, cur' \in Stmts, Stack(konts'),
                FreeOf(K, TRUE, konts', cur'), FreeOf(N, FALSE, konts', cur')
         PROVE  PInv'
  <2>1. ConsumesApart(K, N)'
    BY <1>k, <1>done DEF ConsumesApart, Reaching
  <2>2. Stack(konts)'
    BY <1>done DEF Stack, Activations, Levels, Nodes
  <2>3. FreeOf(K, TRUE, konts, cur)' /\ FreeOf(N, FALSE, konts, cur)'
    BY <1>done DEF FreeOf, CatchesIn
  <2> QED
    BY <1>0, <1>done, <2>1, <2>2, <2>3 DEF PInv
<1>1. CASE Run /\ Goes
  <2>1. UNCHANGED prog /\ Stack(konts') /\ cur' \in Stmts
    BY <1>0, <1>1, StackMoves DEF Run
  <2>2. ASSUME NEW h \in 2..Len(konts), konts[h].k \in {"ltry", "dtry"}
        PROVE  konts[h].node \in Stmts /\ konts[h].node.op = "try" /\ h \in 1..Len(konts)
    <3>1. h \in 1..Len(konts)
      OBVIOUS
    <3> QED
      BY <1>0, <2>2, <3>1, EntryIs DEF Stack, Nodes, Bodies
  <2>3. FreeOf(N, FALSE, konts', cur')
    <3>1. \A h \in 2..Len(konts) : konts[h].k \in {"ltry", "dtry"} => konts[h].node.b \notin N
      BY <1>k, <2>2 DEF ConsumesApart
    <3>2. Reaching(N)
      BY <1>k DEF ConsumesApart
    <3> QED
      BY <1>0, <1>1, <1>k, <3>1, <3>2, FreeMoves
  <2>4. FreeOf(K, TRUE, konts', cur')
    <3>1. ASSUME NEW h \in 2..Len(konts), konts[h].k \in {"ltry", "dtry"},
                 NEW m \in 1..(h - 1), konts[m].k = "catch"
          PROVE  konts[h].node.b \notin K
      <4>1. m \in 1..Len(konts) /\ h \in (m + 1)..Len(konts)
        OBVIOUS
      <4>2. konts[h].node \notin N
        BY <1>k, <3>1, <4>1 DEF FreeOf, CatchesIn
      <4> QED
        BY <1>k, <2>2, <3>1, <4>2 DEF ConsumesApart
    <3>2. Reaching(K)
      BY <1>k DEF ConsumesApart
    <3> QED
      BY <1>0, <1>1, <1>k, <3>1, <3>2, FreeMoves
  <2> QED
    BY <2>1, <2>3, <2>4, <1>done
<1>2. ASSUME UNCHANGED <<prog, cur, konts>> PROVE PInv'
  BY <1>0, <1>2, <1>k, <1>done
<1>3. CASE Run
  <2>1. CASE Ends
    BY <1>2, <1>3, <2>1 DEF Ends, Run
  <2> QED
    BY <1>0, <1>1, <1>3, <2>1, Moves
<1>4. CASE Analyze
  BY <1>2, <1>4 DEF Analyze, AnalyzeFn, AnalyzeAgain, AnalyzeDone
<1>5. CASE Ended \/ UNCHANGED vars
  BY <1>2, <1>5 DEF Ended, vars
<1> QED
  BY <1>3, <1>4, <1>5 DEF Next

LEMMA ApartIs ==
    ASSUME PInv
    PROVE  ~NestedConsumption
<1> SUFFICES ASSUME NestedConsumption PROVE FALSE
  OBVIOUS
<1>k. PICK K \in SUBSET Stmts, N \in SUBSET Stmts :
         ConsumesApart(K, N) /\ FreeOf(K, TRUE, konts, cur)
  BY DEF PInv
<1>1. cur \in K
  BY <1>k DEF NestedConsumption, ConsumesApart, PInv
<1>2. PICK i \in DOMAIN konts, j \in DOMAIN konts :
         i # j /\ konts[i].k = "catch" /\ konts[j].k = "catch"
  BY DEF NestedConsumption
<1>3. i \in 1..Len(konts) /\ j \in 1..Len(konts)
  BY StackShape DEF PInv
<1>4. i \in 1..(j - 1) \/ j \in 1..(i - 1)
  BY <1>2, <1>3
<1>5. CatchesIn(konts, TRUE) # {}
  BY <1>2, <1>3, <1>4 DEF CatchesIn
<1> QED
  BY <1>k, <1>1, <1>5 DEF FreeOf

\* What that condition comes to in the source: if no catch block can run,
\* itself or through the functions it calls, a try whose catch block consumes,
\* control passes the end of a catch block only if that block has claimed its
\* exception.
THEOREM SourceSwallowsWhatItClaimed ==
    HSpec /\ ClaimsStayApart => []~NestedConsumption /\ SwallowOnlyClaimed
<1>1. HInit /\ ClaimsStayApart => PInv
  BY ApartStarts DEF HInit
<1>2. PInv /\ [HNext]_<<vars, claimed>> => PInv'
  <2>1. [HNext]_<<vars, claimed>> => [Next]_vars
    BY DEF HNext
  <2> QED
    BY <2>1, ApartStep
<1>3. PInv => ~NestedConsumption
  BY ApartIs
<1> QED
  BY <1>1, <1>2, <1>3, SwallowsWhatItClaimed, PTL DEF HSpec
=============================================================================
