----------------------------- MODULE PreprocRef -----------------------------
(***************************************************************************)
(* What the preprocessor should produce, by the textbook algorithm: one    *)
(* pass over the items with a stack of the open conditionals, each knowing *)
(* whether its current branch is live, and a table from names to bodies.   *)
(* lexpp.c does without the stack: it skips dead branches ahead and counts *)
(* only live conditionals, and its table is a list with dead entries.      *)
(***************************************************************************)
EXTENDS Preproc, TLC

RECURSIVE Text(_, _)
RECURSIVE Concat(_)
RECURSIVE Run(_, _)

Concat(ss) == IF ss = <<>> THEN <<>> ELSE Head(ss) \o Concat(Tail(ss))

\* The full expansion of a token; a macro's own name in its body is final.
Text(env, t) ==
    IF t.k # "id" \/ t.s \notin DOMAIN env THEN <<t>>
    ELSE Concat([i \in DOMAIN env[t.s] |->
                   LET b == env[t.s][i] IN
                   IF b.k = "id" /\ b.s = t.s THEN <<b>> ELSE Text(env, b)])

Line(env, e) ==
    Concat([i \in DOMAIN e |->
              IF e[i].k = "defined"
              THEN <<[k |-> "num", v |-> IF e[i].n \in DOMAIN env THEN 1 ELSE 0]>>
              ELSE Text(env, e[i])])

Without(f, n) == [x \in DOMAIN f \ {n} |-> f[x]]

\* defs has the definitions ds, the last one of a name winning, under env.
Defs(ds) == [n \in {ds[i].n : i \in DOMAIN ds} |->
               ds[CHOOSE i \in DOMAIN ds : ds[i].n = n /\ \A j \in DOMAIN ds : ds[j].n = n => j <= i].body]

Live(st) == \A i \in DOMAIN st.open : st.open[i].on
Bad(st) == [st EXCEPT !.ok = FALSE]
Open(st, on) == [st EXCEPT !.open = Append(@, [on |-> on, els |-> FALSE])]

Number(out, s) == Cardinality({i \in DOMAIN out : Is(out[i], s)})
Outside(out) == /\ Number(out, "{") = Number(out, "}")
                /\ out = <<>> \/ EndsStatement(out[Len(out)])

\* The items is, from the state st.
Run(is, st) ==
    IF is = <<>> \/ ~st.ok THEN st
    ELSE
    LET t == Head(is)
        rest == Tail(is)
        top == st.open[Len(st.open)]
        line == Line(st.env, t.e)
        dir == <<t.dir, st.cwd>> \o IncDirs
        found == {i \in DOMAIN dir : t.f \in DOMAIN Files[dir[i]]}
        block == Run(t.body, [st EXCEPT !.out = <<>>, !.open = <<>>,
                                        !.env = @ @@ Defs(ExeApi)])
    IN
    CASE t.k \in Opens /\ ~Live(st) -> Run(rest, Open(st, FALSE))
      [] t.k \in {"ifdef", "ifndef"} ->
           Run(rest, Open(st, (t.n \in DOMAIN st.env) = (t.k = "ifdef")))
      [] t.k = "else" ->
           IF st.open = <<>> THEN Bad(st)
           ELSE Run(rest, [st EXCEPT !.open[Len(st.open)] = [on |-> ~top.on, els |-> TRUE],
                                     !.twice = @ \/ top.els])
      [] t.k = "endif" ->
           IF st.open = <<>> THEN Bad(st)
           ELSE Run(rest, [st EXCEPT !.open = SubSeq(@, 1, Len(@) - 1)])
      [] ~Live(st) -> Run(rest, st)
      [] t.k = "if" -> IF ~Evaluates(line) THEN Bad(st) ELSE Run(rest, Open(st, pp_or(line)))
      [] t.k = "assert" -> IF ~Evaluates(line) THEN Bad(st) ELSE Run(rest, st)
      [] t.k = "define" -> Run(rest, [st EXCEPT !.env = (t.n :> t.body) @@ @])
      [] t.k = "undef" -> Run(rest, [st EXCEPT !.env = Without(@, t.n)])
      [] t.k = "include" ->
           IF found = {} THEN Bad(st) ELSE Run(Files[dir[First(found)]][t.f] \o rest, st)
      [] t.k = "exe" ->
           IF ~block.ok THEN Bad(st)
           ELSE Run(t.out \o SubSeq(rest, t.take + 1, Len(rest)),
                    [st EXCEPT !.env = block.env,
                               !.cwd = IF t.to \in Dirs THEN t.to ELSE block.cwd])
      [] t.k = "help" -> Run(rest, st)
      [] t.k = "unknown" -> Bad(st)
      [] t.k = "cd" /\ Outside(st.out) ->
           IF t.p \in Dirs THEN Run(rest, [st EXCEPT !.cwd = t.p]) ELSE Bad(st)
      [] OTHER -> Run(rest, [st EXCEPT !.out = @ \o Text(st.env, t)])

Expected == Run(source.items, [ok |-> TRUE, twice |-> FALSE, open |-> <<>>, out |-> <<>>,
                               env |-> Defs(Prelude), cwd |-> Home])

Plainly(ts) == [i \in DOMAIN ts |-> IF ts[i].k = "id" THEN [ts[i] EXCEPT !.ne = FALSE] ELSE ts[i]]

HasExe == \E i \in DOMAIN source.items : source.items[i].k = "exe"

Table == [n \in {macros[i].n : i \in DOMAIN macros} \ {Dead} |-> find_macro(n).body]

\* The skip-ahead of lexpp.c, its live-only depth counter, its list of macro
\* entries and its splicing rescan produce the tokens, the macro table and
\* the working directory of the textbook algorithm, and reject the same
\* sources.  Sources with two #else in one conditional are left out: lexpp.c
\* has no opinion on them.
MatchesReference ==
    status \in {"done", "error"} =>
       LET x == Expected IN
       \/ x.twice
       \/ status = "error" /\ (~x.ok \/ HasExe)
       \/ /\ status = "done" /\ x.ok
          /\ Plainly(C.out) = Plainly(x.out)
          /\ Table = x.env
          /\ cwd = x.cwd
=============================================================================
