------------------------------- MODULE Preproc -------------------------------
(***************************************************************************)
(* The token-level preprocessor, src/lexpp.c: lex_preprocess rewrites one  *)
(* list of raw tokens into the list the parser reads.  The list is a       *)
(* sequence of items, each a token or a whole directive line:              *)
(*   id s ne          an identifier; ne is Token.no_expand                 *)
(*   op s             punctuation                                          *)
(*   num v            an integer literal                                   *)
(*   cd p             the five tokens of a statement Cd("p");              *)
(*   defined n        defined(n) in the expression of a #if                *)
(*   define n body    #define               undef n        #undef          *)
(*   ifdef / ifndef n, if e, else, endif    conditionals; e is the line    *)
(*   assert e         #assert               include f dir  #include "f"    *)
(*   exe body out take to   #exe { body }; running the block prints out,   *)
(*                    consumes take items of the stream behind it and      *)
(*                    changes the working directory to to                  *)
(*   help             #help_index           unknown        anything else   *)
(*                                                                         *)
(* calls is the stack of loops over a list: lex_preprocess of the file, of *)
(* the prelude and of the block of a #exe, and pp_expand of a #if line.    *)
(***************************************************************************)
EXTENDS Integers, Sequences, FiniteSets

CONSTANTS
    Items,     \* the items of all the lists
    Sources,   \* the sources: field items is what the tokenizer returns
    Prelude,   \* the #define lines of runtime/prelude.hc
    ExeApi,    \* the #define lines of runtime/exe.hc
    Dirs,      \* directories that exist
    Home,      \* the process's working directory
    IncDirs,   \* -I directories, in search order
    Files,     \* the files: Files[dir] maps names to items
    Dead       \* the name #undef leaves in a macro entry

\* The items are closed under what the preprocessor takes out of them: the
\* bodies of macros and blocks, the lines of #if, the copy of an identifier
\* that is not expanded again, and the value of a defined().
ASSUME ItemsAssumption ==
    /\ \A x \in Items :
          /\ x.k = "define" => x.body \in Seq(Items)
          /\ x.k \in {"if", "assert"} => x.e \in Seq(Items)
          /\ x.k = "exe" => x.body \in Seq(Items) /\ x.out \in Seq(Items) /\ x.take \in Nat
          /\ x.k = "include" => x.dir \in Dirs
          /\ x.k = "id" => [x EXCEPT !.ne = TRUE] \in Items
    /\ [k |-> "num", v |-> 0] \in Items /\ [k |-> "num", v |-> 1] \in Items
ASSUME TextsAssumption ==
    /\ \A s \in Sources : s.items \in Seq(Items)
    /\ Prelude \in Seq(Items) /\ ExeApi \in Seq(Items)
ASSUME DirsAssumption ==
    /\ Home \in Dirs /\ IncDirs \in Seq(Dirs)
    /\ \A d \in Dirs : \A f \in DOMAIN Files[d] : Files[d][f] \in Seq(Items)

VARIABLES
    source,
    status,     \* run, done, error, or crash
    calls,
    macros,     \* cc->macros, newest first
    cwd,        \* cc->cwd
    exe_prefix, \* tokens remembered for #exe blocks
    visible,    \* length of the prefix up to exe_prefix_visible_tail
    depth       \* pp_brace_depth, pp_paren_depth, pp_bracket_depth

prefix == <<exe_prefix, visible, depth>>
vars == <<source, status, calls, macros, cwd, prefix>>

-----------------------------------------------------------------------------
(* Calls. *)

Call(k, in, item) ==
    [k |-> k, in |-> in, out |-> <<>>, cond_depth |-> 0, braces |-> 0, item |-> item]

None == [k |-> "none"]
C == calls[Len(calls)]
Caller == calls[Len(calls) - 1]
Tok == Head(C.in)
Rest == Tail(C.in)

At(k) == C.in # <<>> /\ Tok.k = k
Become(c) == calls' = [calls EXCEPT ![Len(calls)] = c] /\ UNCHANGED status
Return(c) == calls' = Append(SubSeq(calls, 1, Len(calls) - 2), c) /\ UNCHANGED status
Continue(in) == Become([C EXCEPT !.in = in])
Halt(how) == status' = how /\ UNCHANGED calls

-----------------------------------------------------------------------------
(* The macro table. *)

Entries(ms, n) == {i \in DOMAIN ms : ms[i].n = n}
First(S) == CHOOSE i \in S : \A j \in S : i <= j

is_macro(n) == Entries(macros, n) # {}
find_macro(n) == macros[First(Entries(macros, n))]

\* Mutant: a redefinition is stacked on the live entry.
lex_define_stacks(ms, n, body) == <<[n |-> n, body |-> body]>> \o ms

\* A redefinition replaces the body of the live entry.
lex_define(ms, n, body) ==
    IF Entries(ms, n) = {} THEN <<[n |-> n, body |-> body]>> \o ms
    ELSE [ms EXCEPT ![First(Entries(ms, n))].body = body]

Define == /\ At("define")
          /\ macros' = lex_define(macros, Tok.n, Tok.body)
          /\ Continue(Rest)
          /\ UNCHANGED <<cwd, prefix>>

Undef == /\ At("undef")
         /\ macros' = IF is_macro(Tok.n)
                      THEN [macros EXCEPT ![First(Entries(macros, Tok.n))].n = Dead]
                      ELSE macros
         /\ Continue(Rest)
         /\ UNCHANGED <<cwd, prefix>>

\* Mutant: the body is copied without the guard.
Unguarded(m) == m.body

\* The copy of a macro's body: the macro's own name is not expanded again.
Guarded(m) == [i \in DOMAIN m.body |->
                 IF m.body[i].k = "id" /\ m.body[i].s = m.n
                 THEN [m.body[i] EXCEPT !.ne = TRUE] ELSE m.body[i]]

Expand == /\ At("id") /\ ~Tok.ne
          /\ is_macro(Tok.s)
          /\ Continue(Guarded(find_macro(Tok.s)) \o Rest)
          /\ UNCHANGED <<macros, cwd, prefix>>

-----------------------------------------------------------------------------
(* Conditionals. *)

Opens == {"if", "ifdef", "ifndef"}
Count(in, p, K) == Cardinality({i \in 1..(p - 1) : in[i].k \in K})

\* Mutant: inner conditionals are not counted.
SkipStopsFlat(in) == {p \in DOMAIN in : in[p].k \in {"else", "endif"}}

\* The #else and #endif at depth 0; the first of them ends skip_cond.
SkipStops(in) == {p \in DOMAIN in : /\ in[p].k \in {"else", "endif"}
                                    /\ Count(in, p, Opens) = Count(in, p, {"endif"})}

\* The call c goes on behind the stop; after an #else one more conditional is
\* open.  At the end of the input *hit_else was never written: either value.
skip_cond(c, in, reopen) ==
    IF SkipStops(in) = {}
    THEN {[c EXCEPT !.in = <<>>, !.cond_depth = @ + e] : e \in 0..reopen}
    ELSE LET p == First(SkipStops(in))
             e == IF in[p].k = "else" THEN reopen ELSE 0 IN
         {[c EXCEPT !.in = SubSeq(in, p + 1, Len(in)), !.cond_depth = @ + e]}

Branch(c, in, live) ==
    IF live THEN {[c EXCEPT !.in = in, !.cond_depth = @ + 1]} ELSE skip_cond(c, in, 1)

IfDef == /\ At("ifdef") \/ At("ifndef")
         /\ \E c \in Branch(C, Rest, is_macro(Tok.n) = (Tok.k = "ifdef")) : Become(c)
         /\ UNCHANGED <<macros, cwd, prefix>>

\* Mutant: an #else that nothing opened is let through.
ElseUnchecked ==
    /\ At("else")
    /\ \E c \in skip_cond([C EXCEPT !.cond_depth = @ - 1], Rest, 0) : Become(c)
    /\ UNCHANGED <<macros, cwd, prefix>>

\* #else after the live branch: skip the other one.
Else == /\ At("else")
        /\ IF C.cond_depth <= 0 THEN Halt("error")
           ELSE \E c \in skip_cond([C EXCEPT !.cond_depth = @ - 1], Rest, 0) : Become(c)
        /\ UNCHANGED <<macros, cwd, prefix>>

EndIf == /\ At("endif")
         /\ IF C.cond_depth <= 0 THEN Halt("error")
            ELSE Become([C EXCEPT !.in = Rest, !.cond_depth = @ - 1])
         /\ UNCHANGED <<macros, cwd, prefix>>

\* #if and #assert: the rest of the line is expanded first, in a call of its own.
pp_eval_line ==
    /\ At("if") \/ At("assert")
    /\ IF Tok.e = <<>> THEN Halt("error")
       ELSE /\ calls' = Append([calls EXCEPT ![Len(calls)].in = Rest],
                               Call("line", Tok.e, Tok))
            /\ UNCHANGED status
    /\ UNCHANGED <<macros, cwd, prefix>>

Defined == /\ At("defined")
           /\ Continue(<<[k |-> "num", v |-> IF is_macro(Tok.n) THEN 1 ELSE 0]>> \o Rest)
           /\ UNCHANGED <<macros, cwd, prefix>>

\* pp_or on an expanded line: here a primary, negated any number of times.  A
\* name that is no macro is 0; anything else is malformed.
Operand(ts) == ts[Len(ts)]
Evaluates(ts) == /\ ts # <<>>
                 /\ \A i \in 1..(Len(ts) - 1) : ts[i].k = "op" /\ ts[i].s = "!"
                 /\ Operand(ts).k \in {"num", "id"}
pp_or(ts) == (Operand(ts).k = "num" /\ Operand(ts).v # 0) = (Len(ts) % 2 = 1)

\* The value is known: #if takes a branch, #assert at most warns.
LineEnd == /\ C.in = <<>> /\ C.k = "line"
           /\ IF ~Evaluates(C.out) THEN Halt("error")
              ELSE \E c \in IF C.item.k = "assert" THEN {Caller}
                            ELSE Branch(Caller, Caller.in, pp_or(C.out)) : Return(c)
           /\ UNCHANGED <<macros, cwd, prefix>>

-----------------------------------------------------------------------------
(* #include, #exe and the directives that do nothing. *)

\* search_include: beside the including file, in cwd, then along -I.
SearchPath(dir) == <<dir, cwd>> \o IncDirs
Holders(f, dir) == {i \in DOMAIN SearchPath(dir) : f \in DOMAIN Files[SearchPath(dir)[i]]}

Include ==
    /\ At("include")
    /\ IF Holders(Tok.f, Tok.dir) = {} THEN Halt("error")
       ELSE LET d == SearchPath(Tok.dir)[First(Holders(Tok.f, Tok.dir))] IN
            Continue(Files[d][Tok.f] \o Rest)
    /\ UNCHANGED <<macros, cwd, prefix>>

\* exe_run preprocesses the prelude and the API again, then the block, all
\* with the macro table of the file.
Exe == /\ At("exe")
       /\ calls' = [calls EXCEPT ![Len(calls)].in = Rest]
                     \o <<Call("block", Tok.body, Tok), Call("text", ExeApi, None),
                          Call("text", Prelude, None)>>
       /\ UNCHANGED <<status, macros, cwd, prefix>>

\* The prelude or the API is preprocessed.
TextEnd == /\ C.in = <<>> /\ C.k = "text"
           /\ Return(Caller)
           /\ UNCHANGED <<macros, cwd, prefix>>

\* The block is compiled, loaded and run: its output goes before the stream.
BlockEnd ==
    /\ C.in = <<>> /\ C.k = "block"
    /\ \/ /\ Return([Caller EXCEPT
                !.in = C.item.out \o SubSeq(@, C.item.take + 1, Len(@))])
          /\ cwd' = IF C.item.to \in Dirs THEN C.item.to ELSE cwd
       \/ Halt("error") /\ UNCHANGED cwd
    /\ UNCHANGED <<macros, prefix>>

Help == At("help") /\ Continue(Rest) /\ UNCHANGED <<macros, cwd, prefix>>
Unknown == At("unknown") /\ Halt("error") /\ UNCHANGED <<macros, cwd, prefix>>

-----------------------------------------------------------------------------
(* Tokens that stay. *)

Tokens == {"id", "op", "num", "cd"}

\* A macro was not expanded, or there is none.
Plain == /\ C.in # <<>>
         /\ Tok.k \in Tokens
         /\ ~(Tok.k = "id" /\ ~Tok.ne /\ is_macro(Tok.s))

Is(t, s) == t.k = "op" /\ t.s = s
EndsStatement(t) == Is(t, ";") \/ t.k = "cd"

\* The token can start a top-level statement.
TopLevel == C.braces = 0 /\ (C.out # <<>> => EndsStatement(C.out[Len(C.out)]))

\* pp_toplevel_cd looks two tokens ahead without testing for the end.
LooksPastEnd == TopLevel /\ Rest = <<>> /\ Tok.k # "cd"

ToplevelCd == /\ Plain /\ C.k # "line" /\ TopLevel
              /\ Tok.k = "cd"
              /\ IF Tok.p \in Dirs THEN cwd' = Tok.p /\ Continue(Rest)
                 ELSE Halt("error") /\ UNCHANGED cwd
              /\ UNCHANGED <<macros, prefix>>

Crash == /\ Plain /\ C.k # "line" /\ LooksPastEnd
         /\ Halt("crash")
         /\ UNCHANGED <<macros, cwd, prefix>>

\* The depth of one kind of bracket behind the token t; a stray closer is ignored.
Level(d, t, open, close) ==
    IF Is(t, open) THEN d + 1 ELSE IF Is(t, close) /\ d > 0 THEN d - 1 ELSE d

Depths(d, t) == [brace |-> Level(d.brace, t, "{", "}"), paren |-> Level(d.paren, t, "(", ")"),
                 bracket |-> Level(d.bracket, t, "[", "]")]
Flat == [brace |-> 0, paren |-> 0, bracket |-> 0]

\* Mutant: parentheses and brackets are not counted.
remember_braces_only(t) ==
    /\ exe_prefix' = Append(exe_prefix, t)
    /\ depth' = Depths(depth, t)
    /\ visible' = IF (Is(t, "}") \/ EndsStatement(t)) /\ depth'.brace = 0
                  THEN Len(exe_prefix) + 1 ELSE visible

remember_exe_prefix(t) ==
    /\ exe_prefix' = Append(exe_prefix, t)
    /\ depth' = Depths(depth, t)
    /\ visible' = IF (Is(t, "}") \/ EndsStatement(t)) /\ depth' = Flat
                  THEN Len(exe_prefix) + 1 ELSE visible

\* Only the outermost lex_preprocess remembers.
Emit ==
    /\ Plain
    /\ C.k # "line" => ~LooksPastEnd /\ ~(TopLevel /\ Tok.k = "cd")
    /\ Become([C EXCEPT !.in = Rest, !.out = Append(@, Tok),
                        !.braces = Level(@, Tok, "{", "}")])
    /\ IF C.k = "file" THEN remember_exe_prefix(Tok) ELSE UNCHANGED prefix
    /\ UNCHANGED <<macros, cwd>>

\* The end of the file, whatever conditionals are still open.
FileEnd == /\ C.in = <<>> /\ C.k = "file"
           /\ Halt("done")
           /\ UNCHANGED <<macros, cwd, prefix>>

-----------------------------------------------------------------------------
\* The driver preprocesses the prelude, then the file.
Init ==
    /\ source \in Sources
    /\ status = "run"
    /\ calls = <<Call("file", source.items, None), Call("text", Prelude, None)>>
    /\ macros = <<>>
    /\ cwd = Home
    /\ exe_prefix = <<>>
    /\ visible = 0
    /\ depth = Flat

Step == /\ status = "run"
        /\ \/ Define \/ Undef \/ Expand \/ IfDef \/ Else \/ EndIf \/ pp_eval_line
           \/ Defined \/ LineEnd \/ Include \/ Exe \/ TextEnd \/ BlockEnd \/ Help
           \/ Unknown \/ ToplevelCd \/ Crash \/ Emit \/ FileEnd
        /\ UNCHANGED source

Ended == status # "run" /\ UNCHANGED vars

Next == Step \/ Ended

Spec == Init /\ [][Next]_vars

\* The compiler does not stop in the middle of its loop.
FairSpec == Spec /\ WF_vars(Step)

-----------------------------------------------------------------------------
(* Properties. *)

\* Every variable has its type; no loop counts more #endif than #if.
TypeOK ==
    /\ source \in Sources
    /\ status \in {"run", "done", "error", "crash"}
    /\ calls # <<>>
    /\ \A i \in DOMAIN calls :
          /\ calls[i].k \in {"file", "text", "block", "line"}
          /\ calls[i].cond_depth \in Nat
          /\ calls[i].braces \in Nat
    /\ cwd \in Dirs
    /\ visible \in 0..Len(exe_prefix)
    /\ depth \in [brace : Nat, paren : Nat, bracket : Nat]

\* At most one entry of the table is live for a name, so #undef removes the
\* macro: "stacking would resurrect the old one".
OneLiveEntry ==
    \A i, j \in DOMAIN macros : macros[i].n = macros[j].n /\ macros[i].n # Dead => i = j

Occurs(n, s) == Cardinality({i \in 1..n : Is(exe_prefix[i], s)})
Pairs == {<<"{", "}">>, <<"(", ")">>, <<"[", "]">>}
Complete(n) == /\ \A p \in Pairs : Occurs(n, p[1]) = Occurs(n, p[2])
               /\ n > 0 => Is(exe_prefix[n], "}") \/ EndsStatement(exe_prefix[n])
Stray == \E n \in 1..Len(exe_prefix), p \in Pairs : Occurs(n, p[1]) < Occurs(n, p[2])

\* What a #exe block sees of the program is its longest beginning made of
\* whole top-level constructs: "an unfinished containing function is not
\* copied".
PrefixComplete ==
    ~Stray => /\ Complete(visible)
              /\ \A n \in (visible + 1)..Len(exe_prefix) : ~Complete(n)

\* The preprocessor comes to an end: the guard against self-reference is
\* enough when macros do not form longer cycles.
Terminates == <>(status # "run")

\* "Only a top-level statement whose argument is a constant string can be
\* evaluated; anything else falls through to the parser."
NoCrash == status # "crash"
=============================================================================
