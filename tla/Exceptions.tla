----------------------------- MODULE Exceptions -----------------------------
(***************************************************************************)
(* Exceptions as aholyc implements them on the native backends.            *)
(*                                                                         *)
(* Phase "analyze" is src/effects.c: a round-robin fixpoint infers which   *)
(* functions can throw, and from it every try block gets a lowering:       *)
(*   none     the body cannot throw: no handler and no catch code at all   *)
(*   local    only statement-level throws: they become a goto              *)
(*   dynamic  an exception may cross a call: setjmp and a jmp_buf frame    *)
(* Phase "run" executes the code src/back_c.c and src/back_ll.c emit,      *)
(* against the frame stack hc_frames / hc_ntry of runtime/rt.c.            *)
(*                                                                         *)
(* The C stack is konts.  An entry is a block or call being executed:      *)
(*   k     its kind: call, seq, loop, ntry / ltry / dtry (a try body under *)
(*         each lowering), popped (a dtry whose frame a return expression  *)
(*         has already popped), catch, ret (return after the callee ends)  *)
(*   node  what to run on resumption, or the try / loop statement          *)
(*   fn    the function executing                                          *)
(*   td    cg->try_depth where the code above the entry was emitted        *)
(*   cp    position of the activation's call entry                         *)
(*   lv    history: hc_ntry when the code above the entry started          *)
(***************************************************************************)
EXTENDS ExcLang

CONSTANTS TryMax,    \* HC_TRY_MAX
          MaxStack   \* bound: entries the C stack holds

ASSUME TryMaxAssumption == TryMax \in Nat \ {0}
ASSUME MaxStackAssumption == MaxStack \in Nat

VARIABLES
    prog,
    status,        \* analyze, run, or how the program ended
    can_throw,     \* Obj.can_throw
    next_fn,       \* position in prog->funcs of the function analyzed next
    changed,       \* analyze_exceptions' flag of the current round
    cur, konts, except_ch, catch_except,
    hc_frames,     \* the jmp_bufs: the stack position each returns to
    hc_ntry

analysis == <<can_throw, next_fn, changed>>
Fs == <<except_ch, catch_except>>
frames == <<hc_frames, hc_ntry>>
vars == <<prog, status, analysis, cur, konts, Fs, frames>>

-----------------------------------------------------------------------------
(* The effect analysis: src/effects.c. *)

ThrowingPrelude == {"throw", "MAlloc", "CAlloc", "StrNew", "MStrPrint",
                    "StrPrintJoin", "GetStr"}

extern_can_throw(fn) == fn \notin Prelude \/ fn \in ThrowingPrelude

\* Effects: "local" is E_LOCAL, "call" is E_CALL.
try_effect(body, els) == IF body = {} THEN {} ELSE els \cup {"local"}

\* Mutant: calls through a pointer are taken to be quiet.
call_effect_direct(ct, n) == IF n.op # "icall" /\ ct[n.fn] THEN {"call"} ELSE {}

\* A resolved call has the callee's flag, a call through a pointer none.
call_effect(ct, n) == IF n.op = "icall" \/ ct[n.fn] THEN {"call"} ELSE {}

\* effect() of a statement from the effects e of its children.
effect_of(ct, e, n) ==
    CASE n.op = "throw"        -> {"local"}
      [] n.op = "throwx"       -> {"call"}
      [] n.op \in Calls        -> call_effect(ct, n)
      [] n.op = "try"          -> try_effect(e[n.a], e[n.b])
      [] n.op \in {"seq", "if"} -> e[n.a] \cup e[n.b]
      [] n.op = "loop"         -> e[n.a]
      [] OTHER                 -> {}

effect(ct) == LET e[n \in Stmts] == effect_of(ct, e, n) IN e

\* Mutant: only calls are taken to need a handler.
try_mode_calls(ct, n) == IF "call" \in effect(ct)[n.a] THEN "dtry" ELSE "ntry"

try_mode(ct, n) ==
    LET body == effect(ct)[n.a] IN
    IF body = {} THEN "ntry" ELSE IF "call" \in body THEN "dtry" ELSE "ltry"

\* One iteration of the for loop inside do ... while (changed).
throws(ct, fn) == effect(ct)[prog[fn]] # {}

\* Mutant: a function already marked counts as a change.
AnalyzeFnRepeats ==
    /\ next_fn <= Len(FuncList)
    /\ LET fn == FuncList[next_fn]
           hit == fn \in Bodied /\ throws(can_throw, fn)
       IN /\ can_throw' = [can_throw EXCEPT ![fn] = @ \/ hit]
          /\ changed' = (changed \/ hit)
    /\ next_fn' = next_fn + 1
    /\ UNCHANGED <<prog, status, cur, konts, Fs, frames>>

AnalyzeFn ==
    /\ next_fn <= Len(FuncList)
    /\ LET fn == FuncList[next_fn]
           hit == fn \in Bodied /\ ~can_throw[fn] /\ throws(can_throw, fn)
       IN /\ can_throw' = [can_throw EXCEPT ![fn] = @ \/ hit]
          /\ changed' = (changed \/ hit)
    /\ next_fn' = next_fn + 1
    /\ UNCHANGED <<prog, status, cur, konts, Fs, frames>>

AnalyzeAgain ==
    /\ next_fn > Len(FuncList)
    /\ changed
    /\ next_fn' = 1
    /\ changed' = FALSE
    /\ UNCHANGED <<prog, status, can_throw, cur, konts, Fs, frames>>

\* Mutant: one round over the functions.
AnalyzeDoneEarly ==
    /\ next_fn > Len(FuncList)
    /\ can_throw' = [can_throw EXCEPT ![Startup] = throws(can_throw, Startup)]
    /\ status' = "run"
    /\ UNCHANGED <<prog, next_fn, changed, cur, konts, Fs, frames>>

\* No change in a round: the startup function is classified and the code emitted.
AnalyzeDone ==
    /\ next_fn > Len(FuncList)
    /\ ~changed
    /\ can_throw' = [can_throw EXCEPT ![Startup] = throws(can_throw, Startup)]
    /\ status' = "run"
    /\ UNCHANGED <<prog, next_fn, changed, cur, konts, Fs, frames>>

Analyze == status = "analyze" /\ (AnalyzeFn \/ AnalyzeAgain \/ AnalyzeDone)

-----------------------------------------------------------------------------
(* The stack. *)

Top == konts[Len(konts)]

Entry(k, node, fn, td, cp, lv) ==
    [k |-> k, node |-> node, fn |-> fn, td |-> td, cp |-> cp, lv |-> lv]

\* An entry of the same activation as e, directly above it.
Over(e, k, node) ==
    LET d == IF k = "dtry" THEN 1 ELSE 0 IN
    Entry(k, node, e.fn, e.td + d, e.cp, e.lv + d)

CallEntry(fn, pos, lv) == Entry("call", Nop, fn, 0, pos, lv)

Push(k, node) == Append(konts, Over(Top, k, node))
Below(i) == SubSeq(konts, 1, i - 1)
Pop == Below(Len(konts))
Topmost(P) == CHOOSE i \in P : \A j \in P : j <= i

\* current_handler(): the lexical handlers of the activation under position n.
Handlers(n) == {i \in DOMAIN konts :
                  Top.cp < i /\ i < n /\ konts[i].k \in {"ltry", "dtry"}}
Loops == {i \in DOMAIN konts : Top.cp < i /\ konts[i].k = "loop"}

Goto(ks, n) == konts' = ks /\ cur' = n /\ UNCHANGED status
Stop(how) == status' = how /\ UNCHANGED <<cur, konts>>

\* Control enters the catch block of the try entry at position h.
EnterCatch(h) == Goto(Append(Below(h), Over(konts[h - 1], "catch", konts[h].node)),
                      konts[h].node.b)

-----------------------------------------------------------------------------
(* The runtime: __hc_try_push, __hc_try_pop, throw and PutExcept of rt.c. *)

\* Mutant: the jmp_buf is indexed before the decrement.
rt_throw_index(ch) ==
    /\ except_ch' = ch
    /\ catch_except' = FALSE
    /\ IF hc_ntry = 0 THEN Stop("unhandled") /\ UNCHANGED frames
       ELSE LET h == IF hc_ntry < TryMax THEN hc_frames[hc_ntry + 1] ELSE 0 IN
            /\ hc_ntry' = hc_ntry - 1
            /\ UNCHANGED hc_frames
            /\ IF h \in DOMAIN konts /\ konts[h].k = "dtry"
               THEN EnterCatch(h)
               ELSE Stop("wild")

\* Mutant: catch_except keeps its value.
rt_throw_keeps(ch) ==
    /\ except_ch' = ch
    /\ UNCHANGED catch_except
    /\ IF hc_ntry = 0 THEN Stop("unhandled") /\ UNCHANGED frames
       ELSE /\ hc_ntry' = hc_ntry - 1
            /\ UNCHANGED hc_frames
            /\ EnterCatch(hc_frames[hc_ntry])

\* A jmp_buf whose stack position no longer holds its setjmp is a wild jump.
rt_throw(ch) ==
    /\ except_ch' = ch
    /\ catch_except' = FALSE
    /\ IF hc_ntry = 0 THEN Stop("unhandled") /\ UNCHANGED frames
       ELSE LET h == hc_frames[hc_ntry] IN
            /\ hc_ntry' = hc_ntry - 1
            /\ UNCHANGED hc_frames
            /\ IF h \in DOMAIN konts /\ konts[h].k = "dtry"
               THEN EnterCatch(h)
               ELSE Stop("wild")

\* Mutant: the limit is off by one.
try_full_late == hc_ntry > TryMax
try_full == hc_ntry >= TryMax

PutExcept(v) == catch_except' = v /\ UNCHANGED except_ch

-----------------------------------------------------------------------------
(* Statements, as back_c.c and back_ll.c emit them. *)

\* emit_local_throw: a goto, when the nearest handler is lexical.
LocalHandler(n) == Handlers(n) # {} /\ konts[Topmost(Handlers(n))].k = "ltry"

emit_throw(ch) ==
    IF LocalHandler(Len(konts) + 1)
    THEN /\ except_ch' = ch
         /\ catch_except' = FALSE
         /\ EnterCatch(Topmost(Handlers(Len(konts) + 1)))
         /\ UNCHANGED frames
    ELSE rt_throw(ch)

ExecThrow == cur.op = "throw" /\ emit_throw(cur.ch)
ExecThrowExpr == cur.op = "throwx" /\ rt_throw(cur.ch)
ExecSeq == cur.op = "seq" /\ Goto(Push("seq", cur.b), cur.a) /\ UNCHANGED <<Fs, frames>>
ExecIf == /\ cur.op = "if"
          /\ Goto(konts, cur.a) \/ Goto(konts, cur.b)
          /\ UNCHANGED <<Fs, frames>>
ExecLoop == cur.op = "loop" /\ Goto(Push("loop", cur), Nop) /\ UNCHANGED <<Fs, frames>>
ExecExcept == /\ cur.op = "except"
              /\ PutExcept(cur.v)
              /\ Goto(konts, Nop)
              /\ UNCHANGED frames

\* break is a plain goto to the end of the loop: no frame is popped.
ExecBreak == /\ cur.op = "break"
             /\ Loops # {}
             /\ Goto(Below(Topmost(Loops)), Nop)
             /\ UNCHANGED <<Fs, frames>>

\* Externs that may throw do so through the runtime's throw.
ExecExtern ==
    /\ cur.op \in {"call", "icall"}
    /\ cur.fn \in Externs
    /\ \/ Goto(konts, Nop) /\ UNCHANGED <<Fs, frames>>
       \/ (cur.fn \notin Prelude \/ cur.fn \in ThrowingPrelude) /\ \E ch \in Chars : rt_throw(ch)

ExecCall ==
    /\ cur.op \in {"call", "icall"}
    /\ cur.fn \in Bodied
    /\ Len(konts) < MaxStack
    /\ Goto(Append(konts, CallEntry(cur.fn, Len(konts) + 1, Top.lv)), prog[cur.fn])
    /\ UNCHANGED <<Fs, frames>>

\* The C stack is full: the process ends.
StackOverflow ==
    /\ cur.op \in Calls
    /\ cur.fn \in Bodied
    /\ Len(konts) >= MaxStack
    /\ Stop("overflow")
    /\ UNCHANGED <<Fs, frames>>

\* ND_RETURN pops the frames of the enclosing dynamic try blocks, then returns.
pop_frames == hc_ntry' = hc_ntry - Top.td /\ UNCHANGED hc_frames

ExecReturn ==
    /\ cur.op = "return"
    /\ pop_frames
    /\ Goto(SubSeq(konts, 1, Top.cp), Nop)
    /\ UNCHANGED Fs

\* The activation's entries once its frames are popped.
Disarmed ==
    [i \in DOMAIN konts |->
       IF i <= Top.cp THEN konts[i]
       ELSE Entry(IF konts[i].k = "dtry" THEN "popped" ELSE konts[i].k,
                  konts[i].node, konts[i].fn, 0, konts[i].cp, konts[Top.cp].lv)]

\* return f(): the frames are popped before the operand is evaluated.
ExecReturnCall ==
    /\ cur.op = "retcall"
    /\ cur.fn \in Bodied
    /\ Len(konts) < MaxStack
    /\ pop_frames
    /\ LET ks == Append(Disarmed, Over(Disarmed[Len(konts)], "ret", Nop))
       IN Goto(Append(ks, CallEntry(cur.fn, Len(konts) + 2, konts[Top.cp].lv)), prog[cur.fn])
    /\ UNCHANGED Fs

\* ND_TRY under its three lowerings.
ExecTry ==
    /\ cur.op = "try"
    /\ LET mode == try_mode(can_throw, cur) IN
       IF mode # "dtry" THEN Goto(Push(mode, cur), cur.a) /\ UNCHANGED frames
       ELSE IF try_full THEN Stop("toodeep") /\ UNCHANGED frames
       ELSE /\ hc_frames' = [hc_frames EXCEPT ![hc_ntry + 1] = Len(konts) + 1]
            /\ hc_ntry' = hc_ntry + 1
            /\ Goto(Push(mode, cur), cur.a)
    /\ UNCHANGED Fs

-----------------------------------------------------------------------------
(* Control reaches the end of the block on top of the stack. *)

EndSeq == Top.k = "seq" /\ Goto(Pop, Top.node) /\ UNCHANGED <<Fs, frames>>
EndLoopBody == /\ Top.k = "loop"
               /\ Goto(konts, Top.node.a) \/ Goto(Pop, Nop)
               /\ UNCHANGED <<Fs, frames>>

\* Mutant: the frame is left behind.
EndTryKeepsFrame == /\ Top.k \in {"ntry", "ltry", "dtry"}
                    /\ Goto(Pop, Nop)
                    /\ UNCHANGED <<Fs, frames>>

\* Only a dynamic try has a frame to pop.
EndTry == /\ Top.k \in {"ntry", "ltry", "dtry"}
          /\ hc_ntry' = (IF Top.k = "dtry" THEN hc_ntry - 1 ELSE hc_ntry)
          /\ Goto(Pop, Nop)
          /\ UNCHANGED <<Fs, hc_frames>>

EndOperand == /\ Top.k = "ret"
              /\ Goto(SubSeq(konts, 1, Top.cp), Nop)
              /\ UNCHANGED <<Fs, frames>>
EndCall == /\ Top.k = "call"
           /\ IF Len(konts) > 1 THEN Goto(Pop, Nop) ELSE Stop("done")
           /\ UNCHANGED <<Fs, frames>>

\* emit_rethrow: an unconsumed exception goes to the next outer handler.
emit_rethrow ==
    IF LocalHandler(Len(konts))
    THEN EnterCatch(Topmost(Handlers(Len(konts)))) /\ UNCHANGED <<Fs, frames>>
    ELSE rt_throw(except_ch)

EndCatch == /\ Top.k = "catch"
            /\ IF catch_except THEN Goto(Pop, Nop) /\ UNCHANGED <<Fs, frames>>
               ELSE emit_rethrow

Resume == cur = Nop /\ (EndSeq \/ EndLoopBody \/ EndTry \/ EndOperand \/ EndCall \/ EndCatch)

Run == /\ status = "run"
       /\ \/ ExecThrow \/ ExecThrowExpr \/ ExecSeq \/ ExecIf \/ ExecLoop \/ ExecExcept
          \/ ExecBreak \/ ExecExtern \/ ExecCall \/ ExecReturn \/ ExecReturnCall
          \/ StackOverflow \/ ExecTry \/ Resume
       /\ UNCHANGED <<prog, analysis>>

-----------------------------------------------------------------------------
Init ==
    /\ prog \in Programs
    /\ status = "analyze"
    /\ can_throw = [fn \in Funcs |-> fn \in Externs /\ extern_can_throw(fn)]
    /\ next_fn = 1
    /\ changed = FALSE
    /\ cur = prog[Startup]
    /\ konts = <<CallEntry(Startup, 1, 0)>>
    /\ except_ch = NoChar
    /\ catch_except = FALSE
    /\ hc_frames = [n \in 1..TryMax |-> 0]
    /\ hc_ntry = 0

\* The program has ended.
Ended == status \notin {"analyze", "run"} /\ UNCHANGED vars

Next == Analyze \/ Run \/ Ended

Spec == Init /\ [][Next]_vars

\* The compiler's loop runs on until it ends.
FairSpec == Spec /\ WF_vars(Analyze)

-----------------------------------------------------------------------------
(* Properties. *)

Kinds == {"call", "seq", "loop", "ntry", "ltry", "dtry", "popped", "catch", "ret"}
Bodies == {"ntry", "ltry", "dtry", "popped"}

StackEntry == [k : Kinds, node : Stmts, fn : Funcs, td : Nat, cp : Nat, lv : Nat]

\* Every variable has its type; the stack is never empty and hc_ntry stays
\* within the array hc_frames of rt.c.
TypeOK ==
    /\ prog \in Programs
    /\ status \in {"analyze", "run", "done", "unhandled", "toodeep", "wild", "overflow"}
    /\ can_throw \in [Funcs -> BOOLEAN]
    /\ next_fn \in 1..(Len(FuncList) + 1)
    /\ changed \in BOOLEAN
    /\ cur \in Stmts
    /\ konts \in Seq(StackEntry) /\ konts # <<>>
    /\ except_ch \in Chars
    /\ catch_except \in BOOLEAN
    /\ hc_frames \in [1..TryMax -> Nat]
    /\ hc_ntry \in 0..TryMax

Armed == {i \in DOMAIN konts : konts[i].k = "dtry"}

\* The frame stack of rt.c mirrors the C stack: the frames below hc_ntry are
\* exactly the dynamic try bodies being executed, innermost last.  This is
\* what makes the longjmp of throw defined: its setjmp has not returned.
FramesMatchStack ==
    status # "wild" =>
       /\ \A n \in 1..hc_ntry : hc_frames[n] \in Armed
       /\ \A m, n \in 1..hc_ntry : m < n => hc_frames[m] < hc_frames[n]
       /\ \A i \in Armed : \E n \in 1..hc_ntry : hc_frames[n] = i

\* throw never longjmps to a frame whose setjmp is gone.
NoWildJump == status # "wild"

\* The functions effects.c marks are the least set closed under "a body that
\* may throw marks its function", whatever the order of prog->funcs: nothing
\* that throws is missed, and a quiet recursive cycle stays quiet.
Closed(S) == \A fn \in Bodied \ {Startup} :
                effect([f \in Funcs |-> f \in S])[prog[fn]] # {} => fn \in S
Marked == {fn \in Funcs \ {Startup} : can_throw[fn]}
AnalysisExact ==
    status \notin {"analyze"} =>
       /\ Closed(Marked)
       /\ \A fn \in Marked \ Externs :
             ~\E S \in SUBSET (Marked \ {fn}) : Marked \cap Externs \subseteq S /\ Closed(S)

\* The do ... while (changed) loop of analyze_exceptions ends.
AnalysisTerminates == <>(status # "analyze")

\* The step enters a catch block, or ends the program for want of one.
Catching == /\ status = "run" /\ status' = "run"
            /\ konts' # konts
            /\ konts'[Len(konts')].k = "catch"
            /\ \/ Len(konts') <= Len(konts) /\ konts[Len(konts')].k \in Bodies
               \/ Len(konts') > Len(konts)
Dying == status = "run" /\ status' = "unhandled"
Unwound == IF Dying THEN DOMAIN konts ELSE (Len(konts') + 1)..Len(konts)

\* An exception never leaves a function the analysis calls quiet: callers of
\* such a function were compiled without a handler.
QuietFunctionsStayQuiet ==
    [][Catching \/ Dying =>
         \A i \in Unwound : konts[i].k = "call" => can_throw[konts[i].fn]]_vars

\* "otherwise the search continues with the next outer handler": no try body
\* of any lowering is skipped between a throw and the catch that receives it.
InnermostHandler ==
    [][Catching \/ Dying => \A i \in Unwound : konts[i].k \notin Bodies]_vars

\* The three lowerings, the analysis that chooses them and the frame stack
\* implement the handler search of the language: innermost block first.
AbstractKind(k) == IF k \in Bodies THEN "try" ELSE k
Sem == INSTANCE ExcSemantics WITH
    status <- IF status \in {"analyze", "overflow"} THEN "run" ELSE status,
    konts <- [i \in DOMAIN konts |-> [k |-> AbstractKind(konts[i].k),
                                      node |-> konts[i].node, fn |-> konts[i].fn]]
ImplementsHandlerSearch == Sem!Spec
=============================================================================
