---------------------------- MODULE ExcSemantics ----------------------------
(***************************************************************************)
(* What exceptions promise (doc/language.md, "Exceptions"): a throw runs   *)
(* the catch block of the innermost try block that is executing, in        *)
(* whatever function; if the catch does not consume the exception the      *)
(* search continues with the next outer one; an exception with no handler  *)
(* left ends the program.  There is one handler stack, the stack of        *)
(* executing blocks itself: no effect analysis, no lowering, no jmp_bufs.  *)
(***************************************************************************)
EXTENDS ExcLang

CONSTANT TryMax   \* nesting the runtime supports (doc/language.md:468)

VARIABLES
    prog,         \* the program that runs
    status,       \* "run", or how it ended
    cur,          \* the statement to execute next; Nop: resume the stack
    konts,        \* the stack of blocks and calls being executed
    except_ch,    \* Fs->except_ch
    catch_except  \* Fs->catch_except

vars == <<prog, status, cur, konts, except_ch, catch_except>>

Top == konts[Len(konts)]
Entry(k, node, fn) == [k |-> k, node |-> node, fn |-> fn]
Push(k, node) == Append(konts, Entry(k, node, Top.fn))
PushCall(fn) == Append(konts, Entry("call", Nop, fn))
Below(i) == SubSeq(konts, 1, i - 1)
Pop == Below(Len(konts))

\* The topmost of the stack positions P.
Topmost(P) == CHOOSE i \in P : \A j \in P : j <= i
Activation == Topmost({i \in DOMAIN konts : konts[i].k = "call"})
Tries == {i \in DOMAIN konts : konts[i].k = "try"}
Loops == {i \in DOMAIN konts : konts[i].k = "loop" /\ i > Activation}

Init ==
    /\ prog \in Programs
    /\ status = "run"
    /\ cur = prog[Startup]
    /\ konts = <<Entry("call", Nop, Startup)>>
    /\ except_ch = NoChar
    /\ catch_except = FALSE

Fs == <<except_ch, catch_except>>
Goto(ks, n) == konts' = ks /\ cur' = n /\ UNCHANGED <<prog, status>>
Stop(how) == status' = how /\ UNCHANGED <<prog, cur, konts>>

\* Continue the search below the stack position n.
Search(n) ==
    LET H == {i \in Tries : i < n} IN
    IF H = {} THEN Stop("unhandled")
    ELSE LET h == Topmost(H) IN
         Goto(Append(Below(h), Entry("catch", konts[h].node, konts[h].fn)),
              konts[h].node.b)

Throw(ch) == /\ except_ch' = ch
             /\ catch_except' = FALSE
             /\ Search(Len(konts) + 1)

ExecThrow == cur.op \in {"throw", "throwx"} /\ Throw(cur.ch)
ExecSeq == cur.op = "seq" /\ Goto(Push("seq", cur.b), cur.a) /\ UNCHANGED Fs
ExecIf == cur.op = "if" /\ (Goto(konts, cur.a) \/ Goto(konts, cur.b)) /\ UNCHANGED Fs
ExecLoop == cur.op = "loop" /\ Goto(Push("loop", cur), Nop) /\ UNCHANGED Fs
ExecBreak == cur.op = "break" /\ Goto(Below(Topmost(Loops)), Nop) /\ UNCHANGED Fs
ExecExcept == /\ cur.op = "except"
              /\ catch_except' = cur.v
              /\ Goto(konts, Nop) /\ UNCHANGED except_ch
ExecReturn == /\ cur.op = "return"
              /\ Goto(SubSeq(konts, 1, Activation), Nop) /\ UNCHANGED Fs

\* A throwing extern either returns or throws; the others return.
ExecExtern ==
    /\ cur.op \in {"call", "icall"}
    /\ cur.fn \in Externs
    /\ \/ Goto(konts, Nop) /\ UNCHANGED Fs
       \/ \E ch \in Chars : Throw(ch)

ExecCall == /\ cur.op \in {"call", "icall"}
            /\ cur.fn \in Bodied
            /\ Goto(PushCall(cur.fn), prog[cur.fn])
            /\ UNCHANGED Fs

\* The operand of return is evaluated where the statement stands, inside the
\* try blocks around it; control leaves them when the callee has returned.
ExecReturnCall ==
    /\ cur.op = "retcall"
    /\ cur.fn \in Bodied
    /\ Goto(Append(Push("ret", Nop), Entry("call", Nop, cur.fn)), prog[cur.fn])
    /\ UNCHANGED Fs

ExecTry == /\ cur.op = "try"
           /\ \/ Goto(Push("try", cur), cur.a)
              \/ Cardinality(Tries) >= TryMax /\ Stop("toodeep")
           /\ UNCHANGED Fs

Resume ==
    /\ cur = Nop
    /\ \/ Top.k = "seq" /\ Goto(Pop, Top.node) /\ UNCHANGED Fs
       \/ Top.k = "loop" /\ (Goto(konts, Top.node.a) \/ Goto(Pop, Nop)) /\ UNCHANGED Fs
       \/ Top.k = "try" /\ Goto(Pop, Nop) /\ UNCHANGED Fs
       \/ Top.k = "ret" /\ Goto(SubSeq(konts, 1, Activation), Nop) /\ UNCHANGED Fs
       \/ Top.k = "call" /\ Len(konts) > 1 /\ Goto(Pop, Nop) /\ UNCHANGED Fs
       \/ Top.k = "call" /\ Len(konts) = 1 /\ Stop("done") /\ UNCHANGED Fs
       \/ Top.k = "catch" /\ catch_except /\ Goto(Pop, Nop) /\ UNCHANGED Fs
       \* the search goes on with the code the catch left in Fs
       \/ Top.k = "catch" /\ ~catch_except /\ Search(Len(konts)) /\ UNCHANGED Fs

Next ==
    /\ status = "run"
    /\ \/ ExecThrow \/ ExecSeq \/ ExecIf \/ ExecLoop \/ ExecBreak \/ ExecExcept
       \/ ExecReturn \/ ExecExtern \/ ExecCall \/ ExecReturnCall \/ ExecTry
       \/ Resume

Spec == Init /\ [][Next]_vars
=============================================================================
