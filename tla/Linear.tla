------------------------------- MODULE Linear -------------------------------
(***************************************************************************)
(* Linear code, how the backends that emit it go through a tree, and the   *)
(* machine that runs it: LLVM's basic blocks and the numbered blocks of a  *)
(* JavaScript function without native control flow.                        *)
(*                                                                         *)
(* emit_stmt calls itself for the bodies of a statement.  todo is what the *)
(* calls still have to do, the innermost first: statements to emit, and    *)
(* what follows a body in the statement that contains it.                  *)
(***************************************************************************)
EXTENDS ControlTree, TLC

CONSTANTS
    Vals,        \* values an input may have
    MaxInputs    \* inputs of one run; a run that wants more is starved
ASSUME LinearAssumption == Vals \subseteq Nat /\ MaxInputs \in Nat

VARIABLES
    phase,     \* "source", "emit", "print", "run", "text", or how it ended
    todo,      \* what is left to emit
    em,        \* the emitter: its code and what it keeps track of
    code,      \* the finished code: what the machine executes
    pc,        \* the next instruction
    env,       \* the function's temporaries
    ins,       \* the inputs read so far
    out        \* the events so far

run == <<pc, env, ins, out>>
emission == <<todo, em>>
lvars == <<phase, emission, code, run>>

Idling == pc = 1 /\ env = <<>> /\ ins = <<>> /\ out = <<>>

(***************************************************************************)
(* Instructions, and the work that is left of a statement.                 *)
(***************************************************************************)
Lbl(l) == [op |-> "label", l |-> l]
Br(l) == [op |-> "br", l |-> l]
CondBr(c, tl, fl) == [op |-> "condbr", c |-> c, t |-> tl, f |-> fl]
Ret == [op |-> "ret"]
Expr(n) == [op |-> "expr", n |-> n]

Join(l, at) == [k |-> "join", l |-> l, at |-> at]   \* jump to l, go on at label at
TestOf(n, hl, bl, el) == [k |-> "test", cond |-> n.cond, hl |-> hl, bl |-> bl, el |-> el]

Top == Head(todo)
Emitting(kinds) == phase = "emit" /\ todo # <<>> /\ Top.k \in kinds
Does(e, items) == /\ em' = e
                  /\ todo' = items \o Tail(todo)
                  /\ UNCHANGED <<phase, code, run>>

(***************************************************************************)
(* The machine.                                                            *)
(***************************************************************************)
Ins == code[pc]
At(op) == phase = "run" /\ Ins.op = op
Goto(l) == pc' = CHOOSE i \in DOMAIN code : code[i] = Lbl(l)
Static == UNCHANGED <<code, emission>>
Onwards == pc' = pc + 1 /\ UNCHANGED phase

ExecLabel == At("label") /\ Onwards /\ Static /\ UNCHANGED <<env, ins, out>>
ExecBr == At("br") /\ Goto(Ins.l) /\ Static /\ UNCHANGED <<phase, env, ins, out>>
ExecRet == At("ret") /\ phase' = "done" /\ Static /\ UNCHANGED run

ExecOut == /\ At("expr") /\ Ins.n.k = "out"
           /\ out' = Append(out, <<Ins.n.e, Ins.n.by>>)
           /\ Onwards /\ Static /\ UNCHANGED <<env, ins>>
ExecSet == /\ At("expr") /\ Ins.n.k = "set"
           /\ env' = (Ins.n.v :> Ins.n.n) @@ env
           /\ Onwards /\ Static /\ UNCHANGED <<ins, out>>

\* An input: some value, or none left.
Wanting == \/ At("expr") /\ Ins.n.k = "read"
           \/ At("condbr") /\ Ins.c.t = "ask"
Read(v) == Len(ins) < MaxInputs /\ ins' = Append(ins, v)
Starve == /\ Wanting /\ Len(ins) >= MaxInputs
          /\ phase' = "starved"
          /\ Static /\ UNCHANGED run

ExecRead == /\ At("expr") /\ Ins.n.k = "read"
            /\ \E v \in Vals : Read(v) /\ env' = (Ins.n.v :> v) @@ env
            /\ Onwards /\ Static /\ UNCHANGED out
ExecAsk == /\ At("condbr") /\ Ins.c.t = "ask"
           /\ \E v \in Vals : Read(v) /\ Goto(IF v # 0 THEN Ins.t ELSE Ins.f)
           /\ Static /\ UNCHANGED <<phase, env, out>>
ExecTest == /\ At("condbr") /\ Ins.c.t = "in"
            /\ Goto(IF Value(env, Ins.c.v) \in Ins.c.lo .. Ins.c.hi THEN Ins.t ELSE Ins.f)
            /\ Static /\ UNCHANGED <<phase, env, ins, out>>

Exec == ExecLabel \/ ExecBr \/ ExecRet \/ ExecOut \/ ExecSet \/ ExecRead \/ ExecAsk \/ ExecTest
          \/ Starve

(***************************************************************************)
(* Properties.                                                             *)
(***************************************************************************)
(* Types; the machine never runs off its code.                             *)
TypeOK ==
    /\ phase \in {"source", "emit", "print", "run", "text",
                  "done", "starved", "rejected", "toobig"}
    /\ phase = "run" => pc \in DOMAIN code
    /\ ins \in Seq(Vals) /\ Len(ins) <= MaxInputs

(* Linear code is a list of blocks: each is closed by a terminator before  *)
(* the next label, nothing but a label follows a terminator, and a target  *)
(* is placed once.  LLVM refuses anything else; in JavaScript control      *)
(* would run into the block that happens to be written next.               *)
Terminator(i) == i.op \in {"br", "condbr", "ret"}
Targets(i) == CASE i.op = "br" -> {i.l} [] i.op = "condbr" -> {i.t, i.f} [] OTHER -> {}
BlocksClosed ==
    phase = "run" =>
      /\ Terminator(code[Len(code)])
      /\ \A i \in 1 .. Len(code) - 1 : Terminator(code[i]) <=> code[i + 1].op = "label"
      /\ \A i \in DOMAIN code : \A l \in Targets(code[i]) :
           Cardinality({j \in DOMAIN code : code[j] = Lbl(l)}) = 1
=============================================================================
