---------------------------- MODULE MCExceptions ----------------------------
(* Programs for Exceptions, built from a small grammar. *)
EXTENDS Exceptions

Throw(ch) == [op |-> "throw", ch |-> ch]
ThrowX(ch) == [op |-> "throwx", ch |-> ch]
Call(fn) == [op |-> "call", fn |-> fn]
ICall(fn) == [op |-> "icall", fn |-> fn]
RetCall(fn) == [op |-> "retcall", fn |-> fn]
Return == [op |-> "return"]
Break == [op |-> "break"]
Consume == [op |-> "except", v |-> TRUE]
Release == [op |-> "except", v |-> FALSE]
Loop(a) == [op |-> "loop", a |-> a]
Two(op, a, b) == [op |-> op, a |-> a, b |-> b]
Block(a, b) == Two("seq", a, b)
If(a, b) == Two("if", a, b)
Try(a, b) == Two("try", a, b)

\* The statement and everything inside it.
Grow(S) == S \cup UNION {Children(n) : n \in S}
Closure(S) == {n : n \in Grow(Grow(Grow(Grow(S \cup {Nop}))))}

MCFuncList == <<"f", "g", "q", "MAlloc", "Print", "ext">>
MCPrelude == {"MAlloc", "Print"}
MCUserExterns == {"ext"}
MCChars == {NoChar, 1, 2}

Catches == {Nop, Consume, Block(Consume, Throw(2)), Call("g"), Block(Consume, Release)}
Inner == {Throw(1), Call("f"), Call("g"), ICall("g"), Call("Print")}
Handled == {Try(a, c) : a \in Inner, c \in Catches}

\* Startup: a handler around another handler, or around what follows one.
Mains ==
    {Try(b, c) : b \in Handled \cup {Block(h, Throw(1)) : h \in Handled}, c \in {Nop, Consume}}
      \cup {Block(Try(If(h, Call("f")), Consume), Throw(2)) : h \in Handled}

Fs0 == {Call("g"),
        Try(Call("g"), Nop),
        Try(If(Return, Call("g")), Consume),
        Try(Block(Call("f"), ThrowX(1)), Consume)}
Gs == {Nop, Throw(2), Call("f"), Loop(Try(If(Throw(1), Break), Consume)),
       Try(If(Call("MAlloc"), Return), Nop), RetCall("f"),
       Try(If(Throw(1), RetCall("q")), Consume), If(Call("ext"), Call("Print")),
       Try(If(Call("MAlloc"), RetCall("q")), Consume)}

Program(m, f, g) == [fn \in {Startup, "f", "g", "q"} |->
                       CASE fn = Startup -> m [] fn = "f" -> f [] fn = "g" -> g
                         [] OTHER -> Loop(Break)]
Combine(M, F, G) == {Program(m, f, g) : m \in M, f \in F, g \in G}
BodiesOf(Ps) == UNION {{p[fn] : fn \in DOMAIN p} : p \in Ps}

\* return and break leave dynamic try blocks only where the code supports it.
SafePrograms == Combine(Mains, Fs0, Gs)
SafeStmts == Closure(Mains \cup Fs0 \cup Gs \cup {Loop(Break)})

\* return f() inside a try that needs a frame.
ReturnPrograms == Combine({Try(Call("f"), Consume)}, {Try(RetCall("g"), Nop)}, {Throw(1), Nop})

\* break out of a try that needs a frame, then a throw.
BreakPrograms == Combine({Block(Call("f"), If(Try(Call("g"), Consume), Call("g")))},
                         {Loop(Try(Block(Call("g"), Break), Consume))},
                         {If(Throw(1), Nop)})

\* Both ways of leaving such a try early.
LeavePrograms == ReturnPrograms \cup BreakPrograms
LeaveStmts == Closure(BodiesOf(LeavePrograms))

\* A catch block that runs a try of its own.
NestedPrograms == Combine({Try(Throw(1), Call("f"))}, {Try(Call("g"), Consume)}, {Throw(2), Nop})
NestedStmts == Closure(BodiesOf(NestedPrograms))

\* The statements are finite trees.
Size[n \in Stmts] == IF n.op \in Binary THEN 1 + Size[n.a] + Size[n.b]
                     ELSE IF n.op = "loop" THEN 1 + Size[n.a] ELSE 0
ASSUME TreesAssumption == Shrinks(Size)

\* Aliases for the configurations: TLC evaluates what stands behind them once.
MCPrograms == SafePrograms
MCStmts == SafeStmts
MCLeavePrograms == LeavePrograms
MCLeaveStmts == LeaveStmts
MCNestedPrograms == NestedPrograms
MCNestedStmts == NestedStmts
=============================================================================
