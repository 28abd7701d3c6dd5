------------------------------ MODULE ExcLang ------------------------------
(***************************************************************************)
(* The fragment of the HolyC syntax tree that exceptions depend on: the    *)
(* statement forms of parse.c that call, branch, loop, return, throw and   *)
(* catch.  A statement is a record whose field op names the form; its      *)
(* children are the fields a and b, its callee the field fn.  Conditions   *)
(* and values are abstracted away: an "if" or a "loop" may go either way.  *)
(*                                                                         *)
(*   nop               ND_NOP, and any statement with no effect here       *)
(*   seq    a b        two statements of an ND_BLOCK                       *)
(*   if     a b        ND_IF                                               *)
(*   loop   a          ND_WHILE, ND_DOWHILE and ND_FOR                     *)
(*   break             the ND_GOTO to the loop's end label                 *)
(*   call   fn         ND_CALL of a function the parser resolved           *)
(*   icall  fn         ND_CALL through a pointer that happens to hold fn   *)
(*   throw  ch         ND_EXPR_STMT whose expression is a call of throw    *)
(*   throwx ch         a call of throw inside a larger expression          *)
(*   except v          Fs->catch_except = v, or PutExcept(v)               *)
(*   return            ND_RETURN without an expression that calls          *)
(*   retcall fn        ND_RETURN of an expression that calls fn (an extern *)
(*                     as operand is a function whose body calls it)       *)
(*   try    a b        ND_TRY: body a (Node.then), catch b (Node.els)      *)
(***************************************************************************)
EXTENDS Naturals, Sequences, FiniteSets

CONSTANTS
    Stmts,        \* every statement that occurs in a program
    FuncList,     \* prog->funcs: the names of the functions, in list order
    Startup,      \* prog->startup, the synthetic top-level function
    Prelude,      \* externs declared by runtime/prelude.hc
    UserExterns,  \* externs declared by the program itself
    Programs,     \* the programs: a body for each function that has one
    Chars         \* exception codes

Listed == {FuncList[i] : i \in 1..Len(FuncList)}
Externs == Prelude \cup UserExterns
Bodied == (Listed \ Externs) \cup {Startup}
Funcs == Listed \cup {Startup}

Nop == [op |-> "nop"]

Binary == {"seq", "if", "try"}
Calls == {"call", "icall", "retcall"}
Ops == Binary \cup Calls
         \cup {"nop", "loop", "break", "throw", "throwx", "except", "return"}

\* The statements inside a statement; size gets smaller towards them.
Children(n) == IF n.op \in Binary THEN {n.a, n.b}
               ELSE IF n.op = "loop" THEN {n.a} ELSE {}
Shrinks(size) == \A n \in Stmts : \A c \in Children(n) : size[c] < size[n]

\* The children and the callee of a statement are where they should be: the
\* source cannot name the startup function.
WellFormed(n) ==
    /\ n.op \in Ops
    /\ n.op \in Binary => n.a \in Stmts /\ n.b \in Stmts
    /\ n.op = "loop" => n.a \in Stmts
    /\ n.op \in Calls => n.fn \in Listed
    /\ n.op = "retcall" => n.fn \notin Externs
    /\ n.op \in {"throw", "throwx"} => n.ch \in Chars
    /\ n.op = "except" => n.v \in BOOLEAN

ASSUME StmtsAssumption == /\ Nop \in Stmts
                          /\ \A n \in Stmts : WellFormed(n)
ASSUME FuncsAssumption == /\ FuncList \in Seq(STRING)
                          /\ Startup \notin Listed
                          /\ Externs \subseteq Listed
                          /\ Prelude \cap UserExterns = {}
ASSUME ProgramsAssumption == Programs \subseteq [Bodied -> Stmts]

NoChar == 0
ASSUME CharsAssumption == NoChar \in Chars
=============================================================================
