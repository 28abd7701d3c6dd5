------------------------------- MODULE Control -------------------------------
(***************************************************************************)
(* One function of a HolyC program from source to execution: the parser    *)
(* lowers it (ControlParse), a backend emits it (BackC, BackLl, BackJs),   *)
(* and the emitted code runs, reading inputs that nobody knows beforehand. *)
(* Meaning, of ControlLang, says what the source promised.                 *)
(***************************************************************************)
EXTENDS ControlParse, BackC, BackJsNative, BackLl, BackJs

CONSTANTS
    Programs,    \* function bodies, as sequences of statements
    Backends     \* a subset of {"c", "llvm", "js"}
ASSUME ControlAssumption == Backends \subseteq {"c", "llvm", "js"}

VARIABLES
    prog,      \* the source
    backend    \* the backend that compiles it

source == <<prog, backend>>
vars == <<source, lvars>>

Init ==
    /\ prog \in Programs
    /\ backend \in Backends
    /\ phase = "source"
    /\ todo = <<>> /\ em = IF backend = "llvm" THEN LlStart ELSE JsStart
    /\ code = <<>> /\ Idling

(***************************************************************************)
(* Compilation.                                                            *)
(***************************************************************************)
Structured == backend = "c" \/ (backend = "js" /\ native(parse(prog)))

Reject == /\ phase = "source"
          /\ rejected(prog)
          /\ phase' = "rejected"
          /\ UNCHANGED <<source, emission, code, run>>

EmitText == /\ phase = "source"
            /\ ~ rejected(prog)
            /\ Structured
            /\ phase' = "text"
            /\ code' = IF backend = "c" THEN emit_inner(parse(prog))
                       ELSE emit_native(parse(prog))
            /\ UNCHANGED <<source, emission, run>>

\* From here on LlSpec or JsSpec of the tree: LlInit(todo) or JsInit(todo) holds.
EmitLinear == /\ phase = "source"
              /\ ~ rejected(prog)
              /\ ~ Structured
              /\ phase' = "emit"
              /\ todo' = parse(prog)
              /\ UNCHANGED <<source, em, code, run>>

EmitLl == backend = "llvm" /\ LlStep /\ UNCHANGED source
EmitJs == backend = "js" /\ JsStep /\ UNCHANGED source

(***************************************************************************)
(* Execution.                                                              *)
(***************************************************************************)
RunLinear == Exec /\ UNCHANGED source

\* Structured text runs as C or JavaScript runs it, on inputs it all reads.
RunText ==
    /\ phase = "text"
    /\ \E v \in BoundedSeq(Vals, MaxInputs) :
         LET r == Meaning(code, v) IN
         /\ r.ins = <<>>
         /\ r.how = "starved" => Len(v) = MaxInputs
         /\ phase' = IF r.how = "starved" THEN "starved" ELSE "done"
         /\ out' = r.out /\ ins' = v
    /\ UNCHANGED <<source, emission, code, pc, env>>

Ended == phase \in {"done", "starved", "rejected", "toobig"}
Idle == Ended /\ UNCHANGED vars

Next == Reject \/ EmitText \/ EmitLinear \/ EmitLl \/ EmitJs \/ RunLinear \/ RunText \/ Idle

Spec == Init /\ [][Next]_vars

(***************************************************************************)
(* Properties.                                                             *)
(***************************************************************************)
(* A for loop whose clauses the JavaScript text does not keep.             *)
Lossy(s) == s.k = "for" /\ (for_clause(local_decl(s.init)) # s.init \/ for_clause(s.inc) # s.inc)

(* The emitted code reads the inputs the source reads, reports the events  *)
(* the source reports in their order, and ends when it ends: which case a  *)
(* switch selects, whether the porch ran, where break, goto and fall       *)
(* through lead (switch_stmt, stmt; emit_stmt of the three backends).      *)
Faithful == LET r == Meaning(prog, ins) IN
            /\ r.out = out
            /\ r.ins = <<>>
            /\ (r.how = "starved") <=> (phase = "starved")
AsWritten == phase \in {"done", "starved"} => Faithful

(* The same, but for the lossy for loops of native JavaScript functions.   *)
RunsAsWritten ==
    AsWritten \/ (backend = "js" /\ Structured /\ \E s \in Within(prog) : Lossy(s))

\* The labels that each statement of a tree defines, itself or inside.
RECURSIVE Labels(_)
Labels(n) == IF n.k = "label" THEN {n.l}
             ELSE UNION {Labels(Inside(n)[i]) : i \in DOMAIN Inside(n)}
LabelsOf(S) == [n \in S |-> Labels(n)]

(* The parser refuses exactly the functions that mean nothing: a break     *)
(* outside of a loop or switch, nested, unpaired or too many start:/end:   *)
(* groups, a goto to an undefined label (the error_tok calls of stmt,      *)
(* switch_stmt and check_labels).  It gives the backends trees in which    *)
(* no label is defined twice and every goto has its label.                 *)
Diagnosed ==
    /\ Ended => (phase = "rejected" <=> ~ Legal(prog, MaxGroups))
    /\ phase = "emit" /\ em = LlStart => Labelling(todo, Within(todo), LabelsOf(Within(todo)))
=============================================================================
