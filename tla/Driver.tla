------------------------------- MODULE Driver -------------------------------
(***************************************************************************)
(* The driver: what aholyc_parseargv does to the world outside its         *)
(* instance.  src/aholyc.c decides which artifacts are written, which      *)
(* commands run and which files are removed; src/util.c runs the commands, *)
(* and an error anywhere runs the pending cleanups and longjmps out of the *)
(* call.  Instances run in threads of one process: they share the files    *)
(* and the disposition of SIGINT.                                          *)
(*                                                                         *)
(* A call is a plan, the sequence of operations its options lead to:       *)
(*   parse           lexing, parsing and checking the sources              *)
(*   emit f          write_file of the backend's output or of the runtime  *)
(*   copy f          js_build's copy of the artifact                       *)
(*   cmd f           run_cmd of a tool that makes f                        *)
(*   cmdok f         the same, only when the command before it succeeded   *)
(*   exec f          run_cmd of the program built                          *)
(*   load, unload    dlopen and dlclose of a #exe block                    *)
(*   mkdtemp f       the directory of a #exe block                         *)
(*   drop f          unlink or rmdir unless -k   unlink f   unlink always  *)
(*   check           error when the last command failed                    *)
(*   format f        fmt: read f, format it, verify the result             *)
(*   fopen, fwrite, rename f   fmt -w: write f.fmt.tmp and move it over f  *)
(***************************************************************************)
EXTENDS Naturals, Sequences, FiniteSets

CONSTANTS
    Instances,
    Requests,     \* the command lines, as records (see Plan)
    Out,          \* the -o path each instance is given
    Sources,      \* the files fmt is given, in order
    MaxCalls      \* bound: calls of aholyc_parseargv per instance

\* parseargv refuses run with the other modes; only run has no -o.
ASSUME RequestsAssumption ==
    /\ Requests # {}
    /\ \A q \in Requests : (q.tmpout => q.run) /\ (q.run => q.mode \in {"build", "link"})
    /\ Requests \subseteq
                       [mode : {"emit", "archive", "object", "build", "link", "fmt", "fmtshow"},
                        be : {"c", "clang", "llc", "none", "js"}, \* backend and its tool
                        src : BOOLEAN,      \* there are source files
                        exe : BOOLEAN,      \* ... with a #exe block
                        keep : BOOLEAN, run : BOOLEAN,
                        tmpout : BOOLEAN]   \* run without -o
ASSUME BoundAssumption == MaxCalls \in Nat
\* A source is none of the files a build writes, and no temporary of fmt.
ASSUME SourcesAssumption ==
    /\ Sources \in Seq({Sources[n] : n \in DOMAIN Sources})
    /\ \A n \in DOMAIN Sources : Sources[n] = <<Sources[n][1], "HC">>

VARIABLES
    pc,       \* idle, op, or inside run_cmd: ignored, child, reaped
    req, ops, \* the request and what is left of its plan
    r,        \* the last command's status: 0 or 1
    res,      \* how the last call ended: none, ok, fail
    cleanups, \* cc->cleanups: what an error would close
    held,     \* files and libraries the instance has open
    saved,    \* old_int of run_cmd
    calls,    \* calls made so far
    before,   \* history: the files there were when the call began
    stuck,    \* history: the files this call tried to remove and could not
    sigint,   \* the process's disposition of SIGINT
    host,     \* history: the disposition the embedding program chose
    files,    \* path -> the instance and the call that wrote the file; of
              \* sources and fmt's files: original, partial or formatted
    killed    \* a SIGINT ended the process

local == <<pc, req, ops, r, res, cleanups, held, saved, calls, before, stuck>>
vars == <<local, sigint, host, files, killed>>
history == <<calls, before, stuck, host>>

-----------------------------------------------------------------------------
(* Plans: parseargv, build_source, the backends' build and exe_run. *)

Op(o, f) == <<[op |-> o, f |-> f]>>
Temp(o, what) == <<o, what>>
Path(o) == <<o, "out">>

\* exe_run: in a directory of its own, the block's C file, its library, a load.
ExeFiles == {"block.c", "block.so"}
ExeOps(i) == LET c == Temp(i, "block.c") so == Temp(i, "block.so") dir == Temp(i, "exe") IN
    Op("mkdtemp", dir) \o Op("emit", c) \o Op("cmd", so) \o Op("check", so)
      \o Op("load", so) \o Op("unload", so)
      \o Op("drop", c) \o Op("drop", so) \o Op("drop", dir)

\* ll_build_obj, c_build_obj.
ObjectOps(be, target) == IF be = "none" THEN Op("fail", target) ELSE Op("cmd", target)

\* ll_build, c_build, js_build.
BuildOps(be, o, target) == LET rt == Temp(o, "rt.c") s == Temp(o, "s") IN
    CASE be = "clang" -> Op("emit", rt) \o Op("cmd", target) \o Op("drop", rt)
      [] be = "llc"   -> Op("emit", rt) \o Op("cmd", s) \o Op("cmdok", target)
                           \o Op("drop", s) \o Op("drop", rt)
      [] be = "none"  -> Op("emit", rt) \o Op("fail", target)
      [] be = "c"     -> Op("cmd", target)
      [] be = "js"    -> Op("copy", target)

\* Mutant: an error return before the artifact is removed.
build_source_checks_first(q, o, target, object) == LET art == Temp(o, "artifact") IN
    Op("emit", art)
      \o (IF object THEN ObjectOps(q.be, target) ELSE BuildOps(q.be, o, target))
      \o Op("check", target)

build_source(q, o, target, object) == LET art == Temp(o, "artifact") IN
    Op("emit", art)
      \o (IF object THEN ObjectOps(q.be, target) ELSE BuildOps(q.be, o, target))
      \o Op("drop", art) \o Op("check", target)

\* 'run' without -o removes the scratch binary.
RunOps(q, o) == IF ~q.run THEN <<>>
                ELSE Op("exec", Path(o)) \o (IF q.tmpout THEN Op("drop", Path(o)) ELSE <<>>)

LinkOps(q, o) == LET obj == Temp(o, "o") rt == Temp(o, "aholycrt.c") IN
    (IF q.src THEN build_source(q, o, obj, TRUE) ELSE <<>>)
      \o Op("emit", rt) \o Op("cmd", Path(o)) \o Op("drop", rt)
      \o (IF q.src THEN Op("drop", obj) ELSE <<>>) \o Op("check", Path(o))

ArchiveOps(q, o) == LET obj == Temp(o, "o") IN
    (IF q.src THEN build_source(q, o, obj, TRUE) ELSE <<>>)
      \o Op("unlink", Path(o)) \o Op("cmd", Path(o)) \o Op("check", Path(o))
      \o (IF q.src THEN Op("drop", obj) ELSE <<>>)

ParseOps(q, i) == IF ~q.src THEN <<>>
                  ELSE IF q.exe THEN Op("parse", i) \o ExeOps(i) \o Op("parse", i)
                  ELSE Op("parse", i)

\* fmt_main: -w replaces the files that change, -q and stdout only look.
FmtInPlace(f) == f
FmtTmp(f) == Temp(f[1], "fmt.tmp")
\* The files in order, each with its steps.
fmt_main(write) ==
    LET steps == IF write THEN <<"format", "fopen", "fwrite", "rename">> ELSE <<"format">>
        k == Len(steps) IN
    [j \in 1..(k * Len(Sources)) |->
       [op |-> steps[((j - 1) % k) + 1], f |-> Sources[((j - 1) \div k) + 1]]]

OutPath(q, i) == IF q.tmpout THEN ".a.out" ELSE Out[i]

Plan(q, i) == LET o == OutPath(q, i) IN
    ParseOps(q, i)
      \o CASE q.mode = "emit"    -> Op("emit", Path(o))
           [] q.mode = "fmt"     -> fmt_main(TRUE)
           [] q.mode = "fmtshow" -> fmt_main(FALSE)
           [] q.mode = "archive" -> ArchiveOps(q, o)
           [] q.mode = "object"  -> build_source(q, o, Path(o), TRUE)
           [] q.mode = "link"    -> LinkOps(q, o) \o RunOps(q, o)
           [] q.mode = "build"   -> build_source(q, o, Path(o), FALSE) \o RunOps(q, o)

-----------------------------------------------------------------------------
(* Steps. *)

Set(f, i, v) == [f EXCEPT ![i] = v]
Cur(i) == Head(ops[i])
At(i, O) == pc[i] = "op" /\ ops[i] # <<>> /\ Cur(i).op \in O
Done(i) == ops' = Set(ops, i, Tail(ops[i]))
Without(f, p) == [x \in DOMAIN f \ {p} |-> f[x]]
With(f, p, v) == [x \in DOMAIN f \cup {p} |-> IF x = p THEN v ELSE f[x]]

Start(i) ==
    /\ pc[i] = "idle" /\ calls[i] < MaxCalls
    /\ \E q \in Requests : req' = Set(req, i, q) /\ ops' = Set(ops, i, Plan(q, i))
    /\ pc' = Set(pc, i, "op")
    /\ r' = Set(r, i, 0)
    /\ res' = Set(res, i, "none")
    /\ calls' = Set(calls, i, calls[i] + 1)
    /\ before' = Set(before, i, DOMAIN files)
    /\ stuck' = Set(stuck, i, {})
    /\ UNCHANGED <<cleanups, held, saved, sigint, host, files, killed>>

\* Mutant: the pending cleanups are forgotten.
halt_leaks(i) ==
    /\ pc' = Set(pc, i, "idle")
    /\ ops' = Set(ops, i, <<>>)
    /\ res' = Set(res, i, "fail")
    /\ UNCHANGED <<cleanups, held>>

\* error(): the pending cleanups run and the call ends.
halt(i) ==
    /\ pc' = Set(pc, i, "idle")
    /\ ops' = Set(ops, i, <<>>)
    /\ res' = Set(res, i, "fail")
    /\ cleanups' = Set(cleanups, i, <<>>)
    /\ held' = Set(held, i, held[i] \ {cleanups[i][n] : n \in DOMAIN cleanups[i]})

cleanup_push(i, f) == /\ cleanups' = Set(cleanups, i, Append(cleanups[i], f))
                      /\ held' = Set(held, i, held[i] \cup {f})
cleanup_pop(i) == /\ cleanups' = Set(cleanups, i, SubSeq(cleanups[i], 1, Len(cleanups[i]) - 1))
                  /\ held' = Set(held, i, held[i] \ {cleanups[i][Len(cleanups[i])]})

Parse(i) ==
    /\ At(i, {"parse"})
    /\ \/ Done(i) /\ UNCHANGED <<pc, res, cleanups, held>>
       \/ halt(i)
    /\ UNCHANGED <<req, r, saved, history, sigint, files, killed>>

\* write_file: the file is open, with its cleanup pending.
Open(i) ==
    /\ At(i, {"emit"}) /\ held[i] = {}
    /\ \/ /\ cleanup_push(i, Cur(i).f)
          /\ files' = With(files, Cur(i).f, <<i, calls[i]>>)
          /\ UNCHANGED <<pc, ops, res>>
       \/ halt(i) /\ UNCHANGED files
    /\ UNCHANGED <<req, r, saved, history, sigint, killed>>

\* ... written and closed; a short write is an error after the close.
Close(i) ==
    /\ At(i, {"emit"}) /\ held[i] # {}
    /\ cleanup_pop(i)
    /\ \/ Done(i) /\ UNCHANGED <<pc, res>>
       \/ /\ pc' = Set(pc, i, "idle")
          /\ ops' = Set(ops, i, <<>>)
          /\ res' = Set(res, i, "fail")
    /\ UNCHANGED <<req, r, saved, history, sigint, files, killed>>

\* js_build's copy of the artifact, or mkdtemp: either is there or is an error.
Copy(i) ==
    /\ At(i, {"copy", "mkdtemp"})
    /\ \/ /\ Done(i)
          /\ files' = With(files, Cur(i).f, <<i, calls[i]>>)
          /\ UNCHANGED <<pc, res, cleanups, held>>
       \/ halt(i) /\ UNCHANGED files
    /\ UNCHANGED <<req, r, saved, history, sigint, killed>>

\* fmt_main: the source cannot be read or its formatted text fails ws_equal,
\* or it changes, or it needs no change and what is left to do for it is
\* skipped.
FmtRead(i) ==
    /\ At(i, {"format"})
    /\ \/ halt(i)
       \/ Done(i) /\ UNCHANGED <<pc, res, cleanups, held>>
       \/ /\ req[i].mode = "fmt"
          /\ ops' = Set(ops, i, SubSeq(ops[i], 5, Len(ops[i])))
          /\ UNCHANGED <<pc, res, cleanups, held>>
    /\ UNCHANGED <<req, r, saved, history, sigint, files, killed>>

\* ... the temporary is there, not yet written; no cleanup is pending for it.
FmtOpen(i) ==
    /\ At(i, {"fopen"})
    /\ \/ /\ Done(i)
          /\ files' = With(files, FmtTmp(Cur(i).f), "partial")
          /\ held' = Set(held, i, held[i] \cup {FmtTmp(Cur(i).f)})
          /\ UNCHANGED <<pc, res, cleanups>>
       \/ halt(i) /\ UNCHANGED files
    /\ UNCHANGED <<req, r, saved, history, sigint, killed>>

\* ... written and closed; a short write removes it.
FmtWrite(i) ==
    /\ At(i, {"fwrite"})
    /\ held' = Set(held, i, held[i] \ {FmtTmp(Cur(i).f)})
    /\ \/ /\ Done(i)
          /\ files' = With(files, FmtTmp(Cur(i).f), "formatted")
          /\ UNCHANGED <<pc, res>>
       \/ /\ files' = Without(files, FmtTmp(Cur(i).f))
          /\ pc' = Set(pc, i, "idle")
          /\ ops' = Set(ops, i, <<>>)
          /\ res' = Set(res, i, "fail")
    /\ UNCHANGED <<req, r, cleanups, saved, history, sigint, killed>>

\* ... and moved over the source.
FmtRename(i) ==
    /\ At(i, {"rename"})
    /\ LET tmp == FmtTmp(Cur(i).f) IN
       \/ /\ tmp \in DOMAIN files
          /\ files' = With(Without(files, tmp), Cur(i).f, files[tmp])
          /\ Done(i) /\ UNCHANGED <<pc, res, cleanups, held>>
       \/ /\ files' = Without(files, tmp)
          /\ halt(i)
    /\ UNCHANGED <<req, r, saved, history, sigint, killed>>

\* dlopen of a #exe block; the block runs until unload, and may fail the call.
Load(i) ==
    /\ At(i, {"load"})
    /\ \/ cleanup_push(i, Cur(i).f) /\ Done(i) /\ UNCHANGED <<pc, res>>
       \/ halt(i)
    /\ UNCHANGED <<req, r, saved, history, sigint, files, killed>>

Unload(i) ==
    /\ At(i, {"unload"})
    /\ \/ cleanup_pop(i) /\ Done(i) /\ UNCHANGED <<pc, res>>
       \/ halt(i)
    /\ UNCHANGED <<req, r, saved, history, sigint, files, killed>>

\* unlink and rmdir, their results ignored: what cannot be removed stays, and
\* the directory of a #exe block stays while a file is in it.
Removable(p) ==
    p[2] = "exe" => \A w \in ExeFiles : Temp(p[1], w) \notin DOMAIN files
Unlink(i) ==
    /\ At(i, {"drop", "unlink"})
    /\ \/ /\ Cur(i).op = "drop" => ~req[i].keep /\ Removable(Cur(i).f)
          /\ files' = Without(files, Cur(i).f)
          /\ UNCHANGED stuck
       \/ /\ Cur(i).op = "drop" => ~req[i].keep
          /\ Cur(i).f \in DOMAIN files
          /\ stuck' = Set(stuck, i, stuck[i] \cup {Cur(i).f})
          /\ UNCHANGED files
       \/ /\ Cur(i).op = "drop" /\ req[i].keep
          /\ UNCHANGED <<files, stuck>>
    /\ Done(i)
    /\ UNCHANGED <<pc, req, r, res, cleanups, held, saved, calls, before, host, sigint, killed>>

\* Mutant: the status of the command is forgotten.
CheckNothing(i) ==
    /\ At(i, {"check", "fail"})
    /\ Done(i)
    /\ UNCHANGED <<pc, req, r, res, cleanups, held, saved, history, sigint, files, killed>>

\* An error when the last command failed, or when there is no tool at all.
Check(i) ==
    /\ At(i, {"check", "fail"})
    /\ IF r[i] # 0 \/ Cur(i).op = "fail" THEN halt(i) ELSE Done(i) /\ UNCHANGED <<pc, res, cleanups, held>>
    /\ UNCHANGED <<req, r, saved, history, sigint, files, killed>>

SkipCmd(i) ==
    /\ At(i, {"cmdok"}) /\ r[i] # 0
    /\ Done(i)
    /\ UNCHANGED <<pc, req, r, res, cleanups, held, saved, history, sigint, files, killed>>

\* Mutant: the disposition in force is not saved.
IgnoreUnsaved(i) ==
    /\ At(i, {"cmd", "exec"}) \/ (At(i, {"cmdok"}) /\ r[i] = 0)
    /\ sigint' = "ignore"
    /\ pc' = Set(pc, i, "ignored")
    /\ UNCHANGED <<req, ops, r, res, cleanups, held, saved, history, files, killed>>

\* run_cmd: SIGINT is ignored while a command runs.
Ignore(i) ==
    /\ At(i, {"cmd", "exec"}) \/ (At(i, {"cmdok"}) /\ r[i] = 0)
    /\ saved' = Set(saved, i, sigint)
    /\ sigint' = "ignore"
    /\ pc' = Set(pc, i, "ignored")
    /\ UNCHANGED <<req, ops, r, res, cleanups, held, history, files, killed>>

\* Mutant: a failed spawn returns without restoring SIGINT.
SpawnFailsIgnoring(i) ==
    /\ pc[i] = "ignored"
    /\ halt(i)
    /\ UNCHANGED <<req, r, saved, history, sigint, files, killed>>

\* posix_spawn fails: a tool is missing, or the program is not there.
SpawnFails(i) ==
    /\ pc[i] = "ignored"
    /\ sigint' = saved[i]
    /\ halt(i)
    /\ UNCHANGED <<req, r, saved, history, files, killed>>

Spawn(i) ==
    /\ pc[i] = "ignored"
    /\ Cur(i).op = "exec" => Cur(i).f \in DOMAIN files
    /\ pc' = Set(pc, i, "child")
    /\ UNCHANGED <<req, ops, r, res, cleanups, held, saved, history, sigint, files, killed>>

\* The child ends; a tool that succeeds has made its file, one that fails may.
Reap(i) ==
    /\ pc[i] = "child"
    /\ \E s \in {0, 1}, made \in BOOLEAN :
          /\ Cur(i).op = "exec" => ~made
          /\ Cur(i).op # "exec" /\ s = 0 => made
          /\ r' = Set(r, i, s)
          /\ files' = IF made THEN With(files, Cur(i).f, <<i, calls[i]>>) ELSE files
    /\ pc' = Set(pc, i, "reaped")
    /\ UNCHANGED <<req, ops, res, cleanups, held, saved, history, sigint, killed>>

\* waitpid fails: the disposition is back before the error.
WaitFails(i) ==
    /\ pc[i] = "child"
    /\ sigint' = saved[i]
    /\ halt(i)
    /\ UNCHANGED <<req, r, saved, history, files, killed>>

\* Mutant: the disposition is put back before the wait.
RestoreDefault(i) ==
    /\ pc[i] \in {"child", "reaped"}
    /\ sigint' = saved[i]
    /\ pc' = IF pc[i] = "reaped" THEN Set(pc, i, "op") ELSE pc
    /\ IF pc[i] = "reaped" THEN Done(i) ELSE UNCHANGED ops
    /\ UNCHANGED <<req, r, res, cleanups, held, saved, history, files, killed>>

Restore(i) ==
    /\ pc[i] = "reaped"
    /\ sigint' = saved[i]
    /\ pc' = Set(pc, i, "op")
    /\ Done(i)
    /\ UNCHANGED <<req, r, res, cleanups, held, saved, history, files, killed>>

\* The plan is done: run returns the program's status, a build 0.
Finish(i) ==
    /\ pc[i] = "op" /\ ops[i] = <<>>
    /\ pc' = Set(pc, i, "idle")
    /\ res' = Set(res, i, "ok")
    /\ UNCHANGED <<req, ops, r, cleanups, held, saved, history, sigint, files, killed>>

\* The terminal's ^C, as the driver sees it; children decide for themselves.
Interrupt == /\ sigint = "default"
             /\ killed' = TRUE
             /\ UNCHANGED <<local, sigint, host, files>>

InstanceStep(i) ==
    \/ Start(i) \/ Parse(i) \/ Open(i) \/ Close(i) \/ Copy(i) \/ Load(i) \/ Unload(i)
    \/ FmtRead(i) \/ FmtOpen(i) \/ FmtWrite(i) \/ FmtRename(i)
    \/ Unlink(i) \/ Check(i) \/ SkipCmd(i) \/ Ignore(i) \/ SpawnFails(i) \/ Spawn(i)
    \/ Reap(i) \/ WaitFails(i) \/ Restore(i) \/ Finish(i)

Dispositions == {"default", "handler", "ignore"}

AllDone == \A i \in Instances : pc[i] = "idle" /\ calls[i] = MaxCalls
Ended == (killed \/ AllDone) /\ UNCHANGED vars

Init ==
    /\ pc = [i \in Instances |-> "idle"]
    /\ req \in [Instances -> {CHOOSE q \in Requests : TRUE}]
    /\ ops = [i \in Instances |-> <<>>]
    /\ r = [i \in Instances |-> 0]
    /\ res = [i \in Instances |-> "none"]
    /\ cleanups = [i \in Instances |-> <<>>]
    /\ held = [i \in Instances |-> {}]
    /\ saved = [i \in Instances |-> "unset"]
    /\ calls = [i \in Instances |-> 0]
    /\ before = [i \in Instances |-> {}]
    /\ stuck = [i \in Instances |-> {}]
    /\ host \in Dispositions
    /\ sigint = host
    /\ files = [x \in {Sources[n] : n \in DOMAIN Sources} |-> "original"]
    /\ killed = FALSE

Next == \/ ~killed /\ ((\E i \in Instances : InstanceStep(i)) \/ Interrupt)
        \/ Ended

Spec == Init /\ [][Next]_vars

-----------------------------------------------------------------------------
(* Properties. *)

InCmd(i) == pc[i] \in {"ignored", "child", "reaped"}
Finished(i) == pc[i] = "idle" /\ res[i] # "none"

\* Every variable has its type, and the pending cleanups fit their array.
TypeOK ==
    /\ \A i \in Instances :
          /\ pc[i] \in {"idle", "op"} \/ InCmd(i)
          /\ req[i] \in Requests
          /\ \A n \in DOMAIN ops[i] : DOMAIN ops[i][n] = {"op", "f"}
          /\ r[i] \in {0, 1}
          /\ res[i] \in {"none", "ok", "fail"}
          /\ Len(cleanups[i]) <= 8
          /\ saved[i] \in Dispositions \cup {"unset"}
          /\ calls[i] \in 0..MaxCalls
    /\ sigint \in Dispositions
    /\ killed \in BOOLEAN

\* run_cmd puts back the SIGINT disposition it found on every way out, the
\* error exits included: whenever no instance is inside it, the process has
\* the disposition its embedder chose.
SigintRestored == (\A i \in Instances : ~InCmd(i)) => sigint = host

\* ^C never ends the driver while a command it started is alive: "instead of
\* the driver dying and returning the shell while the child is still alive".
DriverOutlivesChild ==
    [][killed' /\ ~killed => \A i \in Instances : pc[i] # "child"]_vars

\* Whichever step fails, the error exit has closed every file and library the
\* call had open, and no cleanup is left for the next call to run again.
HandlesClosed ==
    \A i \in Instances : pc[i] = "idle" => held[i] = {} /\ cleanups[i] = <<>>

\* A call that succeeds without -k adds its output and no temporary, nor the
\* directory of a #exe block; run without -o adds nothing.  Only what the
\* system refuses to remove stays, and one refusal keeps no other file: a call
\* that ends with an error may leave any of them.
NothingLeft ==
    \A i \in Instances :
       Finished(i) /\ res[i] = "ok" /\ ~req[i].keep =>
          DOMAIN files \subseteq
             before[i] \cup stuck[i] \cup (IF req[i].tmpout THEN {} ELSE {Path(Out[i])})

\* "Formatting must never destroy code": whatever fails and whenever ^C ends
\* the process, every source is whole, as it was or formatted, and a call of
\* fmt that has ended, with an error too, leaves no temporary behind.
SourcesWhole ==
    \A n \in DOMAIN Sources :
       /\ Sources[n] \in DOMAIN files /\ files[Sources[n]] \in {"original", "formatted"}
       /\ (\A i \in Instances : pc[i] = "idle") => Temp(Sources[n][1], "fmt.tmp") \notin DOMAIN files

\* The program 'run' starts is the one this very call built, not the output
\* of an earlier call.
RunsOwnBuild ==
    \A i \in Instances : pc[i] = "child" /\ Cur(i).op = "exec" =>
       Cur(i).f \in DOMAIN files /\ files[Cur(i).f] = <<i, calls[i]>>
=============================================================================
