------------------------------ MODULE MCDriver ------------------------------
(* Command lines for the driver. *)
EXTENDS Driver

Request(mode, be, src, exe, keep, run, tmpout) ==
    [mode |-> mode, be |-> be, src |-> src, exe |-> exe, keep |-> keep, run |-> run,
     tmpout |-> tmpout]

\* One instance: every mode with every backend that has it, with and without
\* -k, #exe and run.
Objects(keep) ==
    {Request("archive", "c", src, FALSE, keep, FALSE, FALSE) : src \in BOOLEAN}
    \cup {Request("object", be, TRUE, FALSE, keep, FALSE, FALSE) : be \in {"llc", "none"}}
    \cup {Request("link", "c", src, FALSE, keep, run, FALSE) : src, run \in BOOLEAN}
Programs(keep) ==
    {Request("build", be, TRUE, FALSE, keep, run, FALSE) :
       be \in {"c", "clang", "llc", "none", "js"}, run \in BOOLEAN}
    \cup {Request("build", be, TRUE, exe, keep, TRUE, TRUE) : be \in {"c", "llc"}, exe \in BOOLEAN}
    \cup {Request("emit", "js", TRUE, exe, keep, FALSE, FALSE) : exe \in BOOLEAN}
Formats == {Request(mode, "c", FALSE, FALSE, FALSE, FALSE, FALSE) : mode \in {"fmt", "fmtshow"}}
AllRequests == Formats \cup UNION {Objects(keep) \cup Programs(keep) : keep \in BOOLEAN}

\* Two instances that each build to a path of their own.
OwnBuilds == {Request("build", "c", TRUE, FALSE, FALSE, FALSE, FALSE)}

MCAllRequests == AllRequests
MCOwnBuilds == OwnBuilds
MCSources == <<<<"a", "HC">>, <<"b", "HC">>>>
MCOut == [i \in Instances |-> i]
=============================================================================
