--------------------------- MODULE ExcConsumption ---------------------------
(***************************************************************************)
(* Exceptions with a history variable: which catch blocks have themselves  *)
(* declared their exception consumed.  Fs->catch_except is one flag per    *)
(* thread (rt.c), not one per catch block; the history tells the two apart.*)
(***************************************************************************)
EXTENDS Exceptions

VARIABLE claimed   \* positions of catch blocks that set catch_except themselves

\* The innermost catch block executing, in whatever function; 0 if none.
InnermostCatch ==
    LET C == {i \in DOMAIN konts : konts[i].k = "catch"} IN
    IF C = {} THEN 0 ELSE Topmost(C)

Claims == IF status = "run" /\ cur.op = "except"
          THEN IF cur.v THEN claimed \cup {InnermostCatch} ELSE claimed \ {InnermostCatch}
          ELSE claimed

HInit == Init /\ claimed = {}
HNext == /\ Next
         /\ claimed' = {i \in Claims : i \in DOMAIN konts' /\ konts'[i] = konts[i]
                                         /\ ~(Catching /\ i = Len(konts'))}
HSpec == HInit /\ [][HNext]_<<vars, claimed>>

\* "a catch that wants to consume the exception must say so": control passes
\* the end of a catch block only if that block set catch_except.
SwallowOnlyClaimed ==
    [][status = "run" /\ cur = Nop /\ Top.k = "catch" /\ konts' = Pop /\ status' = "run"
         => Len(konts) \in claimed]_<<vars, claimed>>
=============================================================================
