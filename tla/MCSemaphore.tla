----------------------------- MODULE MCSemaphore -----------------------------
(* Semaphore and the life of its threads for TLC. *)
EXTENDS ThreadLife, SequencesExt
MCCounts == {0, 1, 2}
\* Two of the threads live from the beginning, joined, detached or detaching
\* themselves.
MCOrder == SubSeq(SetToSeq(Threads), 1, 2)
MCLeaves == {[t \in Threads |-> IF t = MCOrder[1] THEN l[1] ELSE l[2]] :
               l \in {<<"join", "join">>, <<"self", "join">>, <<"detach", "self">>}}
=============================================================================
