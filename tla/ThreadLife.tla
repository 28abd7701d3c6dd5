----------------------------- MODULE ThreadLife -----------------------------
(***************************************************************************)
(* The threads that use the semaphore, from ThreadCreate to ThreadJoin or  *)
(* ThreadDetach (lib/thread/thread.hc): a main thread initialises a        *)
(* semaphore, creates the others in turn, gives each up once as the        *)
(* library's README asks, and destroys the semaphore when it has joined    *)
(* them all.  A thread may detach itself, trying until it succeeds.        *)
(* Allocations and native constructors fail at will; a native call on a    *)
(* valid object does not.  pthread_create stores the handle before it      *)
(* returns, but perhaps after the new thread runs.                         *)
(* The values Init and Fini give a semaphore are those of Semaphore's Init *)
(* and seen by no operation.                                               *)
(***************************************************************************)
EXTENDS Semaphore, Sequences

CONSTANTS Order,     \* the threads in the order main creates them
          Leaves,    \* who gives up each thread: "join", "detach" or "self"
          LifeCalls  \* bound: semaphore calls in a life from the beginning
ASSUME OrderAssumption == /\ Order \in Seq(Threads) /\ Order # <<>>
                          /\ \A i, j \in DOMAIN Order : Order[i] = Order[j] => i = j
ASSUME LeavesAssumption == Leaves \subseteq [Threads -> {"join", "detach", "self"}] /\ LifeCalls \in Nat

VARIABLES
    leave,    \* the member of Leaves at hand
    at, who,  \* where main is, and which thread of Order it is about
    cthread,  \* each CThread: its handle set or NULL, and joinable
    start,    \* each CThreadStart: none, live or freed
    native,   \* each native thread: none, running, ended, detached or gone
    body,     \* where each thread is
    objects   \* the semaphore's native objects that are not NULL

lifeVars == <<leave, at, who, cthread, start, native, body, objects>>
allVars == <<vars, lifeVars>>

T == Order[who]
Goto(l) == at' = l /\ UNCHANGED who
NextThread(next, done) == IF who < Len(Order) THEN at' = next /\ who' = who + 1 ELSE at' = done /\ who' = 1

Cleared == [handle |-> FALSE, joinable |-> FALSE]
All(v) == [t \in Threads |-> v]

Beginning ==
    /\ leave \in Leaves
    /\ at = "mutexinit"
    /\ start = All("none") /\ native = All("none") /\ body = All("none")
    /\ objects = {}

\* Main has created and detached every thread and has no more to do with
\* them, and they do not end: what is left is the semaphore.
Standing ==
    /\ leave = All("detach")
    /\ at = "away"
    /\ start = All("freed") /\ native = All("detached") /\ body = All("entry")
    /\ objects = {"mutex", "condition"}

LifeInit == /\ Init /\ who = 1
            /\ cthread = All(Cleared)
            /\ Beginning \/ Standing

-----------------------------------------------------------------------------
(* ThreadSemaphoreInit and ThreadSemaphoreFini. *)

\* Allocating or initialising either object may fail; what the failing
\* constructor allocated it frees itself.
MutexInit == /\ at = "mutexinit"
             /\ \/ objects' = objects \cup {"mutex"} /\ Goto("condinit")
                \/ UNCHANGED objects /\ Goto("over")
             /\ UNCHANGED <<leave, cthread, start, native, body>>

InitKeepsMutex == Goto("over") /\ UNCHANGED objects
InitUndone == Goto("over") /\ objects' = objects \ {"mutex"}
ConditionInit == /\ at = "condinit"
                 /\ \/ objects' = objects \cup {"condition"} /\ Goto("create")
                    \/ InitUndone
                 /\ UNCHANGED <<leave, cthread, start, native, body>>

ConditionFini == /\ at = "condfini"
                 /\ IF "condition" \in objects
                    THEN objects' = objects \ {"condition"} /\ Goto("mutexfini")
                    ELSE UNCHANGED objects /\ Goto("over")
                 /\ UNCHANGED <<leave, cthread, start, native, body>>
MutexFini == /\ at = "mutexfini"
             /\ objects' = objects \ {"mutex"}
             /\ Goto("over")
             /\ UNCHANGED <<leave, cthread, start, native, body>>

-----------------------------------------------------------------------------
(* ThreadCreate. *)

PreparedJoinable == [handle |-> FALSE, joinable |-> TRUE]
Prepared == [handle |-> FALSE, joinable |-> FALSE]

\* MemSet the CThread, allocate the CThreadStart.
Prepare == /\ at = "create"
           /\ cthread' = [cthread EXCEPT ![T] = Prepared]
           /\ \/ start' = [start EXCEPT ![T] = "live"] /\ Goto("spawn")
              \/ UNCHANGED start /\ NextThread("create", "leave")
           /\ UNCHANGED <<leave, native, body, objects>>

Spawn == /\ at = "spawn"
         /\ native' = [native EXCEPT ![T] = "running"]
         /\ body' = [body EXCEPT ![T] = "read"]
         /\ Goto("store")
         /\ UNCHANGED <<leave, cthread, start, objects>>
SpawnFails == /\ at = "spawn"
              /\ start' = [start EXCEPT ![T] = "freed"]
              /\ NextThread("create", "leave")
              /\ UNCHANGED <<leave, cthread, native, body, objects>>

\* pthread_create stores the handle and returns.
StoreHandle == /\ at = "store"
               /\ cthread' = [cthread EXCEPT ![T].handle = TRUE]
               /\ Goto("publish")
               /\ UNCHANGED <<leave, start, native, body, objects>>
Publish == /\ at = "publish"
           /\ cthread' = [cthread EXCEPT ![T].joinable = TRUE]
           /\ NextThread("create", "leave")
           /\ UNCHANGED <<leave, start, native, body, objects>>

-----------------------------------------------------------------------------
(* ThreadJoin and ThreadDetach by main. *)

AllJoined == \A t \in Threads : leave[t] = "join" \/ body[t] = "none"
Destroy == IF AllJoined THEN "condfini" ELSE "over"

\* A CThread that is not joinable is refused; main leaves a thread that
\* detaches itself alone.
Leave == /\ at = "leave"
         /\ IF leave[T] = "self" \/ ~cthread[T].joinable
            THEN NextThread("leave", Destroy) ELSE Goto("native")
         /\ UNCHANGED <<leave, cthread, start, native, body, objects>>

Detached(t) == native' = [native EXCEPT ![t] = IF @ = "ended" THEN "gone" ELSE "detached"]
NativeJoin == /\ at = "native" /\ leave[T] = "join"
              /\ native[T] = "ended"
              /\ native' = [native EXCEPT ![T] = "gone"]
              /\ Goto("clear")
              /\ UNCHANGED <<leave, cthread, start, body, objects>>
NativeDetach == /\ at = "native" /\ leave[T] = "detach"
                /\ Detached(T)
                /\ Goto("clear")
                /\ UNCHANGED <<leave, cthread, start, body, objects>>

Clear == /\ at = "clear"
         /\ cthread' = [cthread EXCEPT ![T] = Cleared]
         /\ NextThread("leave", Destroy)
         /\ UNCHANGED <<leave, start, native, body, objects>>

-----------------------------------------------------------------------------
(* A thread: ThreadMain, its own ThreadDetach, its end. *)

Go(t, l) == body' = [body EXCEPT ![t] = l]

\* Reads the entry and its argument, then frees them.
ReadStart(t) == /\ body[t] = "read"
                /\ Go(t, "free")
                /\ UNCHANGED <<leave, at, who, cthread, start, native, objects>>
FreeStart(t) == /\ body[t] = "free"
                /\ start' = [start EXCEPT ![t] = "freed"]
                /\ Go(t, IF leave[t] = "self" THEN "detach" ELSE "entry")
                /\ UNCHANGED <<leave, at, who, cthread, native, objects>>

\* while (!ThreadDetach(&thread)) Yield;
DetachSelf(t) == /\ body[t] = "detach"
                 /\ cthread[t].joinable
                 /\ Go(t, "native")
                 /\ UNCHANGED <<leave, at, who, cthread, start, native, objects>>
NativeDetachSelf(t) == /\ body[t] = "native"
                       /\ Detached(t)
                       /\ Go(t, "clear")
                       /\ UNCHANGED <<leave, at, who, cthread, start, objects>>
ClearSelf(t) == /\ body[t] = "clear"
                /\ cthread' = [cthread EXCEPT ![t] = Cleared]
                /\ Go(t, "entry")
                /\ UNCHANGED <<leave, at, who, start, native, objects>>

End(t) == /\ body[t] = "entry" /\ pc[t] = "idle" /\ at # "away"
          /\ native' = [native EXCEPT ![t] = IF @ = "detached" THEN "gone" ELSE "ended"]
          /\ Go(t, "over")
          /\ UNCHANGED <<leave, at, who, cthread, start, objects>>

-----------------------------------------------------------------------------
Main == \/ MutexInit \/ ConditionInit \/ Prepare \/ Spawn \/ SpawnFails \/ StoreHandle \/ Publish
        \/ Leave \/ NativeJoin \/ NativeDetach \/ Clear \/ ConditionFini \/ MutexFini
Life(t) == ReadStart(t) \/ FreeStart(t) \/ DetachSelf(t) \/ NativeDetachSelf(t) \/ ClearSelf(t) \/ End(t)

\* The body of the thread: semaphore calls, as in Semaphore.
MayCall == at = "away" \/ calls < LifeCalls
Use(t) == /\ body[t] = "entry"
          /\ \/ MayCall /\ Call(t)
             \/ SpuriousWakeup(t)
          /\ UNCHANGED lifeVars
Run(t) == body[t] = "entry" /\ Step(t) /\ UNCHANGED lifeVars

\* Main is done, or joins a thread that waits for a unit nobody will post.
Stopped == \/ at = "away" /\ Quiet
           \/ /\ at = "over" \/ (at = "native" /\ pc[T] = "asleep")
              /\ \A t \in Threads : body[t] \in {"none", "over"} \/ pc[t] = "asleep"
Rest == Stopped /\ UNCHANGED allVars

LifeNext == \/ Main /\ UNCHANGED vars
            \/ \E t \in Threads : Life(t) /\ UNCHANGED vars
            \/ \E t \in Threads : Use(t) \/ Run(t)
            \/ Rest
LifeSpec == LifeInit /\ [][LifeNext]_allVars

\* A thread inside a semaphore operation keeps running while it can.
FairLifeSpec == LifeSpec /\ \A t \in Threads : WF_allVars(Run(t))

-----------------------------------------------------------------------------
(* Properties. *)

\* A thread to be joined or detached: the handle is stored, and the native
\* thread has not been given up before.
Valid(t) == cthread[t].handle /\ native[t] \in {"running", "ended"}

\* Nothing is used before it is there or after it is gone: a new thread finds
\* its CThreadStart, whatever ThreadCreate does meanwhile; a handle passed to
\* the native join or detach is the one pthread_create stored, although the
\* thread may ask for it while ThreadCreate still runs; the semaphore's
\* objects outlive every operation on it (thread.hc ThreadMain, ThreadCreate,
\* ThreadDetach, ThreadSemaphoreFini).
NothingStale ==
    /\ \A t \in Threads : body[t] \in {"read", "free"} => start[t] = "live"
    /\ at = "native" => Valid(T)
    /\ \A t \in Threads : body[t] = "native" => Valid(t)
    /\ \A t \in Threads : pc[t] # "idle" => objects = {"mutex", "condition"}

\* When main is done, whatever failed on the way: no CThreadStart is left of
\* a thread that was not created or has started, no ended thread is left
\* unjoined, and unless a detached thread may still use the semaphore its
\* objects are freed (thread.hc ThreadCreate, ThreadSemaphoreInit,
\* ThreadSemaphoreFini).
AllReleased ==
    at = "over" =>
       /\ \A t \in Threads : body[t] # "read" /\ body[t] # "free" => start[t] # "live"
       /\ \A t \in Threads : body[t] = "over" => native[t] = "gone"
       /\ AllJoined => objects = {}
=============================================================================
