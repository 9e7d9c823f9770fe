------------------------------- MODULE Thread -------------------------------
(***************************************************************************)
(* The life of one Thread (ABE/core/Thread.cpp, Thread::NativeContext).    *)
(* The creator constructs it, which starts a suspended native thread and   *)
(* waits until it is ready; any client that has a copy may then run() or   *)
(* join() it.  One Condition, woken one waiter at a time by setState_l,    *)
(* serves the native thread and the clients.  Each critical section of     *)
(* mLock up to a wait, an unlock or its end is one step.                   *)
(*                                                                         *)
(* A CHECK that fails aborts the process: aborted is TRUE and nothing      *)
(* moves any more.  The code has no caller of detach().                    *)
(***************************************************************************)
EXTENDS Integers, FiniteSets

CONSTANTS
    Client,     \* threads that use the Thread object
    creator,    \* the client that constructs it
    Calls,      \* what each client may call, each call at most once
    JobJoins,   \* the job may join its own thread
    native      \* the native thread

ASSUME CreatorAssumption == creator \in Client /\ native \notin Client
ASSUME ClientAssumption == IsFiniteSet(Client)
ASSUME CallsAssumption == Calls \in [Client -> SUBSET {"run", "join"}]
ASSUME JobJoinsAssumption == JobJoins \in BOOLEAN

kThreadNew == 0
kThreadReady == 1
kThreadReadyToRun == 2
kThreadRunning == 3
kThreadTerminating == 4
kThreadTerminated == 5

VARIABLES
    mState,
    waiting,    \* who is blocked in mWait
    npc,        \* the native thread: "none" before pthread_create
    pc,         \* each client
    todo,       \* the calls each client has left
    executed,   \* history: how often the job ran
    joined,     \* history: the last join came "early", before the thread ran,
                \* "late", or from "inside", the job itself
    aborted

native_vars == <<npc, executed>>
client_vars == <<pc, todo>>
vars == <<mState, waiting, npc, pc, todo, executed, joined, aborted>>

NativePC == {"none", "entry", "ready", "job", "self_join", "cleanup", "exited"}
ClientPC == {"new", "start", "idle", "run", "pthread_join", "join"}

Init ==
    /\ mState = kThreadNew
    /\ waiting = {}
    /\ npc = "none"
    /\ pc = [c \in Client |-> IF c = creator THEN "new" ELSE "idle"]
    /\ todo = Calls
    /\ executed = 0 /\ joined = "no" /\ aborted = FALSE

Constructed == pc[creator] \notin {"new", "start"}

Goto(c, from, to) == pc[c] = from /\ pc' = [pc EXCEPT ![c] = to]

(* wait() blocks the caller; signal wakes one of those that are blocked.    *)
Awake(t) == ~aborted /\ t \notin waiting

Block(t) == waiting' = waiting \cup {t}

(* Mutant: the state changes and nobody is told. *)
NobodyTold == {waiting}

(* Who may still be blocked after the signal of setState_l. *)
Signalled == IF waiting = {} THEN {{}} ELSE {waiting \ {t} : t \in waiting}

Signal == waiting' \in Signalled
SignalAndBlock(t) == \E left \in Signalled : waiting' = left \cup {t}

-----------------------------------------------------------------------------
(* Clients *)

(* start(): pthread_create under mLock, then wait until the thread is ready. *)
Start(c) ==
    /\ Awake(c) /\ Goto(c, "new", "start")
    /\ npc = "none" /\ npc' = "entry"
    /\ Block(c)
    /\ UNCHANGED <<mState, todo, executed, joined, aborted>>

Started(c) ==
    /\ Awake(c)
    /\ IF mState < kThreadReady
       THEN Goto(c, "start", "start") /\ Block(c)
       ELSE Goto(c, "start", "idle") /\ UNCHANGED waiting
    /\ UNCHANGED <<mState, native_vars, todo, joined, aborted>>

Call(c, call) ==
    /\ Constructed /\ Awake(c) /\ pc[c] = "idle"
    /\ call \in todo[c]
    /\ todo' = [todo EXCEPT ![c] = @ \ {call}]

(* Mutants: no CHECK, or one that only lets a thread run that is not ready. *)
CanAlways == mState <= kThreadTerminated
CanBeforeReady == mState < kThreadReady

(* CHECK_LE(mState, kThreadReady) and CHECK_TRUE(mState >= kThreadReady &&  *)
(* mState < kThreadTerminating)                                             *)
CanRun == mState <= kThreadReady
CanJoin == mState >= kThreadReady /\ mState < kThreadTerminating

CheckFails ==
    /\ aborted' = TRUE
    /\ UNCHANGED <<mState, waiting, native_vars, pc, joined>>

(* run(): ask the thread to run, then wait until it does. *)
Run(c) ==
    /\ Call(c, "run")
    /\ CanRun
    /\ mState' = kThreadReadyToRun
    /\ SignalAndBlock(c)
    /\ Goto(c, "idle", "run")
    /\ UNCHANGED <<native_vars, joined, aborted>>

Ran(c) ==
    /\ Awake(c)
    /\ IF mState < kThreadRunning
       THEN Goto(c, "run", "run") /\ Block(c)
       ELSE Goto(c, "run", "idle") /\ UNCHANGED waiting
    /\ UNCHANGED <<mState, native_vars, todo, joined, aborted>>

(* join(): ask the thread to terminate, then pthread_join without mLock. *)
Join(c) ==
    /\ Call(c, "join")
    /\ CanJoin
    /\ mState' = kThreadTerminating
    /\ joined' = IF mState < kThreadRunning THEN "early" ELSE "late"
    /\ Signal
    /\ Goto(c, "idle", "pthread_join")
    /\ UNCHANGED <<native_vars, aborted>>

PthreadJoined(c) ==
    /\ Awake(c) /\ Goto(c, "pthread_join", "join")
    /\ npc = "exited"
    /\ UNCHANGED <<mState, waiting, native_vars, todo, joined, aborted>>

Joined(c) ==
    /\ Awake(c)
    /\ IF mState # kThreadTerminated
       THEN Goto(c, "join", "join") /\ Block(c)
       ELSE Goto(c, "join", "idle") /\ UNCHANGED waiting
    /\ UNCHANGED <<mState, native_vars, todo, joined, aborted>>

RunFails(c) == Call(c, "run") /\ ~CanRun /\ CheckFails
JoinFails(c) == Call(c, "join") /\ ~CanJoin /\ CheckFails

-----------------------------------------------------------------------------
(* The native thread: ThreadEntry and execution() *)

GotoNative(from, to) == npc = from /\ npc' = to

(* Ready: signal the creator and wait until a client runs or joins. *)
Entry ==
    /\ Awake(native) /\ GotoNative("entry", "ready")
    /\ mState' = kThreadReady
    /\ SignalAndBlock(native)
    /\ UNCHANGED <<client_vars, executed, joined, aborted>>

StillReady ==
    /\ Awake(native) /\ GotoNative("ready", "ready")
    /\ mState = kThreadReady
    /\ Block(native)
    /\ UNCHANGED <<mState, client_vars, executed, joined, aborted>>

GoRunning ==
    /\ Awake(native) /\ GotoNative("ready", "job")
    /\ mState = kThreadReadyToRun
    /\ mState' = kThreadRunning
    /\ Signal
    /\ UNCHANGED <<client_vars, executed, joined, aborted>>

(* A join came first: the job is skipped. *)
SkipJob ==
    /\ Awake(native) /\ GotoNative("ready", "cleanup")
    /\ mState > kThreadReadyToRun
    /\ UNCHANGED <<mState, waiting, client_vars, executed, joined, aborted>>

(* Mutant: a join that came since makes the thread skip the job. *)
RunUnlessJoined ==
    /\ Awake(native) /\ GotoNative("job", "cleanup")
    /\ executed' = executed + (IF mState = kThreadRunning THEN 1 ELSE 0)
    /\ UNCHANGED <<mState, waiting, client_vars, joined, aborted>>

(* The job runs without mLock. *)
RunJob ==
    /\ Awake(native) /\ GotoNative("job", "cleanup")
    /\ executed' = executed + 1
    /\ UNCHANGED <<mState, waiting, client_vars, joined, aborted>>

(* A job that joins its own thread: pthread_detach, then wait for the end. *)
JobBeginsJoin ==
    /\ Awake(native) /\ GotoNative("job", "self_join")
    /\ JobJoins /\ CanJoin
    /\ executed' = executed + 1
    /\ mState' = kThreadTerminating
    /\ joined' = "inside"
    /\ SignalAndBlock(native)
    /\ UNCHANGED <<client_vars, aborted>>

JobJoinFails ==
    /\ Awake(native) /\ GotoNative("job", "cleanup")
    /\ JobJoins /\ ~CanJoin
    /\ executed' = executed + 1
    /\ joined' = "inside"
    /\ aborted' = TRUE
    /\ UNCHANGED <<mState, waiting, client_vars>>

SelfJoin ==
    /\ Awake(native)
    /\ IF mState # kThreadTerminated
       THEN GotoNative("self_join", "self_join") /\ Block(native)
       ELSE GotoNative("self_join", "cleanup") /\ UNCHANGED waiting
    /\ UNCHANGED <<mState, client_vars, executed, joined, aborted>>

(* Wait for a join, then say goodbye. *)
AwaitTerminating ==
    /\ Awake(native) /\ GotoNative("cleanup", "cleanup")
    /\ mState # kThreadTerminating
    /\ Block(native)
    /\ UNCHANGED <<mState, client_vars, executed, joined, aborted>>

Exit ==
    /\ Awake(native) /\ GotoNative("cleanup", "exited")
    /\ mState = kThreadTerminating
    /\ mState' = kThreadTerminated
    /\ Signal
    /\ UNCHANGED <<client_vars, executed, joined, aborted>>

(* A wait may return without a signal. *)
SpuriousWakeup ==
    /\ ~aborted
    /\ \E t \in waiting : waiting' = waiting \ {t}
    /\ UNCHANGED <<mState, native_vars, client_vars, joined, aborted>>

-----------------------------------------------------------------------------
Begin(c) == Start(c) \/ Run(c) \/ Join(c) \/ RunFails(c) \/ JoinFails(c)
Continue(c) == Started(c) \/ Ran(c) \/ PthreadJoined(c) \/ Joined(c)
NativeNext ==
    \/ Entry \/ StillReady \/ GoRunning \/ SkipJob
    \/ RunJob \/ JobBeginsJoin \/ JobJoinFails
    \/ SelfJoin \/ AwaitTerminating \/ Exit

Next ==
    \/ \E c \in Client : Begin(c) \/ Continue(c)
    \/ NativeNext
    \/ SpuriousWakeup

(* A thread that is not blocked moves on; no client has to begin a call. *)
Fairness ==
    /\ WF_vars(NativeNext)
    /\ \A c \in Client : WF_vars(Continue(c))

Spec == Init /\ [][Next]_vars /\ Fairness

-----------------------------------------------------------------------------
(* Every variable has its type. *)
TypeOK ==
    /\ mState \in kThreadNew..kThreadTerminated
    /\ waiting \subseteq Client \cup {native}
    /\ npc \in NativePC
    /\ pc \in [Client -> ClientPC]
    /\ todo \in [Client -> SUBSET {"run", "join"}]
    /\ executed \in Nat
    /\ joined \in {"no", "early", "late", "inside"} /\ aborted \in BOOLEAN

Called(call) == {c \in Client : call \in Calls[c] \ todo[c]}
Returned(call) == {c \in Called(call) : pc[c] = "idle" /\ ~aborted}

(* The comparisons < and <= on mState rely on it: the state only advances,   *)
(* whoever sets it, in whatever order clients call.                          *)
StateAdvances == [][mState' >= mState]_vars

(* The job runs at most once and never before a client called run; a join    *)
(* returns when the native thread is gone, and if no join came before the    *)
(* thread was running, the job has run by then.                              *)
JoinMeansDone ==
    /\ executed = 1 => Called("run") # {}
    /\ executed <= 1
    /\ Returned("join") # {} => npc = "exited" /\ (executed = 1 \/ joined = "early")

SelfJoins == IF joined = "inside" THEN 1 ELSE 0

(* One run and one join do not fail a CHECK unless the join came before the  *)
(* thread was running.                                                       *)
AbortsOnMisuse ==
    aborted => \/ Cardinality(Called("run")) > 1
               \/ Cardinality(Called("join")) + SelfJoins > 1
               \/ (joined = "early" /\ Called("run") # {})

(* The constructor, run and join return, although one signal wakes only one  *)
(* of those that wait on the same Condition.                                 *)
CallsReturn ==
    \A c \in Client :
        pc[c] \in {"start", "run", "pthread_join", "join"} ~> pc[c] = "idle" \/ aborted

(* "wait this thread's job done and join it": when the thread was told to    *)
(* run, a join returns after the job.                                        *)
JoinWaitsForJob ==
    Returned("join") # {} /\ Called("run") # {} => executed = 1

(* The branch "join inside thread": a thread that joins itself ends.         *)
SelfJoinEnds == npc = "self_join" ~> npc = "exited" \/ aborted

-----------------------------------------------------------------------------
(* The inductive invariant of the proofs. *)

(* Until the constructor returns no client has called anything.              *)
ConstructionInv ==
    /\ npc = "none" <=> pc[creator] = "new"
    /\ \A c \in Client \ {creator} : pc[c] \notin {"new", "start"}
    /\ ~Constructed => todo = Calls
    /\ \A c \in Client : todo[c] \subseteq Calls[c]
    /\ Constructed => mState >= kThreadReady

(* Which states the native thread can find where.                            *)
StateInv ==
    /\ mState = kThreadNew <=> npc \in {"none", "entry"}
    /\ mState \in {kThreadReady, kThreadReadyToRun} => npc = "ready"
    /\ mState = kThreadRunning => npc \in {"job", "cleanup"}
    /\ mState = kThreadTerminated <=> npc = "exited"

(* When the job has run, and why it may not.                                 *)
ExecutedInv ==
    /\ executed \in 0..1
    /\ npc \in {"none", "entry", "ready", "job"} => executed = 0
    /\ npc = "self_join" => executed = 1
    /\ npc \in {"cleanup", "exited"} => executed = 1 \/ joined = "early"
    /\ npc = "cleanup" /\ mState = kThreadRunning => executed = 1
    /\ npc = "ready" /\ mState = kThreadTerminating => joined = "early"

RunCalledInv ==
    \/ mState \in {kThreadReadyToRun, kThreadRunning}
    \/ npc = "job" \/ executed = 1
    => Called("run") # {}

JoinCalledInv ==
    \A c \in Client :
        /\ pc[c] = "join" => npc = "exited"
        /\ c \in Called("join") /\ ~aborted => pc[c] = "pthread_join" \/ npc = "exited"

(* Who joined, and that there was a run before.                              *)
JoinedInv ==
    /\ ~aborted => (joined = "no" <=> mState < kThreadTerminating)
    /\ joined \in {"late", "inside"} /\ ~aborted => Called("run") # {}
    /\ joined \in {"early", "late"} => Called("join") # {}
    /\ npc = "job" => joined # "inside"

(* Where the native thread and the clients stand determines the state, what  *)
(* was called and whether the job has run.                                   *)
ThreadInv ==
    /\ TypeOK /\ ConstructionInv /\ StateInv /\ ExecutedInv
    /\ RunCalledInv /\ JoinCalledInv /\ JoinedInv
=============================================================================
