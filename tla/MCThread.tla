------------------------------ MODULE MCThread ------------------------------
(***************************************************************************)
(* Small instances of Thread and of MainLooper for TLC: threads that are   *)
(* created, and the one that main runs in.  A behaviour is about one of    *)
(* the two; the other thread has ended, or the main thread has failed,     *)
(* before it begins.                                                       *)
(***************************************************************************)
EXTENDS Thread, MainLooper, TLC

CONSTANTS c1, c2, c3

AnyOrder == c1 :> {"run", "join"} @@ c2 :> {"run", "join"} @@ c3 :> {"join"}
RunHereJoinThere == c1 :> {"run"} @@ c2 :> {"join"}

\* Jobs of the main thread call; another thread does; two others do.
SomeBudgets ==
    {main :> 3 @@ c1 :> 1, main :> 2 @@ c1 :> 2, main :> 1 @@ c1 :> 3,
     main :> 1 @@ c1 :> 1 @@ c2 :> 2}

NoThread ==
    /\ mState = kThreadTerminated /\ npc = "exited" /\ waiting = {}
    /\ pc = [c \in Client |-> "idle"] /\ todo = [c \in Client |-> {}]
    /\ executed = 1 /\ joined = "late" /\ aborted = FALSE

NoMainLooper ==
    /\ lpMain = "none" /\ mJobDisp = FALSE /\ refs = {}
    /\ mLock = NoOne /\ mTaskLock = NoOne /\ waiters = {}
    /\ mTasks = <<>> /\ timed = {} /\ due = {} /\ current = NoOne
    /\ mRequestExit = FALSE /\ mTerminated = FALSE
    /\ stack = [t \in Threads |-> <<>>] /\ calls = <<>>
    /\ interrupted = NoOne /\ fate = "aborted" /\ unlucky = TRUE
    /\ early = {} /\ ran = {} /\ flushed = {}

MCInit ==
    \/ Init /\ NoMainLooper
    \/ NoThread /\ MainInit
MCNext ==
    \/ Next /\ UNCHANGED mainVars
    \/ MainNext /\ UNCHANGED vars
MCSpec == MCInit /\ [][MCNext]_<<vars, mainVars>> /\ Fairness /\ MainFairness

=============================================================================
