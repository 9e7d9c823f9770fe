------------------------------- MODULE Looper -------------------------------
(***************************************************************************)
(* A looper with its own thread (ABE/core/Looper.cpp): JobDispatcher and   *)
(* LooperDispatcher together.  Clients post, remove, look up and flush     *)
(* jobs and drop their references; the client that drops the last one asks *)
(* the looper to exit and waits for it.                                    *)
(*                                                                         *)
(* A task takes its time from the clock when it is made; its way onto the  *)
(* lock-free queue or the list, and the test of the queue's size, are      *)
(* later steps.  The list of timed tasks is behind mTaskLock; merge_l holds it   *)
(* for one step per task it moves.  A looper that finds nothing to run     *)
(* begins to wait in the same step: it holds mLock from the pop to the     *)
(* wait, and a signal needs mLock.  One Condition serves the looper and    *)
(* whoever waits for its exit.                                             *)
(***************************************************************************)
EXTENDS JobDispatcher

CONSTANTS
    Client,     \* threads that hold a reference to the looper
    Job,        \* job objects
    Delay,      \* delays in ticks that clients pass to post
    MaxCalls,   \* bound: calls per client before it releases the looper
    MaxTime,    \* bound: the clock stops here
    Roles,      \* the scenarios: what each client calls, and how often
    JobHolds,   \* "none"; "own": a job has an sp<Looper>, the task the last
                \* sp<Job>; "current": a job calls Looper::Current
    looper,     \* the looper's thread
    None

Verbs == {"post", "delay", "remove", "exists", "flush", "release"}
Never == -1     \* no deadline: mWait.wait

ASSUME ClientAssumption ==
    IsFiniteSet(Client) /\ looper \notin Client /\ None \notin Client
ASSUME BoundAssumption == MaxCalls \in Nat /\ MaxTime \in Nat
ASSUME DelayAssumption == Delay \subseteq 1..MaxTime
ASSUME RolesAssumption ==
    Roles \subseteq [Client -> [verbs : SUBSET Verbs, calls : 0..MaxCalls]]
ASSUME JobHoldsAssumption == JobHolds \in {"none", "own", "current"}

Id == Client \X (1..MaxCalls)   \* of a call of post
Task == [id : Id, job : Job, delay : Delay \cup {0}, when : 0..MaxTime]

VARIABLES
    mTasks, mTimedTasks,
    taskLock,           \* who holds mTaskLock across steps, or None
    mRequestExit, mTerminated,
    waiting,            \* threads blocked in mWait
    deadline,           \* when the looper's wait times out, or Never
    lpc,                \* the looper: "pop", "run", "drop", "exit", "done",
                        \* or "stuck" in its own requestExit
    current,            \* the task the looper has popped, or None
    mRefs,              \* references to the looper
    now,
    role,               \* the scenario of this behaviour
    pc,                 \* where each client is
    arg,                \* the job a client is looking up or removing, or the
                        \* task it has made and not yet queued
    calls,              \* calls each client has begun
    posted,             \* history: ids posted
    ran,                \* history: tasks in the order they ran
    cancelled           \* history: ids removed or flushed

lists == <<mTasks, mTimedTasks, taskLock>>
flags == <<mRequestExit, mTerminated>>
looperVars == <<lpc, current, deadline>>
clientVars == <<pc, arg, calls>>
history == <<posted, ran, cancelled>>
context == <<now, role>>
vars == <<lists, flags, waiting, looperVars, mRefs, context, clientVars, history>>

ClientPC == {"idle", "push", "insert", "size", "signal", "merge_remove", "merge_exists",
             "last", "wait_exit", "gone"}

Init ==
    /\ mTasks = <<>> /\ mTimedTasks = <<>> /\ taskLock = None
    /\ mRequestExit = FALSE /\ mTerminated = FALSE
    /\ waiting = {}
    /\ lpc = "pop" /\ current = None /\ deadline = Never
    /\ mRefs = Cardinality(Client)
    /\ now = 0
    /\ role \in Roles
    /\ pc = [c \in Client |-> "idle"]
    /\ arg = [c \in Client |-> None]
    /\ calls = [c \in Client |-> 0]
    /\ posted = {} /\ ran = <<>> /\ cancelled = {}

Goto(c, from, to) == pc[c] = from /\ pc' = [pc EXCEPT ![c] = to]

(* Condition::signal wakes one of the threads that wait. *)
WakeOne == IF waiting = {} THEN UNCHANGED waiting
           ELSE \E t \in waiting : waiting' = waiting \ {t}

(* Destroying a task drops the reference its job may have on the looper. *)
Held(n) == IF JobHolds = "own" THEN n ELSE 0

-----------------------------------------------------------------------------
(* Clients *)

(* A client begins one of its calls. *)
Call(c, verb) ==
    /\ verb \in role[c].verbs
    /\ pc[c] = "idle"
    /\ calls[c] < role[c].calls
    /\ calls' = [calls EXCEPT ![c] = @ + 1]

NewTask(c, job, delay) ==
    [id |-> <<c, calls[c] + 1>>, job |-> job, delay |-> delay, when |-> now + delay]

(* queue() makes the Task, which reads the clock, before it takes a lock or *)
(* touches a list.                                                          *)
MakeTask(c, verb, delays, place) ==
    /\ Call(c, verb)
    /\ Goto(c, "idle", place)
    /\ \E job \in Job, d \in {d \in delays : now + d <= MaxTime} :
          arg' = [arg EXCEPT ![c] = NewTask(c, job, d)]
    /\ UNCHANGED <<lists, flags, waiting, looperVars, mRefs, context, history>>

MakePost(c) == MakeTask(c, "post", {0}, "push")
MakeDelayed(c) == MakeTask(c, "delay", Delay, "insert")

(* The task goes on a list. *)
Posted(c) ==
    /\ arg' = [arg EXCEPT ![c] = None]
    /\ posted' = posted \cup {arg[c].id}
    /\ mRefs' = mRefs + Held(1)

(* queue() without delay: push, then compare the size with one. *)
PostPush(c) ==
    /\ Goto(c, "push", "size")
    /\ mTasks' = Append(mTasks, arg[c])
    /\ Posted(c)
    /\ UNCHANGED <<mTimedTasks, taskLock, flags, waiting, looperVars, context, calls, ran, cancelled>>

PostSize(c) ==
    /\ Goto(c, "size", IF FirstImmediate(mTasks) THEN "signal" ELSE "idle")
    /\ UNCHANGED <<lists, flags, waiting, looperVars, mRefs, context, arg, calls, history>>

(* queue() with a delay: one critical section of mTaskLock. *)
PostDelayed(c) ==
    /\ Goto(c, "insert", IF FirstTimed(mTasks, mTimedTasks, arg[c])
                         THEN "signal" ELSE "idle")
    /\ taskLock = None
    /\ mTimedTasks' = InsertTimed(mTimedTasks, arg[c])
    /\ Posted(c)
    /\ UNCHANGED <<mTasks, taskLock, flags, waiting, looperVars, context, calls, ran, cancelled>>

(* LooperDispatcher::queue and remove: lock mLock, signal mWait. *)
Signal(c) ==
    /\ Goto(c, "signal", "idle")
    /\ WakeOne
    /\ UNCHANGED <<lists, flags, looperVars, mRefs, context, arg, calls, history>>

(* remove and exists take mTaskLock and run merge_l. *)
BeginMerge(c, verb, place) ==
    /\ Call(c, verb)
    /\ taskLock = None /\ taskLock' = c
    /\ Goto(c, "idle", place)
    /\ \E job \in Job : arg' = [arg EXCEPT ![c] = job]
    /\ UNCHANGED <<mTasks, mTimedTasks, flags, waiting, looperVars, mRefs, context,
                   history>>

BeginRemove(c) == BeginMerge(c, "remove", "merge_remove")
BeginExists(c) == BeginMerge(c, "exists", "merge_exists")

(* Mutant: the task is popped and not put on the list. *)
MergeLoses(c) ==
    /\ pc[c] \in {"merge_remove", "merge_exists"}
    /\ mTasks # <<>>
    /\ mTasks' = Tail(mTasks)
    /\ UNCHANGED <<mTimedTasks, taskLock, flags, waiting, looperVars, mRefs, context,
                   clientVars, history>>

(* merge_l moves one task from the queue to the front of the list. *)
MergeOne(c) ==
    /\ pc[c] \in {"merge_remove", "merge_exists"}
    /\ mTasks # <<>>
    /\ mTimedTasks' = <<Head(mTasks)>> \o mTimedTasks
    /\ mTasks' = Tail(mTasks)
    /\ UNCHANGED <<taskLock, flags, waiting, looperVars, mRefs, context, clientVars, history>>

(* The queue is empty: merge_l sorts, then remove erases. *)
EndRemove(c) ==
    LET sorted == SortByTime(mTimedTasks)
        kept == WithoutJob(sorted, arg[c])
    IN  /\ Goto(c, "merge_remove", IF RemovesHead(sorted, arg[c])
                                   THEN "signal" ELSE "idle")
        /\ mTasks = <<>>
        /\ mTimedTasks' = kept
        /\ cancelled' = cancelled \cup (Ids(sorted) \ Ids(kept))
        /\ mRefs' = mRefs - Held(Len(sorted) - Len(kept))
        /\ taskLock' = None
        /\ arg' = [arg EXCEPT ![c] = None]
        /\ UNCHANGED <<mTasks, flags, waiting, looperVars, context, calls, posted, ran>>

EndExists(c) ==
    /\ Goto(c, "merge_exists", "idle")
    /\ mTasks = <<>>
    /\ mTimedTasks' = SortByTime(mTimedTasks)
    /\ taskLock' = None
    /\ arg' = [arg EXCEPT ![c] = None]
    /\ UNCHANGED <<mTasks, flags, waiting, looperVars, mRefs, context, calls, history>>

(* flush() clears both lists behind mTaskLock. *)
Flush(c) ==
    /\ Call(c, "flush")
    /\ Goto(c, "idle", "idle")
    /\ taskLock = None
    /\ mTasks' = <<>> /\ mTimedTasks' = <<>>
    /\ cancelled' = cancelled \cup Ids(mTasks) \cup Ids(mTimedTasks)
    /\ mRefs' = mRefs - Held(Len(mTasks) + Len(mTimedTasks))
    /\ UNCHANGED <<taskLock, flags, waiting, looperVars, context, arg, posted, ran>>

(* sp<Looper> goes away; the last one calls onLastRetain. *)
Release(c) ==
    /\ "release" \in role[c].verbs
    /\ Goto(c, "idle", IF mRefs = 1 THEN "last" ELSE "gone")
    /\ mRefs' = mRefs - 1
    /\ UNCHANGED <<lists, flags, waiting, looperVars, context, arg, calls, history>>

(* Mutant: the flag is set, nobody is woken. *)
RequestExitSilently(c) ==
    /\ Goto(c, "last", IF mTerminated THEN "gone" ELSE "wait_exit")
    /\ mRequestExit' = (mRequestExit \/ ~mTerminated)
    /\ waiting' = IF mTerminated THEN waiting ELSE waiting \cup {c}
    /\ UNCHANGED <<lists, mTerminated, looperVars, mRefs, context, arg, calls, history>>

(* requestExit: set the flag, signal and broadcast, wait for mTerminated. *)
RequestExit(c) ==
    /\ Goto(c, "last", IF mTerminated THEN "gone" ELSE "wait_exit")
    /\ mRequestExit' = (mRequestExit \/ ~mTerminated)
    /\ waiting' = IF mTerminated THEN waiting ELSE {c}
    /\ UNCHANGED <<lists, mTerminated, looperVars, mRefs, context, arg, calls, history>>

(* Awake: wait again, or join the looper's thread and return. *)
AwaitExit(c) ==
    /\ c \notin waiting
    /\ IF mTerminated
       THEN Goto(c, "wait_exit", "gone") /\ UNCHANGED waiting
       ELSE Goto(c, "wait_exit", "wait_exit") /\ waiting' = waiting \cup {c}
    /\ UNCHANGED <<lists, flags, looperVars, mRefs, context, arg, calls, history>>

-----------------------------------------------------------------------------
(* The looper's thread: LooperDispatcher::onJob *)

Awake == lpc = "pop" /\ looper \notin waiting /\ taskLock = None

(* Mutant: the first timed task is copied and stays on the list. *)
PopTimedKeeps ==
    /\ Awake
    /\ IsDue(mTimedTasks, now)
    /\ current' = Head(mTimedTasks)
    /\ lpc' = "run" /\ deadline' = Never
    /\ UNCHANGED <<lists, flags, waiting, mRefs, context, clientVars, history>>

(* pop() first looks at the timed tasks *)
PopTimed ==
    /\ Awake
    /\ IsDue(mTimedTasks, now)
    /\ current' = Head(mTimedTasks)
    /\ mTimedTasks' = Tail(mTimedTasks)
    /\ lpc' = "run" /\ deadline' = Never
    /\ UNCHANGED <<mTasks, taskLock, flags, waiting, mRefs, context, clientVars, history>>

(* Mutant: the queue is popped although a timed task is due. *)
PopQueueFirst ==
    /\ Awake
    /\ mTasks # <<>>
    /\ current' = Head(mTasks)
    /\ mTasks' = Tail(mTasks)
    /\ lpc' = "run" /\ deadline' = Never
    /\ UNCHANGED <<mTimedTasks, taskLock, flags, waiting, mRefs, context, clientVars, history>>

PopImmediate ==
    /\ Awake
    /\ ~IsDue(mTimedTasks, now)
    /\ mTasks # <<>>
    /\ current' = Head(mTasks)
    /\ mTasks' = Tail(mTasks)
    /\ lpc' = "run" /\ deadline' = Never
    /\ UNCHANGED <<mTimedTasks, taskLock, flags, waiting, mRefs, context, clientVars, history>>

(* next > 0: waitRelative *)
SleepUntilDue ==
    /\ Awake
    /\ ~IsDue(mTimedTasks, now)
    /\ mTasks = <<>> /\ mTimedTasks # <<>>
    /\ waiting' = waiting \cup {looper}
    /\ deadline' = Head(mTimedTasks).when
    /\ UNCHANGED <<lists, flags, lpc, current, mRefs, context, clientVars, history>>

(* next < 0: wait, or leave the loop *)
SleepIdle ==
    /\ Awake
    /\ mTasks = <<>> /\ mTimedTasks = <<>>
    /\ ~mRequestExit
    /\ waiting' = waiting \cup {looper}
    /\ deadline' = Never
    /\ UNCHANGED <<lists, flags, lpc, current, mRefs, context, clientVars, history>>

(* Mutant: the loop is left while timed tasks are pending. *)
LeaveEarly ==
    /\ Awake
    /\ mTasks = <<>>
    /\ mRequestExit
    /\ lpc' = "exit" /\ deadline' = Never
    /\ UNCHANGED <<lists, flags, waiting, current, mRefs, context, clientVars, history>>

LeaveLoop ==
    /\ Awake
    /\ mTasks = <<>> /\ mTimedTasks = <<>>
    /\ mRequestExit
    /\ lpc' = "exit" /\ deadline' = Never
    /\ UNCHANGED <<lists, flags, waiting, current, mRefs, context, clientVars, history>>

Timeout ==
    /\ looper \in waiting
    /\ deadline # Never /\ now >= deadline
    /\ waiting' = waiting \ {looper}
    /\ UNCHANGED <<lists, flags, looperVars, mRefs, context, clientVars, history>>

(* POSIX lets a wait return for no reason. *)
SpuriousWakeup ==
    /\ \E t \in waiting : waiting' = waiting \ {t}
    /\ UNCHANGED <<lists, flags, looperVars, mRefs, context, clientVars, history>>

(* job.mJob->execution() without mLock *)
RunJob ==
    /\ lpc = "run"
    /\ ran' = Append(ran, current)
    /\ mRefs' = IF JobHolds = "current" THEN mRefs + 1 ELSE mRefs
    /\ lpc' = "drop"
    /\ UNCHANGED <<lists, flags, waiting, current, deadline, context, clientVars, posted, cancelled>>

(* Mutant: the task drops a reference its job never took. *)
DropTwice ==
    /\ lpc = "drop"
    /\ mRefs' = mRefs - 1
    /\ lpc' = "pop" /\ current' = None
    /\ UNCHANGED <<lists, flags, waiting, deadline, context, clientVars, history>>

(* The task goes out of scope, and with it the reference its job held or    *)
(* took.  If that was the last one the looper's thread is the one that      *)
(* calls requestExit: it waits for itself.                                  *)
DropTask ==
    LET refs == IF JobHolds = "none" THEN mRefs ELSE mRefs - 1
    IN  /\ lpc = "drop"
        /\ mRefs' = refs
        /\ lpc' = IF JobHolds # "none" /\ refs = 0 THEN "stuck" ELSE "pop"
        /\ current' = None
        /\ UNCHANGED <<lists, flags, waiting, deadline, context, clientVars, history>>

Terminate ==
    /\ lpc = "exit"
    /\ lpc' = "done"
    /\ mTerminated' = TRUE
    /\ waiting' = {}
    /\ UNCHANGED <<lists, mRequestExit, current, deadline, mRefs, context, clientVars, history>>

Tick ==
    /\ now < MaxTime
    /\ now' = now + 1
    /\ UNCHANGED <<lists, flags, waiting, looperVars, mRefs, role, clientVars, history>>

-----------------------------------------------------------------------------
(* What a client does because it has begun, and what it may choose to begin. *)
Continue(c) ==
    \/ PostPush(c) \/ PostDelayed(c) \/ PostSize(c) \/ Signal(c)
    \/ MergeOne(c) \/ EndRemove(c) \/ EndExists(c)
    \/ RequestExit(c) \/ AwaitExit(c)

Begin(c) ==
    \/ MakePost(c) \/ MakeDelayed(c)
    \/ BeginRemove(c) \/ BeginExists(c) \/ Flush(c) \/ Release(c)

LooperNext ==
    \/ PopTimed \/ PopImmediate \/ SleepUntilDue \/ SleepIdle \/ LeaveLoop
    \/ Timeout \/ RunJob \/ DropTask \/ Terminate

Next ==
    \/ \E c \in Client : Begin(c) \/ Continue(c)
    \/ LooperNext
    \/ SpuriousWakeup
    \/ Tick

(* Threads run, time passes; nobody has to begin a call, and no wait has to *)
(* return without a signal or its timeout.                                  *)
Spec ==
    /\ Init /\ [][Next]_vars
    /\ WF_vars(LooperNext)
    /\ WF_vars(Tick)
    /\ \A c \in Client : WF_vars(Continue(c))

-----------------------------------------------------------------------------
(* Every variable has its type. *)
TypeOK ==
    /\ mTasks \in Seq(Task) /\ mTimedTasks \in Seq(Task)
    /\ taskLock \in Client \cup {None}
    /\ mRequestExit \in BOOLEAN /\ mTerminated \in BOOLEAN
    /\ waiting \subseteq Client \cup {looper}
    /\ deadline \in 0..MaxTime \cup {Never}
    /\ lpc \in {"pop", "run", "drop", "exit", "done", "stuck"}
    /\ current \in Task \cup {None}
    /\ mRefs \in Nat
    /\ now \in 0..MaxTime
    /\ role \in Roles
    /\ pc \in [Client -> ClientPC]
    /\ arg \in [Client -> Job \cup Task \cup {None}]
    /\ calls \in [Client -> 0..MaxCalls]
    /\ posted \subseteq Id
    /\ ran \in Seq(Task)
    /\ cancelled \subseteq Id

Running == IF lpc = "run" THEN {current.id} ELSE {}
Finished == Ids(ran) \cup cancelled

(* Every task posted is in exactly one place: in the queue, in the list,     *)
(* about to run, run, or cancelled.  None is lost and none runs twice or     *)
(* after its removal, whatever merge_l and the pops do to the two lists.     *)
TasksConserved ==
    /\ posted = Ids(mTasks) \cup Ids(mTimedTasks) \cup Running \cup Finished
    /\ Cardinality(posted) = Len(mTasks) + Len(mTimedTasks) + Cardinality(Running)
                             + Len(ran) + Cardinality(cancelled)

(* No client can push on the lock-free queue, or merge it into the list,     *)
(* while another one is between its own push and its test of the size.       *)
Moves == {"post", "exists", "remove"}
OneMover ==
    \A c, d \in Client :
        c # d /\ "post" \in role[c].verbs => role[d].verbs \cap Moves = {}

(* Then the looper never sleeps past work: while it waits, the queue is      *)
(* empty and its deadline is no later than the first timed task, or some     *)
(* client is about to signal it.                                             *)
Waking(c) == pc[c] = "signal" \/ (pc[c] = "size" /\ FirstImmediate(mTasks))
WorkIsNoticed ==
    OneMover /\ looper \in waiting =>
        \/ \E c \in Client : Waking(c)
        \/ /\ mTasks = <<>>
           /\ mTimedTasks # <<>> => /\ deadline # Never
                                    /\ deadline <= Head(mTimedTasks).when

(* Outside the critical section of a merge the timed tasks are in order, and *)
(* the jobs that one client posts without a delay run in the order of the    *)
(* times they were posted at, also when exists or remove moved some of them  *)
(* to the list.  Those of two clients need not: a task takes its time before *)
(* it is pushed, and another one may be pushed between the two.              *)
InOrder(tasks) ==
    \A i, j \in DOMAIN tasks :
        /\ i < j /\ tasks[i].delay = 0 /\ tasks[j].delay = 0
        /\ tasks[i].id[1] = tasks[j].id[1]
        => tasks[i].when <= tasks[j].when
JobsInOrder ==
    /\ taskLock = None => IsSortedByTime(mTimedTasks)
    /\ InOrder(ran)

(* A looper terminates only after every job posted before the release has    *)
(* run, the delayed ones included: requestExit does not flush.               *)
ExitDrains == mTerminated => posted = Finished

(* Every job posted runs unless it is removed or flushed.  Clients make a    *)
(* bounded number of calls, so that all are done in the end.                 *)
JobsRun == []<>(posted = Finished)

(* The same when no client moves tasks while another one posts: the size     *)
(* that a poster sees then tells it whether the looper has to be woken.      *)
JobsOfOneMoverRun == OneMover => JobsRun

(* When the last reference is gone the looper terminates and the client that *)
(* dropped it returns.                                                       *)
LastReleaseTerminates ==
    mRefs = 0 ~> mTerminated /\ \A c \in Client : pc[c] # "wait_exit"
=============================================================================
