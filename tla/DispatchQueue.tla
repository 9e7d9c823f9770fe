--------------------------- MODULE DispatchQueue ---------------------------
(***************************************************************************)
(* A queue of jobs that shares a looper with others (ABE/core/Looper.cpp,  *)
(* DispatchQueue and QueueDispatcher).  The dispatcher is itself a job: it *)
(* is posted to the looper, runs one task and posts itself again while     *)
(* there is more.                                                          *)
(*                                                                         *)
(* Looper is abstracted to what it promises a dispatcher: every post is    *)
(* run once it is due, one at a time, by one thread.  A merge of the two   *)
(* lists is one step here: Looper models it in detail.                     *)
(***************************************************************************)
EXTENDS JobDispatcher

CONSTANTS
    Client,     \* threads that hold a reference to the queue
    Job,        \* job objects
    Delay,      \* delays in ticks that clients pass to dispatch
    MaxCalls,   \* bound: calls per client before it releases the queue
    MaxTime,    \* bound: the clock stops here
    Roles,      \* the scenarios: what each client calls, how often, with
                \* which jobs, and whether a wait may return for no reason,
                \* as POSIX allows
    None

Verbs == {"dispatch", "delay", "sync", "exists", "remove", "flush", "release"}

ASSUME ClientAssumption == IsFiniteSet(Client) /\ None \notin Client
ASSUME BoundAssumption == MaxCalls \in Nat /\ MaxTime \in Nat
ASSUME DelayAssumption == Delay \subseteq 1..MaxTime
ASSUME RolesAssumption ==
    Roles \subseteq [verbs : [Client -> SUBSET Verbs], calls : 0..MaxCalls,
                     jobs : SUBSET Job, spurious : BOOLEAN]

Id == Client \X (1..MaxCalls)
Task == [id : Id, job : Job, when : 0..MaxTime, sync : BOOLEAN]
Post == [when : 0..MaxTime]     \* of the dispatcher to the looper

VARIABLES
    mTasks, mTimedTasks,
    mDispatching,
    mLock,          \* the client that holds it across steps, or None
    posts,          \* the looper's tasks that are this dispatcher
    lpc,            \* the looper: "idle", "run" a task, "next" after it
    current,        \* the task the dispatcher has popped, or None
    waiting,        \* clients blocked in sync or requestExit
    mRefs,          \* references to the queue
    checkFailed,    \* CHECK_FALSE(mDispatching) in requestExit
    dangling,       \* the dispatcher has signalled the Condition of a sync that
                    \* had returned: what that does is undefined, and the
                    \* behaviour ends
    now,
    role,           \* the scenario of this behaviour
    pc, calls,      \* where each client is, and the calls it has begun
    made,           \* the task a client has made and not yet queued, or None
    posted,         \* history: ids dispatched
    ran,            \* history: tasks in the order they ran
    cancelled       \* history: ids removed or flushed

lists == <<mTasks, mTimedTasks>>
looperVars == <<posts, lpc, current>>
clientVars == <<pc, calls, made>>
history == <<posted, ran, cancelled>>
context == <<now, role>>
vars == <<lists, mDispatching, mLock, looperVars, waiting, mRefs, checkFailed,
          dangling, context, clientVars, history>>

ClientPC == {"idle", "push", "insert", "size", "post", "repost",
             "sync_push", "sync_size", "sync_post", "sync_wait",
             "last", "wait_exit", "destroy", "gone"}

Init ==
    /\ mTasks = <<>> /\ mTimedTasks = <<>>
    /\ mDispatching = FALSE /\ mLock = None
    /\ posts = <<>> /\ lpc = "idle" /\ current = None
    /\ waiting = {} /\ checkFailed = FALSE /\ dangling = FALSE
    /\ mRefs = Cardinality(Client)
    /\ now = 0
    /\ role \in Roles
    /\ pc = [c \in Client |-> "idle"]
    /\ calls = [c \in Client |-> 0]
    /\ made = [c \in Client |-> None]
    /\ posted = {} /\ ran = <<>> /\ cancelled = {}

Goto(c, from, to) == pc[c] = from /\ pc' = [pc EXCEPT ![c] = to]

(* Looper::post of the dispatcher. *)
Posts(delay) == InsertTimed(posts, [when |-> now + delay])

-----------------------------------------------------------------------------
(* Clients *)

Call(c, verb) ==
    /\ verb \in role.verbs[c]
    /\ pc[c] = "idle"
    /\ calls[c] < role.calls
    /\ calls' = [calls EXCEPT ![c] = @ + 1]

NewTask(c, job, delay, sync) ==
    [id |-> <<c, calls[c] + 1>>, job |-> job, when |-> now + delay, sync |-> sync]

(* queue() makes the Task, which reads the clock, before the task goes on a *)
(* list.                                                                    *)
MakeTask(c, verb, delays, sync, place) ==
    /\ Call(c, verb)
    /\ Goto(c, "idle", place)
    /\ \E job \in role.jobs, d \in {d \in delays : now + d <= MaxTime} :
          made' = [made EXCEPT ![c] = NewTask(c, job, d, sync)]
    /\ UNCHANGED <<lists, mDispatching, looperVars, waiting, mRefs, checkFailed,
                   dangling, context, history>>

DispatchMake(c) ==
    MakeTask(c, "dispatch", {0}, FALSE, "push") /\ UNCHANGED mLock
DelayMake(c) ==
    MakeTask(c, "delay", Delay, FALSE, "insert") /\ UNCHANGED mLock

(* The task goes on a list. *)
Queued(c) ==
    /\ made' = [made EXCEPT ![c] = None]
    /\ posted' = posted \cup {made[c].id}

(* dispatch() without delay: push, test the size, post the dispatcher. *)
DispatchPush(c) ==
    /\ Goto(c, "push", "size")
    /\ mTasks' = Append(mTasks, made[c])
    /\ Queued(c)
    /\ UNCHANGED <<mTimedTasks, mDispatching, mLock, looperVars, waiting, mRefs,
                   checkFailed, dangling, context, calls, ran, cancelled>>

DispatchSize(c) ==
    /\ Goto(c, "size", IF FirstImmediate(mTasks) THEN "post" ELSE "idle")
    /\ UNCHANGED <<lists, mDispatching, mLock, looperVars, waiting, mRefs,
                   checkFailed, dangling, context, calls, made, history>>

DispatchDelayed(c) ==
    /\ Goto(c, "insert", IF FirstTimed(mTasks, mTimedTasks, made[c])
                         THEN "post" ELSE "idle")
    /\ mTimedTasks' = InsertTimed(mTimedTasks, made[c])
    /\ Queued(c)
    /\ UNCHANGED <<mTasks, mDispatching, mLock, looperVars, waiting, mRefs,
                   checkFailed, dangling, context, calls, ran, cancelled>>

(* mLooper->post(mDispatcher), also for a timed task. *)
PostDispatcher(c) ==
    /\ Goto(c, "post", "idle")
    /\ posts' = Posts(0)
    /\ UNCHANGED <<lists, mDispatching, mLock, lpc, current, waiting, mRefs,
                   checkFailed, dangling, context, calls, made, history>>

(* sync() takes mLock before it makes its task and holds it until its wait. *)
SyncMake(c) ==
    /\ mLock = None /\ mLock' = c
    /\ MakeTask(c, "sync", {0}, TRUE, "sync_push")

SyncPush(c) ==
    /\ Goto(c, "sync_push", "sync_size")
    /\ mTasks' = Append(mTasks, made[c])
    /\ Queued(c)
    /\ UNCHANGED <<mTimedTasks, mDispatching, mLock, looperVars, waiting, mRefs,
                   checkFailed, dangling, context, calls, ran, cancelled>>

(* Mutant: sync waits only if it posted the dispatcher. *)
SyncSizeNoWait(c) ==
    /\ Goto(c, "sync_size", IF FirstImmediate(mTasks) THEN "sync_post" ELSE "sync_wait")
    /\ mLock' = IF FirstImmediate(mTasks) THEN mLock ELSE None
    /\ UNCHANGED <<lists, mDispatching, looperVars, waiting, mRefs, checkFailed, dangling,
                   context, calls, made, history>>

SyncSize(c) ==
    /\ Goto(c, "sync_size", IF FirstImmediate(mTasks) THEN "sync_post" ELSE "sync_wait")
    /\ IF FirstImmediate(mTasks)
       THEN UNCHANGED <<mLock, waiting>>
       ELSE mLock' = None /\ waiting' = waiting \cup {c}
    /\ UNCHANGED <<lists, mDispatching, looperVars, mRefs, checkFailed, dangling,
                   context, calls, made, history>>

SyncPost(c) ==
    /\ Goto(c, "sync_post", "sync_wait")
    /\ posts' = Posts(0)
    /\ mLock' = None /\ waiting' = waiting \cup {c}
    /\ UNCHANGED <<lists, mDispatching, lpc, current, mRefs, checkFailed, dangling,
                   context, calls, made, history>>

(* The wait is not in a loop: whoever wakes it, sync returns. *)
SyncReturn(c) ==
    /\ Goto(c, "sync_wait", "idle")
    /\ c \notin waiting /\ mLock = None
    /\ UNCHANGED <<lists, mDispatching, mLock, looperVars, waiting, mRefs,
                   checkFailed, dangling, context, calls, made, history>>

(* Mutant: the tasks of the queue are popped and dropped. *)
MergedTimedOnly == SortByTime(mTimedTasks)

(* merge_l pushes the tasks of the queue to the front one by one and sorts. *)
Merged == SortByTime(Reverse(mTasks) \o mTimedTasks)

ExistsJob(c) ==
    /\ Call(c, "exists")
    /\ Goto(c, "idle", "idle")
    /\ mTasks' = <<>> /\ mTimedTasks' = Merged
    /\ UNCHANGED <<mDispatching, mLock, looperVars, waiting, mRefs, checkFailed, dangling,
                   context, made, history>>

(* Mutant: remove does not post the dispatcher again. *)
RepostForgotten(c) ==
    /\ Goto(c, "repost", "idle")
    /\ posts' = <<>>
    /\ UNCHANGED <<lists, mDispatching, mLock, lpc, current, waiting, mRefs,
                   checkFailed, dangling, context, calls, made, history>>

(* remove() of the first task takes the dispatcher off the looper and posts *)
(* it again.                                                                *)
RemoveJob(c) ==
    /\ Call(c, "remove")
    /\ \E job \in role.jobs :
          LET kept == WithoutJob(Merged, job)
          IN  /\ mTasks' = <<>> /\ mTimedTasks' = kept
              /\ cancelled' = cancelled \cup (Ids(Merged) \ Ids(kept))
              /\ Goto(c, "idle", IF RemovesHead(Merged, job) THEN "repost" ELSE "idle")
    /\ UNCHANGED <<mDispatching, mLock, looperVars, waiting, mRefs, checkFailed, dangling,
                   context, made, posted, ran>>

Repost(c) ==
    /\ Goto(c, "repost", "post")
    /\ posts' = <<>>
    /\ UNCHANGED <<lists, mDispatching, mLock, lpc, current, waiting, mRefs,
                   checkFailed, dangling, context, calls, made, history>>

Flush(c) ==
    /\ Call(c, "flush")
    /\ Goto(c, "idle", "idle")
    /\ mTasks' = <<>> /\ mTimedTasks' = <<>>
    /\ cancelled' = cancelled \cup Ids(mTasks) \cup Ids(mTimedTasks)
    /\ UNCHANGED <<mDispatching, mLock, looperVars, waiting, mRefs, checkFailed, dangling,
                   context, made, posted, ran>>

Release(c) ==
    /\ "release" \in role.verbs[c]
    /\ Goto(c, "idle", IF mRefs = 1 THEN "last" ELSE "gone")
    /\ mRefs' = mRefs - 1
    /\ UNCHANGED <<lists, mDispatching, mLock, looperVars, waiting, checkFailed, dangling,
                   context, calls, made, history>>

(* Mutant: a running task is forgotten. *)
ExitUnlessQueued(c) ==
    LET idle == NextDelay(mTasks, mTimedTasks, now) < 0
    IN  /\ mLock = None
        /\ Goto(c, "last", IF idle THEN "destroy" ELSE "wait_exit")
        /\ waiting' = IF idle THEN waiting ELSE waiting \cup {c}
        /\ UNCHANGED <<lists, mDispatching, mLock, looperVars, mRefs, checkFailed, dangling,
                       context, calls, made, history>>

(* requestExit: return if there is nothing to do, else wait once. *)
RequestExit(c) ==
    LET idle == ~mDispatching /\ NextDelay(mTasks, mTimedTasks, now) < 0
    IN  /\ mLock = None
        /\ Goto(c, "last", IF idle THEN "destroy" ELSE "wait_exit")
        /\ waiting' = IF idle THEN waiting ELSE waiting \cup {c}
        /\ UNCHANGED <<lists, mDispatching, mLock, looperVars, mRefs, checkFailed, dangling,
                       context, calls, made, history>>

ExitCheck(c) ==
    /\ Goto(c, "wait_exit", "destroy")
    /\ c \notin waiting /\ mLock = None
    /\ checkFailed' = mDispatching
    /\ UNCHANGED <<lists, mDispatching, mLock, looperVars, waiting, mRefs, dangling,
                   context, calls, made, history>>

(* ~DispatchQueue takes the dispatcher off the looper. *)
Destroy(c) ==
    /\ Goto(c, "destroy", "gone")
    /\ posts' = <<>>
    /\ UNCHANGED <<lists, mDispatching, mLock, lpc, current, waiting, mRefs,
                   checkFailed, dangling, context, calls, made, history>>

-----------------------------------------------------------------------------
(* The looper's thread: QueueDispatcher::onJob *)

ExitWaiters == {c \in Client : pc[c] = "wait_exit"}

(* Mutant: the exit is never signalled. *)
WokenForSync(next, synced) == synced

(* Who is woken after a task: the client of its sync, and when there is no   *)
(* more to do the one that waits for the exit.                               *)
Woken(next, synced) == synced \cup IF next < 0 THEN ExitWaiters ELSE {}

(* Stop, or post the dispatcher again.                                       *)
Finish(remaining, next, synced) ==
    /\ lpc' = "idle"
    /\ mDispatching' = (next >= 0)
    /\ posts' = IF next < 0 THEN remaining
                ELSE InsertTimed(remaining, [when |-> now + next])
    /\ waiting' = waiting \ Woken(next, synced)

OnJob == lpc = "idle" /\ mLock = None /\ IsDue(posts, now)

(* pop() takes a timed task that is due, else one from the queue. *)
PopTimed ==
    /\ OnJob /\ IsDue(mTimedTasks, now)
    /\ posts' = Tail(posts)
    /\ mDispatching' = TRUE
    /\ current' = Head(mTimedTasks) /\ mTimedTasks' = Tail(mTimedTasks)
    /\ lpc' = "run"
    /\ UNCHANGED <<mTasks, mLock, waiting, mRefs, checkFailed, dangling,
                   context, clientVars, history>>

PopImmediate ==
    /\ OnJob /\ ~IsDue(mTimedTasks, now) /\ mTasks # <<>>
    /\ posts' = Tail(posts)
    /\ mDispatching' = TRUE
    /\ current' = Head(mTasks) /\ mTasks' = Tail(mTasks)
    /\ lpc' = "run"
    /\ UNCHANGED <<mTimedTasks, mLock, waiting, mRefs, checkFailed, dangling,
                   context, clientVars, history>>

PopNothing ==
    /\ OnJob /\ ~IsDue(mTimedTasks, now) /\ mTasks = <<>>
    /\ Finish(Tail(posts), NextDelay(mTasks, mTimedTasks, now), {})
    /\ UNCHANGED <<lists, mLock, current, mRefs, checkFailed, dangling,
                   context, clientVars, history>>

(* The task runs without mLock. *)
RunTask ==
    /\ lpc = "run" /\ lpc' = "next"
    /\ ran' = Append(ran, current)
    /\ UNCHANGED <<lists, mDispatching, mLock, posts, current, waiting, mRefs,
                   checkFailed, dangling, context, clientVars, posted, cancelled>>

(* The client of the sync that the task is of has not left it. *)
InSync(task) == pc[task.id[1]] = "sync_wait" /\ calls[task.id[1]] = task.id[2]

(* Wake the client of a sync and see what is next. *)
AfterTask ==
    /\ lpc = "next" /\ mLock = None
    /\ Finish(posts, NextDelay(mTasks, mTimedTasks, now),
              IF current.sync /\ InSync(current) THEN {current.id[1]} ELSE {})
    /\ dangling' = (current.sync /\ ~InSync(current))
    /\ current' = None
    /\ UNCHANGED <<lists, mLock, mRefs, checkFailed, context, clientVars, history>>

(* A wait returns for no reason, that of requestExit or that of sync. *)
SpuriousWakeup ==
    /\ role.spurious
    /\ \E c \in waiting : waiting' = waiting \ {c}
    /\ UNCHANGED <<lists, mDispatching, mLock, looperVars, mRefs, checkFailed, dangling,
                   context, clientVars, history>>

Tick ==
    /\ now < MaxTime
    /\ now' = now + 1
    /\ UNCHANGED <<lists, mDispatching, mLock, looperVars, waiting, mRefs,
                   checkFailed, dangling, role, clientVars, history>>

-----------------------------------------------------------------------------
Begin(c) ==
    \/ DispatchMake(c) \/ DelayMake(c) \/ SyncMake(c)
    \/ ExistsJob(c) \/ RemoveJob(c) \/ Flush(c) \/ Release(c)

Continue(c) ==
    \/ DispatchPush(c) \/ DispatchDelayed(c)
    \/ DispatchSize(c) \/ PostDispatcher(c) \/ Repost(c)
    \/ SyncPush(c) \/ SyncSize(c) \/ SyncPost(c) \/ SyncReturn(c)
    \/ RequestExit(c) \/ ExitCheck(c) \/ Destroy(c)

LooperNext == PopTimed \/ PopImmediate \/ PopNothing \/ RunTask \/ AfterTask

Next ==
    /\ ~dangling
    /\ \/ \E c \in Client : Begin(c) \/ Continue(c)
       \/ LooperNext
       \/ SpuriousWakeup
       \/ Tick

(* mLock is held for a few steps at a time, so that a thread that waits for *)
(* it gets it in the end; nobody has to begin a call.                       *)
Spec ==
    /\ Init /\ [][Next]_vars
    /\ WF_vars(~dangling /\ LooperNext) /\ WF_vars(~dangling /\ Tick)
    /\ \A c \in Client : WF_vars(~dangling /\ Continue(c))
-----------------------------------------------------------------------------
(* Every variable has its type. *)
TypeOK ==
    /\ mTasks \in Seq(Task) /\ mTimedTasks \in Seq(Task)
    /\ mDispatching \in BOOLEAN
    /\ mLock \in Client \cup {None}
    /\ posts \in Seq(Post)
    /\ lpc \in {"idle", "run", "next"}
    /\ current \in Task \cup {None}
    /\ waiting \subseteq Client
    /\ mRefs \in 0..Cardinality(Client)
    /\ checkFailed \in BOOLEAN /\ dangling \in BOOLEAN
    /\ now \in 0..MaxTime
    /\ role \in Roles
    /\ pc \in [Client -> ClientPC]
    /\ calls \in [Client -> 0..MaxCalls]
    /\ made \in [Client -> Task \cup {None}]
    /\ posted \subseteq Id
    /\ ran \in Seq(Task)
    /\ cancelled \subseteq Id

Finished == Ids(ran) \cup cancelled

(* No client moves tasks while another one is between its push and its test  *)
(* of the size, and no wait returns for no reason.                           *)
Moves == {"dispatch", "sync", "exists", "remove", "flush"}
OneMover ==
    \A c, d \in Client :
        c # d /\ role.verbs[c] \cap {"dispatch", "sync"} # {}
        => role.verbs[d] \cap Moves = {}
Orderly == OneMover /\ ~role.spurious

(* Then a queue with tasks is served: the dispatcher is on the looper, or is *)
(* running a task and will look at the queue again, or a client is about to  *)
(* post it.                                                                  *)
QueueIsServed ==
    Orderly /\ mTasks \o mTimedTasks # <<>> =>
        \/ posts # <<>>
        \/ lpc # "idle"
        \/ \E c \in Client :
              \/ pc[c] \in {"post", "repost", "sync_post"}
              \/ (pc[c] \in {"size", "sync_size"} /\ FirstImmediate(mTasks))

(* Every task dispatched is in exactly one place: on a list, about to run,   *)
(* run, or cancelled; also when requestExit returns early.                   *)
Running == IF lpc = "run" THEN {current.id} ELSE {}

TasksConserved ==
    /\ posted = Ids(mTasks) \cup Ids(mTimedTasks) \cup Running \cup Finished
    /\ Cardinality(posted) = Len(mTasks) + Len(mTimedTasks) + Cardinality(Running)
                             + Len(ran) + Cardinality(cancelled)

(* sync returns only after its task has run, unless a wait has returned for  *)
(* no reason: that of sync is not in a loop.                                 *)
SyncMeansRun ==
    [][\A c \in Client : ~role.spurious /\ pc[c] = "sync_wait" /\ pc'[c] = "idle"
                          => <<c, calls[c]>> \in Ids(ran)]_vars

(* Nor does the dispatcher signal a Condition that has gone with its sync:   *)
(* whatever other clients merge, remove and flush, each task of a sync that  *)
(* is still on a list or runs has its client waiting.                        *)
SignalsFindTheirSync == dangling => role.spurious

(* "disptch queue will wait for jobs complete": when the last reference is   *)
(* gone and the queue destroyed, every task has run or was cancelled, none   *)
(* is running, and the dispatcher is not on the looper any more; and         *)
(* requestExit finds mDispatching reset when it wakes.  Its wait is not in a *)
(* loop: one that returns for no reason breaks all of this.                  *)
ExitDrains ==
    ~role.spurious =>
        /\ ~checkFailed
        /\ mRefs = 0 /\ (\A c \in Client : pc[c] = "gone") =>
              posted = Finished /\ current = None /\ posts = <<>>

(* Every task dispatched runs unless it is removed or flushed.  Clients make *)
(* a bounded number of calls, so that all are done in the end.               *)
JobsRun == Orderly => []<>(posted = Finished)

(* sync returns, and so does whoever drops the last reference.               *)
CallsReturn ==
    Orderly => \A c \in Client :
        pc[c] \in {"sync_size", "last"} ~> pc[c] \in {"idle", "gone"}
=============================================================================
