------------------------ MODULE DispatchQueue_proofs ------------------------
(***************************************************************************)
(* Theorems about DispatchQueue for every set of clients, jobs and delays, *)
(* every bound and every scenario.                                         *)
(***************************************************************************)
EXTENDS DispatchQueue, JobDispatcher_proofs

\* A client that has made a task and not yet put it on a list.
Making(c) == pc[c] \in {"push", "insert", "sync_push"}

\* A client that holds mLock in sync.
Syncing(c) == pc[c] \in {"sync_push", "sync_size", "sync_post"}

\* The client is inside sync and has not been woken.
Awaiting(c) == Syncing(c) \/ (pc[c] = "sync_wait" /\ c \in waiting)

\* Where the client is that has dropped the last reference.
Leaving == {"last", "wait_exit", "destroy"}

\* Clients that have not dropped their reference.
Holders == {c \in Client : pc[c] \notin {"last", "wait_exit", "destroy", "gone"}}

\* The task the dispatcher has popped and not left behind.
CurrentTask == IF lpc = "idle" THEN {} ELSE {current}

\* Nothing to do and nothing being done: what requestExit waits for.
Quiet == mTasks = <<>> /\ mTimedTasks = <<>> /\ lpc = "idle" /\ ~mDispatching

\* What a step of one thread finds of the others' while they are inside a call.
CallsInv ==
    /\ IF lpc = "idle" THEN current = None ELSE current \in Task /\ mDispatching
    /\ \A c \in Client : mLock = c <=> Syncing(c)
    /\ \A c \in waiting : pc[c] \in {"sync_wait", "wait_exit"}
    /\ \A c \in Client : pc[c] \in {"push", "size"} => "dispatch" \in role.verbs[c]
    /\ \A c \in Client : Syncing(c) => "sync" \in role.verbs[c]

\* A task that is made and on no list has an id that is new.
MadeInv ==
    \A c \in Client : Making(c) =>
        /\ made[c] \in Task /\ made[c].id = <<c, calls[c]>> /\ made[c].id \notin posted
        /\ made[c].sync <=> pc[c] = "sync_push"

\* Unless a wait has returned for no reason: who has called sync waits, or is
\* about to, as long as its task is on a list or runs; and is woken only when
\* it has run.
SyncInv ==
    ~role.spurious =>
        /\ ~dangling
        /\ \A t \in Tasks(mTasks) \cup Tasks(mTimedTasks) \cup CurrentTask :
              t.sync => t.id = <<t.id[1], calls[t.id[1]]>> /\ Awaiting(t.id[1])
        /\ lpc = "next" => current.id \in Ids(ran)
        /\ \A c \in Client : pc[c] = "sync_wait" /\ c \notin waiting =>
              <<c, calls[c]>> \in Ids(ran)

\* Whoever drops the last reference is alone, and goes on only when all is quiet.
ExitInv ==
    /\ mRefs = Cardinality(Holders)
    /\ \A c, d \in Client :
          pc[c] \in {"last", "wait_exit", "destroy"} /\ c # d => pc[d] = "gone"
    /\ ~role.spurious =>
          /\ ~checkFailed
          /\ \A c \in Client :
                pc[c] = "destroy" \/ (pc[c] = "wait_exit" /\ c \notin waiting) => Quiet
          /\ (\A c \in Client : pc[c] = "gone") => Quiet /\ posts = <<>>

\* Every id posted is in one place, once; a client's next id is a new one.
PlacesInv ==
    /\ Distinct(mTasks) /\ Distinct(mTimedTasks) /\ Distinct(ran)
    /\ posted = Ids(mTasks) \cup Ids(mTimedTasks) \cup Running \cup Finished
    /\ Ids(mTasks) \cap Ids(mTimedTasks) = {}
    /\ Running \cap (Ids(mTasks) \cup Ids(mTimedTasks)) = {}
    /\ Finished \cap (Ids(mTasks) \cup Ids(mTimedTasks) \cup Running) = {}
    /\ Ids(ran) \cap cancelled = {}
    /\ \A id \in posted : id[2] <= calls[id[1]]

\* The dispatcher is on the looper or running, or the client c will post it.
WillPost(c) ==
    \/ pc[c] \in {"post", "repost", "sync_post"}
    \/ pc[c] \in {"size", "sync_size"} /\ FirstImmediate(mTasks)

ServedInv ==
    Orderly /\ (mTasks # <<>> \/ mTimedTasks # <<>>) =>
        posts # <<>> \/ lpc # "idle" \/ \E c \in Client : WillPost(c)

DispatchInv ==
    TypeOK /\ CallsInv /\ MadeInv /\ SyncInv /\ ExitInv /\ PlacesInv /\ ServedInv

-----------------------------------------------------------------------------
(* What tasks and their fields are. *)
LEMMA TaskFacts ==
    /\ \A t \in Task : t.id \in Id /\ t.when \in 0..MaxTime /\ t.when \in Int
    /\ \A p \in Post : p.when \in 0..MaxTime /\ p.when \in Int
    /\ \A w \in 0..MaxTime : [when |-> w] \in Post
    /\ 0..MaxTime \subseteq Int
BY BoundAssumption DEF Task, Post

(* A call of dispatch or sync makes a task, with an id that is new. *)
LEMMA MakeFacts ==
    ASSUME DispatchInv, NEW c \in Client, DispatchMake(c) \/ DelayMake(c) \/ SyncMake(c)
    PROVE  /\ pc[c] = "idle" /\ calls' = [calls EXCEPT ![c] = calls[c] + 1]
           /\ calls[c] + 1 \in 1..MaxCalls
           /\ UNCHANGED <<lists, mDispatching, looperVars, waiting, mRefs, checkFailed,
                          dangling, context, history>>
           /\ \E task \in Task :
                 /\ made' = [made EXCEPT ![c] = task]
                 /\ task.id = <<c, calls[c] + 1>> /\ task.id \notin posted
                 /\ \/ /\ pc' = [pc EXCEPT ![c] = "push"] /\ task.sync = FALSE
                       /\ "dispatch" \in role.verbs[c] /\ mLock' = mLock
                    \/ /\ pc' = [pc EXCEPT ![c] = "insert"] /\ task.sync = FALSE
                       /\ mLock' = mLock
                    \/ /\ pc' = [pc EXCEPT ![c] = "sync_push"] /\ task.sync = TRUE
                       /\ "sync" \in role.verbs[c] /\ mLock = None /\ mLock' = c
<1> USE BoundAssumption, DelayAssumption, RolesAssumption DEF DispatchInv
<1>1. calls[c] \in 0..MaxCalls /\ role.calls \in 0..MaxCalls /\ calls[c] < role.calls
  BY DEF TypeOK, DispatchMake, DelayMake, SyncMake, MakeTask, Call
<1>2. calls[c] + 1 \in 1..MaxCalls
  BY <1>1
<1>3. <<c, calls[c] + 1>> \in Id
  BY <1>2 DEF Id
<1>4. <<c, calls[c] + 1>> \notin posted
  <2>1. <<c, calls[c] + 1>>[1] = c /\ <<c, calls[c] + 1>>[2] = calls[c] + 1
    OBVIOUS
  <2>2. ~ (calls[c] + 1 <= calls[c])
    BY <1>1
  <2> QED
    BY <2>1, <2>2 DEF PlacesInv
<1>5. ASSUME NEW job \in role.jobs, NEW d \in Delay \cup {0}, now + d <= MaxTime,
             NEW sync \in BOOLEAN
      PROVE  /\ NewTask(c, job, d, sync) \in Task
             /\ NewTask(c, job, d, sync).id = <<c, calls[c] + 1>>
             /\ NewTask(c, job, d, sync).sync = sync
  <2>1. now + d \in 0..MaxTime
    BY <1>5 DEF TypeOK
  <2>2. job \in Job
    BY DEF TypeOK
  <2> QED
    BY <1>3, <2>1, <2>2 DEF NewTask, Task
<1>6. /\ pc[c] = "idle" /\ calls' = [calls EXCEPT ![c] = calls[c] + 1]
      /\ UNCHANGED <<lists, mDispatching, looperVars, waiting, mRefs, checkFailed,
                     dangling, context, history>>
  BY DEF DispatchMake, DelayMake, SyncMake, MakeTask, Call, Goto
<1>7. CASE DispatchMake(c)
  <2>1. PICK job \in role.jobs, d \in {0} :
           now + d <= MaxTime /\ made' = [made EXCEPT ![c] = NewTask(c, job, d, FALSE)]
    BY <1>7 DEF DispatchMake, MakeTask
  <2>2. PICK task : task = NewTask(c, job, d, FALSE)
    OBVIOUS
  <2>3. task \in Task /\ task.id = <<c, calls[c] + 1>> /\ task.sync = FALSE
    BY <1>5, <2>1, <2>2
  <2>4. /\ pc' = [pc EXCEPT ![c] = "push"] /\ "dispatch" \in role.verbs[c]
        /\ mLock' = mLock
    BY <1>7 DEF DispatchMake, MakeTask, Goto, Call
  <2> QED
    BY <1>2, <1>4, <1>6, <2>1, <2>2, <2>3, <2>4
<1>8. CASE DelayMake(c)
  <2>1. PICK job \in role.jobs, d \in Delay :
           now + d <= MaxTime /\ made' = [made EXCEPT ![c] = NewTask(c, job, d, FALSE)]
    BY <1>8 DEF DelayMake, MakeTask
  <2>2. PICK task : task = NewTask(c, job, d, FALSE)
    OBVIOUS
  <2>3. task \in Task /\ task.id = <<c, calls[c] + 1>> /\ task.sync = FALSE
    BY <1>5, <2>1, <2>2
  <2>4. pc' = [pc EXCEPT ![c] = "insert"] /\ mLock' = mLock
    BY <1>8 DEF DelayMake, MakeTask, Goto
  <2> QED
    BY <1>2, <1>4, <1>6, <2>1, <2>2, <2>3, <2>4
<1>9. CASE SyncMake(c)
  <2>1. PICK job \in role.jobs, d \in {0} :
           now + d <= MaxTime /\ made' = [made EXCEPT ![c] = NewTask(c, job, d, TRUE)]
    BY <1>9 DEF SyncMake, MakeTask
  <2>2. PICK task : task = NewTask(c, job, d, TRUE)
    OBVIOUS
  <2>3. task \in Task /\ task.id = <<c, calls[c] + 1>> /\ task.sync = TRUE
    BY <1>5, <2>1, <2>2
  <2>4. /\ pc' = [pc EXCEPT ![c] = "sync_push"] /\ "sync" \in role.verbs[c]
        /\ mLock = None /\ mLock' = c
    BY <1>9 DEF SyncMake, MakeTask, Goto, Call
  <2> QED
    BY <1>2, <1>4, <1>6, <2>1, <2>2, <2>3, <2>4
<1> QED
  BY <1>7, <1>8, <1>9

(* What a client inside a call has made. *)
LEMMA MadeFacts ==
    ASSUME DispatchInv, NEW c \in Client, Making(c)
    PROVE  /\ made[c] \in Task /\ made[c].id = <<c, calls[c]>>
           /\ made[c].id \notin posted /\ made[c].id \in Id
           /\ made[c].sync <=> pc[c] = "sync_push"
BY TaskFacts DEF DispatchInv, MadeInv

(* merge_l gives a list of the tasks of both. *)
LEMMA MergedFacts ==
    ASSUME TypeOK
    PROVE  /\ Merged \in Seq(Task)
           /\ Tasks(Merged) = Tasks(mTasks) \cup Tasks(mTimedTasks)
           /\ Ids(Merged) = Ids(mTasks) \cup Ids(mTimedTasks)
           /\ PlacesInv => Distinct(Merged)
<1>1. PICK front : front = Reverse(mTasks)
  OBVIOUS
<1>2. PICK both : both = front \o mTimedTasks
  OBVIOUS
<1>3. mTasks \in Seq(Task) /\ mTimedTasks \in Seq(Task) /\ \A t \in Task : t.when \in Int
  BY TaskFacts DEF TypeOK
<1>4. /\ front \in Seq(Task) /\ Tasks(front) = Tasks(mTasks)
      /\ Distinct(mTasks) => Distinct(front)
  BY <1>1, <1>3, ReverseFacts
<1>5. Ids(front) = Ids(mTasks)
  BY <1>4, IdsOfTasks
<1>6. /\ both \in Seq(Task) /\ Tasks(both) = Tasks(front) \cup Tasks(mTimedTasks)
      /\ Distinct(front) /\ Distinct(mTimedTasks) /\ Ids(front) \cap Ids(mTimedTasks) = {} =>
            Distinct(both)
  BY <1>2, <1>3, <1>4, ConcatFacts
<1>7. Merged = SortByTime(both)
  BY <1>1, <1>2 DEF Merged
<1>8. /\ Merged \in Seq(Task) /\ Tasks(Merged) = Tasks(both)
      /\ Distinct(both) => Distinct(Merged)
  BY <1>3, <1>6, <1>7, SortFacts
<1>9. Tasks(Merged) = Tasks(mTasks) \cup Tasks(mTimedTasks)
  BY <1>4, <1>6, <1>8
<1>10. Ids(Merged) = Ids(mTasks) \cup Ids(mTimedTasks)
  BY <1>9, IdsOfTasks
<1>11. PlacesInv => Distinct(Merged)
  BY <1>4, <1>5, <1>6, <1>8 DEF PlacesInv
<1> QED
  BY <1>8, <1>9, <1>10, <1>11

(* next() is negative if and only if both lists are empty, and else the time *)
(* the dispatcher posts itself for is one of the clock.                      *)
LEMMA NextFacts ==
    ASSUME TypeOK, NEW next, next = NextDelay(mTasks, mTimedTasks, now)
    PROVE  /\ next \in Int
           /\ next < 0 <=> mTasks = <<>> /\ mTimedTasks = <<>>
           /\ next >= 0 => now + next \in 0..MaxTime
<1>1. now \in 0..MaxTime /\ now \in Int /\ mTimedTasks \in Seq(Task)
  BY TaskFacts DEF TypeOK
<1>2. CASE mTimedTasks # <<>>
  <2>1. PICK w : w = Head(mTimedTasks).when
    OBVIOUS
  <2>2. Head(mTimedTasks) \in Task
    BY <1>1, <1>2, TailFacts
  <2>3. w \in 0..MaxTime /\ w \in Int
    BY <2>1, <2>2, TaskFacts
  <2>4. CASE w <= now + Jitter
    <3>1. next = 0
      BY <1>2, <2>1, <2>4 DEF NextDelay, IsDue
    <3> QED
      BY <1>1, <1>2, <3>1
  <2>5. CASE ~ (w <= now + Jitter)
    <3>1. next = w - now
      BY <1>2, <2>1, <2>5 DEF NextDelay, IsDue
    <3>2. w > now
      BY <1>1, <2>3, <2>5, JitterAssumption
    <3> QED
      BY <1>1, <1>2, <2>3, <3>1, <3>2
  <2> QED
    BY <2>4, <2>5
<1>3. CASE mTimedTasks = <<>> /\ mTasks # <<>>
  <2>1. next = 0
    BY <1>3 DEF NextDelay
  <2> QED
    BY <1>1, <1>3, <2>1
<1>4. CASE mTimedTasks = <<>> /\ mTasks = <<>>
  <2>1. next = -1
    BY <1>4 DEF NextDelay
  <2> QED
    BY <1>1, <1>4, <2>1
<1> QED
  BY <1>2, <1>3, <1>4

(* The dispatcher is on the looper once it is posted. *)
LEMMA PostFacts ==
    ASSUME NEW s \in Seq(Post), NEW w \in 0..MaxTime
    PROVE  /\ InsertTimed(s, [when |-> w]) \in Seq(Post)
           /\ InsertTimed(s, [when |-> w]) # <<>>
<1>1. PICK p \in Post : p = [when |-> w]
  BY TaskFacts
<1>2. \A q \in Post : q.when \in Int
  BY TaskFacts
<1>3. /\ InsertTimed(s, p) \in Seq(Post)
      /\ Tasks(InsertTimed(s, p)) = Tasks(s) \cup {p}
  BY <1>2, InsertFacts
<1> QED
  BY <1>1, <1>3, EmptyFacts

(* What a run of the dispatcher leaves on the looper. *)
LEMMA FinishFacts ==
    ASSUME TypeOK, NEW remaining \in Seq(Post), NEW next, NEW synced,
           next = NextDelay(mTasks, mTimedTasks, now), Finish(remaining, next, synced)
    PROVE  /\ posts' \in Seq(Post)
           /\ mTasks = <<>> /\ mTimedTasks = <<>> =>
                 ~ mDispatching' /\ waiting' = waiting \ (synced \cup ExitWaiters)
           /\ ~ (mTasks = <<>> /\ mTimedTasks = <<>>) =>
                 mDispatching' = TRUE /\ posts' # <<>> /\ waiting' = waiting \ synced
<1>1. /\ next \in Int
      /\ next < 0 <=> mTasks = <<>> /\ mTimedTasks = <<>>
      /\ next >= 0 => now + next \in 0..MaxTime
  BY NextFacts
<1>2. CASE next < 0
  <2>1. posts' = remaining /\ waiting' = waiting \ (synced \cup ExitWaiters)
    BY <1>2 DEF Finish, Woken
  <2>2. ~ (next >= 0)
    BY <1>1, <1>2
  <2>3. ~ mDispatching'
    BY <2>2, Zenon DEF Finish
  <2> QED
    BY <1>1, <1>2, <2>1, <2>3
<1>3. CASE ~ (next < 0)
  <2>1. PICK w : w = now + next
    OBVIOUS
  <2>2. next >= 0 /\ w \in 0..MaxTime
    BY <1>1, <1>3, <2>1
  <2>3. posts' = InsertTimed(remaining, [when |-> w]) /\ waiting' = waiting \ synced
    BY <1>3, <2>1 DEF Finish, Woken
  <2>4. posts' \in Seq(Post) /\ posts' # <<>>
    BY <2>2, <2>3, PostFacts
  <2>5. mDispatching' = TRUE
    BY <2>2 DEF Finish
  <2> QED
    BY <1>1, <1>3, <2>3, <2>4, <2>5
<1> QED
  BY <1>2, <1>3

-----------------------------------------------------------------------------
(* Every step keeps the lists sequences of tasks, and the looper's posts. *)
LEMMA ListsStep ==
    ASSUME DispatchInv, [Next]_vars
    PROVE  /\ mTasks' \in Seq(Task) /\ mTimedTasks' \in Seq(Task) /\ ran' \in Seq(Task)
           /\ posts' \in Seq(Post)
<1> DEFINE Goal == /\ mTasks' \in Seq(Task) /\ mTimedTasks' \in Seq(Task)
                   /\ ran' \in Seq(Task) /\ posts' \in Seq(Post)
<1> SUFFICES Goal
  OBVIOUS
<1>0. /\ TypeOK /\ PlacesInv /\ CallsInv
      /\ mTasks \in Seq(Task) /\ mTimedTasks \in Seq(Task) /\ ran \in Seq(Task)
      /\ posts \in Seq(Post) /\ now \in 0..MaxTime /\ now + 0 = now /\ now <= MaxTime
  BY BoundAssumption DEF DispatchInv, TypeOK
<1>t. \A t \in Task : t.when \in Int
  BY TaskFacts
<1> USE DEF lists, looperVars, clientVars, context, history
<1>1. ASSUME NEW c \in Client, Begin(c) \/ Continue(c)
      PROVE  Goal
  <2>1. CASE DispatchPush(c)
    <3>1. made[c] \in Task
      BY <2>1, MadeFacts DEF DispatchPush, Goto, Making
    <3> QED
      BY <2>1, <1>0, <3>1, AppendFacts DEF DispatchPush
  <2>2. CASE DispatchDelayed(c)
    <3>1. made[c] \in Task
      BY <2>2, MadeFacts DEF DispatchDelayed, Goto, Making
    <3> QED
      BY <2>2, <1>0, <3>1, <1>t, InsertFacts DEF DispatchDelayed
  <2>3. CASE SyncPush(c)
    <3>1. made[c] \in Task
      BY <2>3, MadeFacts DEF SyncPush, Goto, Making
    <3> QED
      BY <2>3, <1>0, <3>1, AppendFacts DEF SyncPush
  <2>4. CASE ExistsJob(c)
    BY <1>1, <2>4, <1>0, MergedFacts, EmptyFacts DEF ExistsJob
  <2>5. CASE RemoveJob(c)
    <3>1. PICK job \in role.jobs : mTimedTasks' = WithoutJob(Merged, job)
      BY <2>5 DEF RemoveJob
    <3>2. WithoutJob(Merged, job) \in Seq(Task)
      BY <1>0, MergedFacts, WithoutFacts
    <3> QED
      BY <2>5, <1>0, <3>1, <3>2, EmptyFacts DEF RemoveJob
  <2>6. CASE Flush(c)
    BY <1>1, <2>6, <1>0, EmptyFacts DEF Flush
  <2>7. CASE Release(c)
    BY <1>1, <2>7, <1>0 DEF Release
  <2>8. CASE DispatchSize(c)
    BY <1>1, <2>8, <1>0 DEF DispatchSize
  <2>9. CASE PostDispatcher(c)
    <3>1. posts' = InsertTimed(posts, [when |-> now])
      BY <2>9, <1>0 DEF PostDispatcher, Posts
    <3> QED
      BY <2>9, <1>0, <3>1, PostFacts DEF PostDispatcher
  <2>10. CASE Repost(c)
    BY <1>1, <2>10, <1>0, EmptyFacts DEF Repost
  <2>11. CASE SyncSize(c)
    BY <1>1, <2>11, <1>0 DEF SyncSize
  <2>12. CASE SyncPost(c)
    <3>1. posts' = InsertTimed(posts, [when |-> now])
      BY <2>12, <1>0 DEF SyncPost, Posts
    <3> QED
      BY <2>12, <1>0, <3>1, PostFacts DEF SyncPost
  <2>13. CASE SyncReturn(c)
    BY <1>1, <2>13, <1>0 DEF SyncReturn
  <2>14. CASE RequestExit(c)
    BY <1>1, <2>14, <1>0 DEF RequestExit
  <2>15. CASE ExitCheck(c)
    BY <1>1, <2>15, <1>0 DEF ExitCheck
  <2>16. CASE Destroy(c)
    BY <1>1, <2>16, <1>0, EmptyFacts DEF Destroy
  <2>17. CASE DispatchMake(c) \/ DelayMake(c) \/ SyncMake(c)
    BY <2>17, <1>0, MakeFacts
  <2> QED
    BY <1>1, <2>1, <2>2, <2>3, <2>4, <2>5, <2>6, <2>7, <2>8, <2>9, <2>10, <2>11, <2>12, <2>13, <2>14, <2>15, <2>16, <2>17 DEF Begin, Continue
<1>2. CASE LooperNext
  <2>1. CASE PopTimed
    <3>1. Tail(mTimedTasks) \in Seq(Task) /\ Tail(posts) \in Seq(Post)
      BY <2>1, <1>0, TailFacts DEF PopTimed, OnJob, IsDue
    <3> QED
      BY <2>1, <1>0, <3>1 DEF PopTimed
  <2>2. CASE PopImmediate
    <3>1. Tail(mTasks) \in Seq(Task) /\ Tail(posts) \in Seq(Post)
      BY <2>2, <1>0, TailFacts DEF PopImmediate, OnJob, IsDue
    <3> QED
      BY <2>2, <1>0, <3>1 DEF PopImmediate
  <2>3. CASE PopNothing
    <3>1. Tail(posts) \in Seq(Post)
      BY <2>3, <1>0, TailFacts DEF PopNothing, OnJob, IsDue
    <3>2. posts' \in Seq(Post)
      BY <2>3, <1>0, <3>1, FinishFacts DEF PopNothing
    <3> QED
      BY <2>3, <1>0, <3>2 DEF PopNothing
  <2>4. CASE RunTask
    BY <2>4, <1>0, AppendFacts DEF RunTask, CallsInv
  <2>5. CASE AfterTask
    <3>1. posts' \in Seq(Post)
      BY <2>5, <1>0, FinishFacts DEF AfterTask
    <3> QED
      BY <2>5, <1>0, <3>1 DEF AfterTask
  <2> QED
    BY <1>2, <2>1, <2>2, <2>3, <2>4, <2>5 DEF LooperNext
<1>3. CASE SpuriousWakeup
  BY <1>3, <1>0 DEF SpuriousWakeup
<1>4. CASE Tick
  BY <1>4, <1>0 DEF Tick
<1>5. CASE UNCHANGED vars
  BY <1>5, <1>0 DEF vars
<1> QED
  BY <1>1, <1>2, <1>3, <1>4, <1>5 DEF Next

-----------------------------------------------------------------------------
(* The clients that hold a reference are a finite set, and a client leaves *)
(* it when it gives its reference up.                                      *)
LEMMA HoldersFacts ==
    /\ IsFiniteSet(Holders) /\ Cardinality(Holders) \in 0..Cardinality(Client)
    /\ \A c \in Holders : /\ Cardinality(Holders \ {c}) = Cardinality(Holders) - 1
                          /\ Cardinality(Holders) >= 1
                          /\ Cardinality(Holders) = 1 <=> Holders = {c}
<1>1. Holders \in SUBSET Client
  BY DEF Holders
<1>2. IsFiniteSet(Holders) /\ Cardinality(Holders) <= Cardinality(Client)
  BY <1>1, ClientAssumption, FS_Subset
<1>3. Cardinality(Holders) \in Nat /\ Cardinality(Client) \in Nat
  BY <1>2, ClientAssumption, FS_CardinalityType
<1>4. ASSUME NEW c \in Holders
      PROVE  /\ Cardinality(Holders \ {c}) = Cardinality(Holders) - 1
             /\ Cardinality(Holders) >= 1
             /\ Cardinality(Holders) = 1 <=> Holders = {c}
  <2>1. /\ Cardinality(Holders \ {c}) = Cardinality(Holders) - 1
        /\ IsFiniteSet(Holders \ {c})
    BY <1>2, FS_RemoveElement
  <2>2. Cardinality(Holders \ {c}) \in Nat
    BY <2>1, FS_CardinalityType
  <2>3. Cardinality(Holders \ {c}) = 0 <=> Holders \ {c} = {}
    BY <2>1, FS_EmptySet
  <2> QED
    BY <1>3, <2>1, <2>2, <2>3
<1> QED
  BY <1>2, <1>3, <1>4

(* A client that drops the only reference is the last one. *)
LEMMA LastReference ==
    ASSUME ExitInv, NEW c \in Holders
    PROVE  mRefs = 1 <=> Holders = {c}
BY HoldersFacts DEF ExitInv

(* Every step keeps the count of references. *)
LEMMA RefsStep ==
    ASSUME DispatchInv, [Next]_vars
    PROVE  mRefs' = Cardinality(Holders') /\ mRefs' \in 0..Cardinality(Client)
<1>0. /\ mRefs = Cardinality(Holders) /\ mRefs \in 0..Cardinality(Client)
      /\ pc \in [Client -> ClientPC] /\ Cardinality(Client) \in Nat
  BY ClientAssumption, FS_CardinalityType DEF DispatchInv, TypeOK, ExitInv
<1> USE DEF lists, looperVars, clientVars, context, history
<1>1. ASSUME NEW c \in Client, Begin(c) \/ Continue(c)
      PROVE  mRefs' = Cardinality(Holders') /\ mRefs' \in 0..Cardinality(Client)
  <2>1. CASE DispatchPush(c)
    <3>1. Holders' = Holders /\ mRefs' = mRefs
      BY <2>1, <1>0 DEF DispatchPush, Call, Goto, Holders
    <3> QED
      BY <1>0, <3>1
  <2>2. CASE DispatchDelayed(c)
    <3>1. Holders' = Holders /\ mRefs' = mRefs
      BY <2>2, <1>0 DEF DispatchDelayed, Call, Goto, Holders
    <3> QED
      BY <1>0, <3>1
  <2>3. CASE SyncPush(c)
    <3>1. Holders' = Holders /\ mRefs' = mRefs
      BY <2>3, <1>0 DEF SyncPush, Call, Goto, Holders
    <3> QED
      BY <1>0, <3>1
  <2>4. CASE ExistsJob(c)
    <3>1. Holders' = Holders /\ mRefs' = mRefs
      BY <2>4, <1>0 DEF ExistsJob, Call, Goto, Holders
    <3> QED
      BY <1>0, <3>1
  <2>5. CASE RemoveJob(c)
    <3>1. Holders' = Holders /\ mRefs' = mRefs
      BY <2>5, <1>0 DEF RemoveJob, Call, Goto, Holders
    <3> QED
      BY <1>0, <3>1
  <2>6. CASE Flush(c)
    <3>1. Holders' = Holders /\ mRefs' = mRefs
      BY <2>6, <1>0 DEF Flush, Call, Goto, Holders
    <3> QED
      BY <1>0, <3>1
  <2>7. CASE Release(c)
    <3>1. c \in Holders /\ Holders' = Holders \ {c} /\ mRefs' = mRefs - 1
      BY <2>7, <1>0 DEF Release, Goto, Holders
    <3>2. Cardinality(Holders \ {c}) = Cardinality(Holders) - 1 /\ Cardinality(Holders) >= 1
      BY <3>1, HoldersFacts
    <3> QED
      BY <1>0, <3>1, <3>2
  <2>8. CASE DispatchSize(c)
    <3>1. Holders' = Holders /\ mRefs' = mRefs
      BY <2>8, <1>0 DEF DispatchSize, Goto, Holders
    <3> QED
      BY <1>0, <3>1
  <2>9. CASE PostDispatcher(c)
    <3>1. Holders' = Holders /\ mRefs' = mRefs
      BY <2>9, <1>0 DEF PostDispatcher, Goto, Holders
    <3> QED
      BY <1>0, <3>1
  <2>10. CASE Repost(c)
    <3>1. Holders' = Holders /\ mRefs' = mRefs
      BY <2>10, <1>0 DEF Repost, Goto, Holders
    <3> QED
      BY <1>0, <3>1
  <2>11. CASE SyncSize(c)
    <3>1. Holders' = Holders /\ mRefs' = mRefs
      BY <2>11, <1>0 DEF SyncSize, Goto, Holders
    <3> QED
      BY <1>0, <3>1
  <2>12. CASE SyncPost(c)
    <3>1. Holders' = Holders /\ mRefs' = mRefs
      BY <2>12, <1>0 DEF SyncPost, Goto, Holders
    <3> QED
      BY <1>0, <3>1
  <2>13. CASE SyncReturn(c)
    <3>1. Holders' = Holders /\ mRefs' = mRefs
      BY <2>13, <1>0 DEF SyncReturn, Goto, Holders
    <3> QED
      BY <1>0, <3>1
  <2>14. CASE RequestExit(c)
    <3>1. Holders' = Holders /\ mRefs' = mRefs
      BY <2>14, <1>0 DEF RequestExit, Goto, Holders
    <3> QED
      BY <1>0, <3>1
  <2>15. CASE ExitCheck(c)
    <3>1. Holders' = Holders /\ mRefs' = mRefs
      BY <2>15, <1>0 DEF ExitCheck, Goto, Holders
    <3> QED
      BY <1>0, <3>1
  <2>16. CASE Destroy(c)
    <3>1. Holders' = Holders /\ mRefs' = mRefs
      BY <2>16, <1>0 DEF Destroy, Goto, Holders
    <3> QED
      BY <1>0, <3>1
  <2>17. CASE DispatchMake(c) \/ DelayMake(c) \/ SyncMake(c)
    <3>1. /\ pc[c] = "idle" /\ mRefs' = mRefs
          /\ \E place \in {"push", "insert", "sync_push"} : pc' = [pc EXCEPT ![c] = place]
      BY <2>17, MakeFacts
    <3>2. Holders' = Holders
      BY <1>0, <3>1 DEF Holders
    <3> QED
      BY <1>0, <3>1, <3>2
  <2> QED
    BY <1>1, <2>1, <2>2, <2>3, <2>4, <2>5, <2>6, <2>7, <2>8, <2>9, <2>10, <2>11, <2>12, <2>13, <2>14, <2>15, <2>16, <2>17 DEF Begin, Continue
<1>2. CASE LooperNext
  <2>1. CASE PopTimed
    <3>1. Holders' = Holders /\ mRefs' = mRefs
      BY <2>1, <1>0 DEF PopTimed, Holders
    <3> QED
      BY <1>0, <3>1
  <2>2. CASE PopImmediate
    <3>1. Holders' = Holders /\ mRefs' = mRefs
      BY <2>2, <1>0 DEF PopImmediate, Holders
    <3> QED
      BY <1>0, <3>1
  <2>3. CASE PopNothing
    <3>1. Holders' = Holders /\ mRefs' = mRefs
      BY <2>3, <1>0 DEF PopNothing, Holders
    <3> QED
      BY <1>0, <3>1
  <2>4. CASE RunTask
    <3>1. Holders' = Holders /\ mRefs' = mRefs
      BY <2>4, <1>0 DEF RunTask, Holders
    <3> QED
      BY <1>0, <3>1
  <2>5. CASE AfterTask
    <3>1. Holders' = Holders /\ mRefs' = mRefs
      BY <2>5, <1>0 DEF AfterTask, Holders
    <3> QED
      BY <1>0, <3>1
  <2> QED
    BY <1>2, <2>1, <2>2, <2>3, <2>4, <2>5 DEF LooperNext
<1>3. CASE SpuriousWakeup
  <2>1. Holders' = Holders /\ mRefs' = mRefs
    BY <1>3, <1>0 DEF SpuriousWakeup, Holders
  <2> QED
    BY <1>0, <2>1
<1>4. CASE Tick
  <2>1. Holders' = Holders /\ mRefs' = mRefs
    BY <1>4, <1>0 DEF Tick, Holders
  <2> QED
    BY <1>0, <2>1
<1>5. CASE UNCHANGED vars
  <2>1. Holders' = Holders /\ mRefs' = mRefs
    BY <1>5, <1>0 DEF vars, Holders
  <2> QED
    BY <1>0, <2>1
<1> QED
  BY <1>1, <1>2, <1>3, <1>4, <1>5 DEF Next

-----------------------------------------------------------------------------
(* The ids of a list of tasks are ids. *)
LEMMA IdsTyped ==
    ASSUME NEW tasks \in Seq(Task)
    PROVE  Ids(tasks) \subseteq Id
BY TaskFacts, LenProperties, ElementOfSeq DEF Ids

(* A call that makes a task keeps the types. *)
LEMMA MakeTyped ==
    ASSUME DispatchInv, NEW c \in Client, DispatchMake(c) \/ DelayMake(c) \/ SyncMake(c)
    PROVE  /\ mDispatching' \in BOOLEAN
           /\ mLock' \in Client \cup {None}
           /\ lpc' \in {"idle", "run", "next"}
           /\ current' \in Task \cup {None}
           /\ waiting' \subseteq Client
           /\ checkFailed' \in BOOLEAN /\ dangling' \in BOOLEAN
           /\ now' \in 0..MaxTime
           /\ role' \in Roles
           /\ pc' \in [Client -> ClientPC]
           /\ calls' \in [Client -> 0..MaxCalls]
           /\ made' \in [Client -> Task \cup {None}]
           /\ posted' \subseteq Id
           /\ cancelled' \subseteq Id
<1>1. TypeOK
  BY DEF DispatchInv
<1>2. /\ calls' = [calls EXCEPT ![c] = calls[c] + 1] /\ calls[c] + 1 \in 1..MaxCalls
      /\ UNCHANGED <<lists, mDispatching, looperVars, waiting, mRefs, checkFailed,
                     dangling, context, history>>
  BY MakeFacts
<1>3. \E task \in Task : made' = [made EXCEPT ![c] = task]
  BY MakeFacts
<1>4. \E place \in {"push", "insert", "sync_push"} : pc' = [pc EXCEPT ![c] = place]
  BY MakeFacts
<1>5. mLock' \in {mLock, c}
  BY MakeFacts
<1>6. calls[c] + 1 \in 0..MaxCalls
  BY <1>2
<1> QED
  BY <1>1, <1>2, <1>3, <1>4, <1>5, <1>6 DEF TypeOK, ClientPC, lists, looperVars, context, history

(* Every step keeps the types. *)
LEMMA TypeStep ==
    ASSUME DispatchInv, [Next]_vars
    PROVE  TypeOK'
<1>0. /\ mTasks' \in Seq(Task) /\ mTimedTasks' \in Seq(Task) /\ ran' \in Seq(Task)
      /\ posts' \in Seq(Post)
      /\ mRefs' \in 0..Cardinality(Client)
      /\ mTasks \in Seq(Task) /\ mTimedTasks \in Seq(Task)
      /\ TypeOK /\ PlacesInv /\ CallsInv
      /\ now \in 0..MaxTime /\ now + 0 = now /\ now <= MaxTime
  BY ListsStep, RefsStep, BoundAssumption DEF DispatchInv, TypeOK
<1> DEFINE Goal == /\ mDispatching' \in BOOLEAN
                   /\ mLock' \in Client \cup {None}
                   /\ lpc' \in {"idle", "run", "next"}
                   /\ current' \in Task \cup {None}
                   /\ waiting' \subseteq Client
                   /\ checkFailed' \in BOOLEAN /\ dangling' \in BOOLEAN
                   /\ now' \in 0..MaxTime
                   /\ role' \in Roles
                   /\ pc' \in [Client -> ClientPC]
                   /\ calls' \in [Client -> 0..MaxCalls]
                   /\ made' \in [Client -> Task \cup {None}]
                   /\ posted' \subseteq Id
                   /\ cancelled' \subseteq Id
<1> SUFFICES Goal
  BY <1>0 DEF TypeOK
<1>a. \A c \in Client : role.calls \in 0..MaxCalls /\ calls[c] \in 0..MaxCalls
  BY <1>0, RolesAssumption DEF TypeOK
<1>b. \A c \in Client : calls[c] < role.calls => calls[c] + 1 \in 0..MaxCalls
  BY <1>a, BoundAssumption
<1> USE DEF TypeOK, lists, looperVars, clientVars, context, history, ClientPC, Goto
<1>1. ASSUME NEW c \in Client, Begin(c) \/ Continue(c)
      PROVE  Goal
  <2>1. CASE DispatchPush(c)
    <3>1. made[c].id \in Id
      BY <2>1, MadeFacts DEF DispatchPush, Making
    <3> QED
      BY <2>1, <1>0, <3>1 DEF DispatchPush, Queued
  <2>2. CASE DispatchDelayed(c)
    <3>1. made[c].id \in Id
      BY <2>2, MadeFacts DEF DispatchDelayed, Making
    <3> QED
      BY <2>2, <1>0, <3>1 DEF DispatchDelayed, Queued
  <2>3. CASE SyncPush(c)
    <3>1. made[c].id \in Id
      BY <2>3, MadeFacts DEF SyncPush, Making
    <3> QED
      BY <2>3, <1>0, <3>1 DEF SyncPush, Queued
  <2>4. CASE ExistsJob(c)
    BY <1>1, <2>4, <1>0, <1>b DEF ExistsJob, Call
  <2>5. CASE RemoveJob(c)
    <3>1. Ids(Merged) \subseteq Id
      BY <1>0, MergedFacts, IdsTyped
    <3> QED
      BY <2>5, <1>0, <1>b, <3>1 DEF RemoveJob, Call
  <2>6. CASE Flush(c)
    <3>1. Ids(mTasks) \subseteq Id /\ Ids(mTimedTasks) \subseteq Id
      BY <1>0, IdsTyped
    <3> QED
      BY <2>6, <1>0, <1>b, <3>1 DEF Flush, Call
  <2>7. CASE Release(c)
    BY <1>1, <2>7, <1>0, <1>b DEF Release
  <2>8. CASE DispatchSize(c)
    BY <1>1, <2>8, <1>0, <1>b DEF DispatchSize
  <2>9. CASE PostDispatcher(c)
    BY <1>1, <2>9, <1>0, <1>b DEF PostDispatcher
  <2>10. CASE Repost(c)
    BY <1>1, <2>10, <1>0, <1>b DEF Repost
  <2>11. CASE SyncSize(c)
    BY <1>1, <2>11, <1>0, <1>b DEF SyncSize
  <2>12. CASE SyncPost(c)
    BY <1>1, <2>12, <1>0, <1>b DEF SyncPost
  <2>13. CASE SyncReturn(c)
    BY <1>1, <2>13, <1>0, <1>b DEF SyncReturn
  <2>14. CASE RequestExit(c)
    BY <1>1, <2>14, <1>0, <1>b DEF RequestExit
  <2>15. CASE ExitCheck(c)
    BY <1>1, <2>15, <1>0, <1>b DEF ExitCheck
  <2>16. CASE Destroy(c)
    BY <1>1, <2>16, <1>0, <1>b DEF Destroy
  <2>17. CASE DispatchMake(c) \/ DelayMake(c) \/ SyncMake(c)
    BY <2>17, MakeTyped
  <2> QED
    BY <1>1, <2>1, <2>2, <2>3, <2>4, <2>5, <2>6, <2>7, <2>8, <2>9, <2>10, <2>11, <2>12, <2>13, <2>14, <2>15, <2>16, <2>17 DEF Begin, Continue
<1>2. CASE LooperNext
  <2>1. CASE PopTimed
    <3>1. Head(mTimedTasks) \in Task
      BY <2>1, <1>0, TailFacts DEF PopTimed, IsDue
    <3> QED
      BY <2>1, <1>0, <3>1 DEF PopTimed
  <2>2. CASE PopImmediate
    <3>1. Head(mTasks) \in Task
      BY <2>2, <1>0, TailFacts DEF PopImmediate, IsDue
    <3> QED
      BY <2>2, <1>0, <3>1 DEF PopImmediate
  <2>3. CASE PopNothing
    BY <2>3, <1>0 DEF PopNothing, Finish, Woken
  <2>4. CASE RunTask
    BY <2>4, <1>0, <1>b DEF RunTask
  <2>5. CASE AfterTask
    BY <2>5, <1>0 DEF AfterTask, Finish, Woken
  <2> QED
    BY <1>2, <2>1, <2>2, <2>3, <2>4, <2>5 DEF LooperNext
<1>3. CASE SpuriousWakeup
  BY <1>3, <1>0, <1>b DEF SpuriousWakeup
<1>4. CASE Tick
  BY <1>4, <1>0, BoundAssumption DEF Tick
<1>5. CASE UNCHANGED vars
  BY <1>5, <1>0 DEF vars
<1> QED
  BY <1>1, <1>2, <1>3, <1>4, <1>5 DEF Next

-----------------------------------------------------------------------------
(* Every step keeps what a client inside a call relies on. *)
LEMMA CallsStep ==
    ASSUME DispatchInv, [Next]_vars
    PROVE  CallsInv'
<1>0. /\ CallsInv /\ pc \in [Client -> ClientPC] /\ waiting \subseteq Client
      /\ lpc \in {"idle", "run", "next"} /\ TypeOK
  BY DEF DispatchInv, TypeOK
<1>c. None \notin Client
  BY ClientAssumption
<1> USE DEF CallsInv, Syncing, lists, looperVars, clientVars, context, history, Goto
<1>1. ASSUME NEW c \in Client, Begin(c) \/ Continue(c)
      PROVE  CallsInv'
  <2>1. CASE DispatchPush(c)
    BY <1>1, <2>1, <1>0, <1>c DEF DispatchPush, Call
  <2>2. CASE DispatchDelayed(c)
    BY <1>1, <2>2, <1>0, <1>c DEF DispatchDelayed, Call
  <2>3. CASE SyncPush(c)
    BY <1>1, <2>3, <1>0, <1>c DEF SyncPush, Call
  <2>4. CASE ExistsJob(c)
    BY <1>1, <2>4, <1>0, <1>c DEF ExistsJob, Call
  <2>5. CASE RemoveJob(c)
    BY <1>1, <2>5, <1>0, <1>c DEF RemoveJob, Call
  <2>6. CASE Flush(c)
    BY <1>1, <2>6, <1>0, <1>c DEF Flush, Call
  <2>7. CASE Release(c)
    BY <1>1, <2>7, <1>0, <1>c DEF Release
  <2>8. CASE DispatchSize(c)
    BY <1>1, <2>8, <1>0, <1>c DEF DispatchSize
  <2>9. CASE PostDispatcher(c)
    BY <1>1, <2>9, <1>0, <1>c DEF PostDispatcher
  <2>10. CASE Repost(c)
    BY <1>1, <2>10, <1>0, <1>c DEF Repost
  <2>11. CASE SyncSize(c)
    BY <1>1, <2>11, <1>0, <1>c DEF SyncSize
  <2>12. CASE SyncPost(c)
    BY <1>1, <2>12, <1>0, <1>c DEF SyncPost
  <2>13. CASE SyncReturn(c)
    BY <1>1, <2>13, <1>0, <1>c DEF SyncReturn
  <2>14. CASE RequestExit(c)
    BY <1>1, <2>14, <1>0, <1>c DEF RequestExit
  <2>15. CASE ExitCheck(c)
    BY <1>1, <2>15, <1>0, <1>c DEF ExitCheck
  <2>16. CASE Destroy(c)
    BY <1>1, <2>16, <1>0, <1>c DEF Destroy
  <2>17. CASE DispatchMake(c) \/ DelayMake(c) \/ SyncMake(c)
    <3>1. /\ pc[c] = "idle" /\ UNCHANGED <<lpc, current, mDispatching, waiting, role>>
          /\ \/ /\ pc' = [pc EXCEPT ![c] = "push"]
                /\ "dispatch" \in role.verbs[c] /\ mLock' = mLock
             \/ pc' = [pc EXCEPT ![c] = "insert"] /\ mLock' = mLock
             \/ /\ pc' = [pc EXCEPT ![c] = "sync_push"]
                /\ "sync" \in role.verbs[c] /\ mLock = None /\ mLock' = c
      BY <2>17, MakeFacts
    <3> QED
      BY <1>0, <1>c, <3>1
  <2> QED
    BY <1>1, <2>1, <2>2, <2>3, <2>4, <2>5, <2>6, <2>7, <2>8, <2>9, <2>10, <2>11, <2>12, <2>13, <2>14, <2>15, <2>16, <2>17 DEF Begin, Continue
<1>2. CASE LooperNext
  <2>1. CASE PopTimed
    <3>1. Head(mTimedTasks) \in Task
      BY <2>1, <1>0, TailFacts DEF PopTimed, IsDue, TypeOK
    <3> QED
      BY <2>1, <1>0, <3>1 DEF PopTimed, OnJob
  <2>2. CASE PopImmediate
    <3>1. Head(mTasks) \in Task
      BY <2>2, <1>0, TailFacts DEF PopImmediate, IsDue, TypeOK
    <3> QED
      BY <2>2, <1>0, <3>1 DEF PopImmediate, OnJob
  <2>3. CASE PopNothing
    BY <2>3, <1>0 DEF PopNothing, Finish, Woken, OnJob
  <2>4. CASE RunTask
    BY <2>4, <1>0, <1>c DEF RunTask
  <2>5. CASE AfterTask
    BY <2>5, <1>0 DEF AfterTask, Finish, Woken
  <2> QED
    BY <1>2, <2>1, <2>2, <2>3, <2>4, <2>5 DEF LooperNext
<1>3. CASE SpuriousWakeup
  BY <1>3, <1>0, <1>c DEF SpuriousWakeup
<1>4. CASE Tick
  BY <1>4, <1>0, <1>c DEF Tick
<1>5. CASE UNCHANGED vars
  BY <1>5, <1>0, <1>c DEF vars
<1> QED
  BY <1>1, <1>2, <1>3, <1>4, <1>5 DEF Next

-----------------------------------------------------------------------------
(* A step that wakes nobody from sync, and puts only tasks on the lists that *)
(* nobody waits for or whose client begins to wait.                          *)
LEMMA SyncFrame ==
    ASSUME TypeOK, CallsInv, SyncInv, role' = role, dangling' = dangling,
           \A t \in Tasks(mTasks') \cup Tasks(mTimedTasks') \cup CurrentTask' :
              \/ t \in Tasks(mTasks) \cup Tasks(mTimedTasks) \cup CurrentTask
              \/ t.sync => t.id = <<t.id[1], calls'[t.id[1]]>> /\ Awaiting(t.id[1])',
           ran' = ran, lpc' = "next" => lpc = "next" /\ current' = current,
           \A c \in Client : Awaiting(c) => Awaiting(c)' /\ calls'[c] = calls[c],
           \A c \in Client : pc'[c] = "sync_wait" /\ c \notin waiting' =>
              pc[c] = "sync_wait" /\ c \notin waiting /\ calls'[c] = calls[c]
    PROVE  SyncInv'
<1> SUFFICES ASSUME ~role.spurious
             PROVE  /\ ~dangling'
                    /\ \A t \in Tasks(mTasks') \cup Tasks(mTimedTasks') \cup CurrentTask' :
                          t.sync => t.id = <<t.id[1], calls'[t.id[1]]>> /\ Awaiting(t.id[1])'
                    /\ lpc' = "next" => current'.id \in Ids(ran')
                    /\ \A c \in Client : pc'[c] = "sync_wait" /\ c \notin waiting' =>
                          <<c, calls'[c]>> \in Ids(ran')
  BY DEF SyncInv
<1>1. \A t \in Tasks(mTasks) \cup Tasks(mTimedTasks) \cup CurrentTask : t.id[1] \in Client
  <2>1. \A t \in Tasks(mTasks) \cup Tasks(mTimedTasks) \cup CurrentTask : t \in Task
    BY DEF TypeOK, CallsInv, Tasks, CurrentTask
  <2>2. \A t \in Task : t.id[1] \in Client
    BY TaskFacts DEF Id
  <2> QED
    BY <2>1, <2>2
<1>2. ASSUME NEW t \in Tasks(mTasks') \cup Tasks(mTimedTasks') \cup CurrentTask', t.sync
      PROVE  t.id = <<t.id[1], calls'[t.id[1]]>> /\ Awaiting(t.id[1])'
  <2>1. CASE t \notin Tasks(mTasks) \cup Tasks(mTimedTasks) \cup CurrentTask
    BY <1>2, <2>1
  <2>2. CASE t \in Tasks(mTasks) \cup Tasks(mTimedTasks) \cup CurrentTask
    <3>1. /\ t.id = <<t.id[1], calls[t.id[1]]>> /\ Awaiting(t.id[1])
          /\ t.id[1] \in Client
      BY <1>1, <1>2, <2>2 DEF SyncInv
    <3>2. PICK c : c = t.id[1]
      OBVIOUS
    <3>3. Awaiting(c)' /\ calls'[c] = calls[c]
      BY <3>1, <3>2
    <3> QED
      BY <3>1, <3>2, <3>3
  <2> QED
    BY <2>1, <2>2
<1>3. lpc' = "next" => current'.id \in Ids(ran')
  BY DEF SyncInv
<1>4. \A c \in Client : pc'[c] = "sync_wait" /\ c \notin waiting' => <<c, calls'[c]>> \in Ids(ran')
  BY DEF SyncInv
<1> QED
  BY <1>2, <1>3, <1>4 DEF SyncInv

(* Every step keeps whoever calls sync waiting until its task has run. *)
LEMMA SyncStep ==
    ASSUME DispatchInv, [Next]_vars
    PROVE  SyncInv'
<1>0. /\ TypeOK /\ CallsInv /\ SyncInv /\ PlacesInv
      /\ pc \in [Client -> ClientPC] /\ calls \in [Client -> 0..MaxCalls]
      /\ mTasks \in Seq(Task) /\ mTimedTasks \in Seq(Task) /\ ran \in Seq(Task)
      /\ lpc \in {"idle", "run", "next"}
      /\ now \in 0..MaxTime /\ now + 0 = now /\ now <= MaxTime
  BY BoundAssumption DEF DispatchInv, TypeOK
<1>s. mTasks \in Seq(Task) /\ mTimedTasks \in Seq(Task)
  BY <1>0
<1>t. \A t \in Task : t.when \in Int
  BY TaskFacts
<1> DEFINE Lists == Tasks(mTasks) \cup Tasks(mTimedTasks) \cup CurrentTask
<1> USE DEF lists, looperVars, clientVars, context, history
<1>1. ASSUME NEW c \in Client, Begin(c) \/ Continue(c)
      PROVE  SyncInv'
  <2>1. CASE DispatchPush(c)
    <3>2. PICK task : task = made[c]
      OBVIOUS
    <3>3. task \in Task /\ task.sync = FALSE /\ task.id[1] = c /\ task.id = <<c, calls[c]>>
      <4>1. Making(c) /\ (pc[c] = "sync_push" <=> FALSE)
        BY <2>1 DEF DispatchPush, Goto, Making
      <4>2. task \in Task /\ task.id = <<c, calls[c]>> /\ (task.sync <=> FALSE)
        BY <3>2, <4>1, MadeFacts
      <4>3. task.sync \in BOOLEAN
        BY <4>2 DEF Task
      <4> QED
        BY <4>2, <4>3
    <3>4. Tasks(mTasks') \cup Tasks(mTimedTasks') \cup CurrentTask' \subseteq Lists \cup {task}
      <4>1. mTasks' = Append(mTasks, task)
        BY <2>1, <3>2 DEF DispatchPush
      <4>2. Tasks(mTasks') = Tasks(mTasks) \cup {task}
        BY <1>s, <1>t, <3>3, <4>1, AppendFacts
      <4> QED
        BY <2>1, <4>2 DEF DispatchPush, CurrentTask
    <3>5. \A t \in {task} :
             t.sync => t.id = <<t.id[1], calls'[t.id[1]]>> /\ Awaiting(t.id[1])'
      BY <3>3
    <3>6. UNCHANGED <<ran, role, dangling>> /\ (lpc' = "next" => lpc = "next" /\ current' = current)
      BY <2>1 DEF DispatchPush
    <3>7. \A e \in Client : Awaiting(e) => Awaiting(e)' /\ calls'[e] = calls[e]
      BY <2>1, <1>0 DEF DispatchPush, Call, Goto, Awaiting, Syncing
    <3>8. \A e \in Client : pc'[e] = "sync_wait" /\ e \notin waiting' =>
             pc[e] = "sync_wait" /\ e \notin waiting /\ calls'[e] = calls[e]
      BY <2>1, <1>0 DEF DispatchPush, Call, Goto
    <3> QED
      BY <1>0, <3>4, <3>6, <3>7, <3>8, <3>5, SyncFrame
  <2>2. CASE DispatchDelayed(c)
    <3>2. PICK task : task = made[c]
      OBVIOUS
    <3>3. task \in Task /\ task.sync = FALSE /\ task.id[1] = c /\ task.id = <<c, calls[c]>>
      <4>1. Making(c) /\ (pc[c] = "sync_push" <=> FALSE)
        BY <2>2 DEF DispatchDelayed, Goto, Making
      <4>2. task \in Task /\ task.id = <<c, calls[c]>> /\ (task.sync <=> FALSE)
        BY <3>2, <4>1, MadeFacts
      <4>3. task.sync \in BOOLEAN
        BY <4>2 DEF Task
      <4> QED
        BY <4>2, <4>3
    <3>4. Tasks(mTasks') \cup Tasks(mTimedTasks') \cup CurrentTask' \subseteq Lists \cup {task}
      <4>1. mTimedTasks' = InsertTimed(mTimedTasks, task)
        BY <2>2, <3>2 DEF DispatchDelayed
      <4>2. Tasks(mTimedTasks') = Tasks(mTimedTasks) \cup {task}
        BY <1>s, <1>t, <3>3, <4>1, InsertFacts
      <4> QED
        BY <2>2, <4>2 DEF DispatchDelayed, CurrentTask
    <3>5. \A t \in {task} :
             t.sync => t.id = <<t.id[1], calls'[t.id[1]]>> /\ Awaiting(t.id[1])'
      BY <3>3
    <3>6. UNCHANGED <<ran, role, dangling>> /\ (lpc' = "next" => lpc = "next" /\ current' = current)
      BY <2>2 DEF DispatchDelayed
    <3>7. \A e \in Client : Awaiting(e) => Awaiting(e)' /\ calls'[e] = calls[e]
      BY <2>2, <1>0 DEF DispatchDelayed, Call, Goto, Awaiting, Syncing
    <3>8. \A e \in Client : pc'[e] = "sync_wait" /\ e \notin waiting' =>
             pc[e] = "sync_wait" /\ e \notin waiting /\ calls'[e] = calls[e]
      BY <2>2, <1>0 DEF DispatchDelayed, Call, Goto
    <3> QED
      BY <1>0, <3>4, <3>6, <3>7, <3>8, <3>5, SyncFrame
  <2>3. CASE SyncPush(c)
    <3>2. PICK task : task = made[c]
      OBVIOUS
    <3>3. task \in Task /\ task.sync = TRUE /\ task.id[1] = c /\ task.id = <<c, calls[c]>>
      <4>1. Making(c) /\ (pc[c] = "sync_push" <=> TRUE)
        BY <2>3 DEF SyncPush, Goto, Making
      <4>2. task \in Task /\ task.id = <<c, calls[c]>> /\ (task.sync <=> TRUE)
        BY <3>2, <4>1, MadeFacts
      <4>3. task.sync \in BOOLEAN
        BY <4>2 DEF Task
      <4> QED
        BY <4>2, <4>3
    <3>4. Tasks(mTasks') \cup Tasks(mTimedTasks') \cup CurrentTask' \subseteq Lists \cup {task}
      <4>1. mTasks' = Append(mTasks, task)
        BY <2>3, <3>2 DEF SyncPush
      <4>2. Tasks(mTasks') = Tasks(mTasks) \cup {task}
        BY <1>s, <1>t, <3>3, <4>1, AppendFacts
      <4> QED
        BY <2>3, <4>2 DEF SyncPush, CurrentTask
    <3>5. \A t \in {task} :
             t.sync => t.id = <<t.id[1], calls'[t.id[1]]>> /\ Awaiting(t.id[1])'
      <4>1. Awaiting(c)' /\ calls'[c] = calls[c]
        BY <2>3, <1>0 DEF SyncPush, Call, Goto, Awaiting, Syncing
      <4> QED
        BY <3>3, <4>1
    <3>6. UNCHANGED <<ran, role, dangling>> /\ (lpc' = "next" => lpc = "next" /\ current' = current)
      BY <2>3 DEF SyncPush
    <3>7. \A e \in Client : Awaiting(e) => Awaiting(e)' /\ calls'[e] = calls[e]
      BY <2>3, <1>0 DEF SyncPush, Call, Goto, Awaiting, Syncing
    <3>8. \A e \in Client : pc'[e] = "sync_wait" /\ e \notin waiting' =>
             pc[e] = "sync_wait" /\ e \notin waiting /\ calls'[e] = calls[e]
      BY <2>3, <1>0 DEF SyncPush, Call, Goto
    <3> QED
      BY <1>0, <3>4, <3>6, <3>7, <3>8, <3>5, SyncFrame
  <2>4. CASE ExistsJob(c)
    <3>3. Tasks(mTasks') \cup Tasks(mTimedTasks') \cup CurrentTask' \subseteq Lists
      BY <2>4, <1>0, MergedFacts, EmptyFacts DEF ExistsJob, CurrentTask
    <3>4. UNCHANGED <<ran, role, dangling>> /\ (lpc' = "next" => lpc = "next" /\ current' = current)
      BY <2>4 DEF ExistsJob, Call, Goto
    <3>5. \A e \in Client : Awaiting(e) => Awaiting(e)' /\ calls'[e] = calls[e]
      BY <2>4, <1>0 DEF ExistsJob, Call, Goto, Awaiting, Syncing
    <3>6. \A e \in Client : pc'[e] = "sync_wait" /\ e \notin waiting' =>
             pc[e] = "sync_wait" /\ e \notin waiting /\ calls'[e] = calls[e]
      BY <2>4, <1>0 DEF ExistsJob, Call, Goto
    <3> QED
      BY <1>0, <3>3, <3>4, <3>5, <3>6, SyncFrame
  <2>5. CASE RemoveJob(c)
    <3>3. Tasks(mTasks') \cup Tasks(mTimedTasks') \cup CurrentTask' \subseteq Lists
      <4>1. PICK job \in role.jobs : mTimedTasks' = WithoutJob(Merged, job)
        BY <2>5 DEF RemoveJob
      <4>2. Tasks(WithoutJob(Merged, job)) \subseteq Tasks(Merged)
        BY <1>0, MergedFacts, WithoutFacts
      <4> QED
        BY <2>5, <1>0, <4>1, <4>2, MergedFacts, EmptyFacts DEF RemoveJob, CurrentTask
    <3>4. UNCHANGED <<ran, role, dangling>> /\ (lpc' = "next" => lpc = "next" /\ current' = current)
      BY <2>5 DEF RemoveJob, Call, Goto
    <3>5. \A e \in Client : Awaiting(e) => Awaiting(e)' /\ calls'[e] = calls[e]
      BY <2>5, <1>0 DEF RemoveJob, Call, Goto, Awaiting, Syncing
    <3>6. \A e \in Client : pc'[e] = "sync_wait" /\ e \notin waiting' =>
             pc[e] = "sync_wait" /\ e \notin waiting /\ calls'[e] = calls[e]
      BY <2>5, <1>0 DEF RemoveJob, Call, Goto
    <3> QED
      BY <1>0, <3>3, <3>4, <3>5, <3>6, SyncFrame
  <2>6. CASE Flush(c)
    <3>3. Tasks(mTasks') \cup Tasks(mTimedTasks') \cup CurrentTask' \subseteq Lists
      BY <2>6, EmptyFacts DEF Flush, CurrentTask
    <3>4. UNCHANGED <<ran, role, dangling>> /\ (lpc' = "next" => lpc = "next" /\ current' = current)
      BY <2>6 DEF Flush, Call, Goto
    <3>5. \A e \in Client : Awaiting(e) => Awaiting(e)' /\ calls'[e] = calls[e]
      BY <2>6, <1>0 DEF Flush, Call, Goto, Awaiting, Syncing
    <3>6. \A e \in Client : pc'[e] = "sync_wait" /\ e \notin waiting' =>
             pc[e] = "sync_wait" /\ e \notin waiting /\ calls'[e] = calls[e]
      BY <2>6, <1>0 DEF Flush, Call, Goto
    <3> QED
      BY <1>0, <3>3, <3>4, <3>5, <3>6, SyncFrame
  <2>7. CASE Release(c)
    <3>3. Tasks(mTasks') \cup Tasks(mTimedTasks') \cup CurrentTask' \subseteq Lists
      BY <2>7 DEF Release, Goto, CurrentTask
    <3>4. UNCHANGED <<ran, role, dangling>> /\ (lpc' = "next" => lpc = "next" /\ current' = current)
      BY <2>7 DEF Release, Goto
    <3>5. \A e \in Client : Awaiting(e) => Awaiting(e)' /\ calls'[e] = calls[e]
      BY <2>7, <1>0 DEF Release, Goto, Awaiting, Syncing
    <3>6. \A e \in Client : pc'[e] = "sync_wait" /\ e \notin waiting' =>
             pc[e] = "sync_wait" /\ e \notin waiting /\ calls'[e] = calls[e]
      BY <2>7, <1>0 DEF Release, Goto
    <3> QED
      BY <1>0, <3>3, <3>4, <3>5, <3>6, SyncFrame
  <2>8. CASE DispatchSize(c)
    <3>3. Tasks(mTasks') \cup Tasks(mTimedTasks') \cup CurrentTask' \subseteq Lists
      BY <2>8 DEF DispatchSize, Goto, CurrentTask
    <3>4. UNCHANGED <<ran, role, dangling>> /\ (lpc' = "next" => lpc = "next" /\ current' = current)
      BY <2>8 DEF DispatchSize, Goto
    <3>5. \A e \in Client : Awaiting(e) => Awaiting(e)' /\ calls'[e] = calls[e]
      BY <2>8, <1>0 DEF DispatchSize, Goto, Awaiting, Syncing
    <3>6. \A e \in Client : pc'[e] = "sync_wait" /\ e \notin waiting' =>
             pc[e] = "sync_wait" /\ e \notin waiting /\ calls'[e] = calls[e]
      BY <2>8, <1>0 DEF DispatchSize, Goto
    <3> QED
      BY <1>0, <3>3, <3>4, <3>5, <3>6, SyncFrame
  <2>9. CASE PostDispatcher(c)
    <3>3. Tasks(mTasks') \cup Tasks(mTimedTasks') \cup CurrentTask' \subseteq Lists
      BY <2>9 DEF PostDispatcher, Goto, CurrentTask
    <3>4. UNCHANGED <<ran, role, dangling>> /\ (lpc' = "next" => lpc = "next" /\ current' = current)
      BY <2>9 DEF PostDispatcher, Goto
    <3>5. \A e \in Client : Awaiting(e) => Awaiting(e)' /\ calls'[e] = calls[e]
      BY <2>9, <1>0 DEF PostDispatcher, Goto, Awaiting, Syncing
    <3>6. \A e \in Client : pc'[e] = "sync_wait" /\ e \notin waiting' =>
             pc[e] = "sync_wait" /\ e \notin waiting /\ calls'[e] = calls[e]
      BY <2>9, <1>0 DEF PostDispatcher, Goto
    <3> QED
      BY <1>0, <3>3, <3>4, <3>5, <3>6, SyncFrame
  <2>10. CASE Repost(c)
    <3>3. Tasks(mTasks') \cup Tasks(mTimedTasks') \cup CurrentTask' \subseteq Lists
      BY <2>10 DEF Repost, Goto, CurrentTask
    <3>4. UNCHANGED <<ran, role, dangling>> /\ (lpc' = "next" => lpc = "next" /\ current' = current)
      BY <2>10 DEF Repost, Goto
    <3>5. \A e \in Client : Awaiting(e) => Awaiting(e)' /\ calls'[e] = calls[e]
      BY <2>10, <1>0 DEF Repost, Goto, Awaiting, Syncing
    <3>6. \A e \in Client : pc'[e] = "sync_wait" /\ e \notin waiting' =>
             pc[e] = "sync_wait" /\ e \notin waiting /\ calls'[e] = calls[e]
      BY <2>10, <1>0 DEF Repost, Goto
    <3> QED
      BY <1>0, <3>3, <3>4, <3>5, <3>6, SyncFrame
  <2>11. CASE SyncSize(c)
    <3>3. Tasks(mTasks') \cup Tasks(mTimedTasks') \cup CurrentTask' \subseteq Lists
      BY <2>11 DEF SyncSize, Goto, CurrentTask
    <3>4. UNCHANGED <<ran, role, dangling>> /\ (lpc' = "next" => lpc = "next" /\ current' = current)
      BY <2>11 DEF SyncSize, Goto
    <3>5. \A e \in Client : Awaiting(e) => Awaiting(e)' /\ calls'[e] = calls[e]
      BY <2>11, <1>0 DEF SyncSize, Goto, Awaiting, Syncing
    <3>6. \A e \in Client : pc'[e] = "sync_wait" /\ e \notin waiting' =>
             pc[e] = "sync_wait" /\ e \notin waiting /\ calls'[e] = calls[e]
      BY <2>11, <1>0 DEF SyncSize, Goto
    <3> QED
      BY <1>0, <3>3, <3>4, <3>5, <3>6, SyncFrame
  <2>12. CASE SyncPost(c)
    <3>3. Tasks(mTasks') \cup Tasks(mTimedTasks') \cup CurrentTask' \subseteq Lists
      BY <2>12 DEF SyncPost, Goto, CurrentTask
    <3>4. UNCHANGED <<ran, role, dangling>> /\ (lpc' = "next" => lpc = "next" /\ current' = current)
      BY <2>12 DEF SyncPost, Goto
    <3>5. \A e \in Client : Awaiting(e) => Awaiting(e)' /\ calls'[e] = calls[e]
      BY <2>12, <1>0 DEF SyncPost, Goto, Awaiting, Syncing
    <3>6. \A e \in Client : pc'[e] = "sync_wait" /\ e \notin waiting' =>
             pc[e] = "sync_wait" /\ e \notin waiting /\ calls'[e] = calls[e]
      BY <2>12, <1>0 DEF SyncPost, Goto
    <3> QED
      BY <1>0, <3>3, <3>4, <3>5, <3>6, SyncFrame
  <2>13. CASE SyncReturn(c)
    <3>3. Tasks(mTasks') \cup Tasks(mTimedTasks') \cup CurrentTask' \subseteq Lists
      BY <2>13 DEF SyncReturn, Goto, CurrentTask
    <3>4. UNCHANGED <<ran, role, dangling>> /\ (lpc' = "next" => lpc = "next" /\ current' = current)
      BY <2>13 DEF SyncReturn, Goto
    <3>5. \A e \in Client : Awaiting(e) => Awaiting(e)' /\ calls'[e] = calls[e]
      BY <2>13, <1>0 DEF SyncReturn, Goto, Awaiting, Syncing
    <3>6. \A e \in Client : pc'[e] = "sync_wait" /\ e \notin waiting' =>
             pc[e] = "sync_wait" /\ e \notin waiting /\ calls'[e] = calls[e]
      BY <2>13, <1>0 DEF SyncReturn, Goto
    <3> QED
      BY <1>0, <3>3, <3>4, <3>5, <3>6, SyncFrame
  <2>14. CASE RequestExit(c)
    <3>3. Tasks(mTasks') \cup Tasks(mTimedTasks') \cup CurrentTask' \subseteq Lists
      BY <2>14 DEF RequestExit, Goto, CurrentTask
    <3>4. UNCHANGED <<ran, role, dangling>> /\ (lpc' = "next" => lpc = "next" /\ current' = current)
      BY <2>14 DEF RequestExit, Goto
    <3>5. \A e \in Client : Awaiting(e) => Awaiting(e)' /\ calls'[e] = calls[e]
      BY <2>14, <1>0 DEF RequestExit, Goto, Awaiting, Syncing
    <3>6. \A e \in Client : pc'[e] = "sync_wait" /\ e \notin waiting' =>
             pc[e] = "sync_wait" /\ e \notin waiting /\ calls'[e] = calls[e]
      BY <2>14, <1>0 DEF RequestExit, Goto
    <3> QED
      BY <1>0, <3>3, <3>4, <3>5, <3>6, SyncFrame
  <2>15. CASE ExitCheck(c)
    <3>3. Tasks(mTasks') \cup Tasks(mTimedTasks') \cup CurrentTask' \subseteq Lists
      BY <2>15 DEF ExitCheck, Goto, CurrentTask
    <3>4. UNCHANGED <<ran, role, dangling>> /\ (lpc' = "next" => lpc = "next" /\ current' = current)
      BY <2>15 DEF ExitCheck, Goto
    <3>5. \A e \in Client : Awaiting(e) => Awaiting(e)' /\ calls'[e] = calls[e]
      BY <2>15, <1>0 DEF ExitCheck, Goto, Awaiting, Syncing
    <3>6. \A e \in Client : pc'[e] = "sync_wait" /\ e \notin waiting' =>
             pc[e] = "sync_wait" /\ e \notin waiting /\ calls'[e] = calls[e]
      BY <2>15, <1>0 DEF ExitCheck, Goto
    <3> QED
      BY <1>0, <3>3, <3>4, <3>5, <3>6, SyncFrame
  <2>16. CASE Destroy(c)
    <3>3. Tasks(mTasks') \cup Tasks(mTimedTasks') \cup CurrentTask' \subseteq Lists
      BY <2>16 DEF Destroy, Goto, CurrentTask
    <3>4. UNCHANGED <<ran, role, dangling>> /\ (lpc' = "next" => lpc = "next" /\ current' = current)
      BY <2>16 DEF Destroy, Goto
    <3>5. \A e \in Client : Awaiting(e) => Awaiting(e)' /\ calls'[e] = calls[e]
      BY <2>16, <1>0 DEF Destroy, Goto, Awaiting, Syncing
    <3>6. \A e \in Client : pc'[e] = "sync_wait" /\ e \notin waiting' =>
             pc[e] = "sync_wait" /\ e \notin waiting /\ calls'[e] = calls[e]
      BY <2>16, <1>0 DEF Destroy, Goto
    <3> QED
      BY <1>0, <3>3, <3>4, <3>5, <3>6, SyncFrame
  <2>17. CASE DispatchMake(c) \/ DelayMake(c) \/ SyncMake(c)
    <3>1. /\ pc[c] = "idle" /\ calls' = [calls EXCEPT ![c] = calls[c] + 1]
          /\ UNCHANGED <<mTasks, mTimedTasks, lpc, current, waiting, ran, role, dangling>>
          /\ \E place \in {"push", "insert", "sync_push"} : pc' = [pc EXCEPT ![c] = place]
      BY <2>17, MakeFacts
    <3>3. Tasks(mTasks') \cup Tasks(mTimedTasks') \cup CurrentTask' \subseteq Lists
      BY <3>1 DEF CurrentTask
    <3>4. UNCHANGED <<ran, role, dangling>> /\ (lpc' = "next" => lpc = "next" /\ current' = current)
      BY <3>1
    <3>5. \A e \in Client : Awaiting(e) => Awaiting(e)' /\ calls'[e] = calls[e]
      BY <1>0, <3>1 DEF Awaiting, Syncing
    <3>6. \A e \in Client : pc'[e] = "sync_wait" /\ e \notin waiting' =>
             pc[e] = "sync_wait" /\ e \notin waiting /\ calls'[e] = calls[e]
      BY <1>0, <3>1
    <3> QED
      BY <1>0, <3>3, <3>4, <3>5, <3>6, SyncFrame
  <2> QED
    BY <1>1, <2>1, <2>2, <2>3, <2>4, <2>5, <2>6, <2>7, <2>8, <2>9, <2>10, <2>11, <2>12, <2>13, <2>14, <2>15, <2>16, <2>17 DEF Begin, Continue
<1>2. CASE LooperNext
  <2>1. CASE PopTimed
    <3>3. Tasks(mTasks') \cup Tasks(mTimedTasks') \cup CurrentTask' \subseteq Lists
      <4>1. Tasks(mTimedTasks) = Tasks(Tail(mTimedTasks)) \cup {Head(mTimedTasks)}
        BY <2>1, <1>0, TailFacts DEF PopTimed, IsDue
      <4> QED
        BY <2>1, <4>1 DEF PopTimed, CurrentTask
    <3>4. UNCHANGED <<ran, role, dangling>> /\ (lpc' = "next" => lpc = "next" /\ current' = current)
      BY <2>1 DEF PopTimed
    <3>5. \A e \in Client : Awaiting(e) => Awaiting(e)' /\ calls'[e] = calls[e]
      BY <2>1, <1>0 DEF PopTimed, Awaiting, Syncing
    <3>6. \A e \in Client : pc'[e] = "sync_wait" /\ e \notin waiting' =>
             pc[e] = "sync_wait" /\ e \notin waiting /\ calls'[e] = calls[e]
      BY <2>1, <1>0 DEF PopTimed
    <3> QED
      BY <1>0, <3>3, <3>4, <3>5, <3>6, SyncFrame
  <2>2. CASE PopImmediate
    <3>3. Tasks(mTasks') \cup Tasks(mTimedTasks') \cup CurrentTask' \subseteq Lists
      <4>1. Tasks(mTasks) = Tasks(Tail(mTasks)) \cup {Head(mTasks)}
        BY <2>2, <1>0, TailFacts DEF PopImmediate, IsDue
      <4> QED
        BY <2>2, <4>1 DEF PopImmediate, CurrentTask
    <3>4. UNCHANGED <<ran, role, dangling>> /\ (lpc' = "next" => lpc = "next" /\ current' = current)
      BY <2>2 DEF PopImmediate
    <3>5. \A e \in Client : Awaiting(e) => Awaiting(e)' /\ calls'[e] = calls[e]
      BY <2>2, <1>0 DEF PopImmediate, Awaiting, Syncing
    <3>6. \A e \in Client : pc'[e] = "sync_wait" /\ e \notin waiting' =>
             pc[e] = "sync_wait" /\ e \notin waiting /\ calls'[e] = calls[e]
      BY <2>2, <1>0 DEF PopImmediate
    <3> QED
      BY <1>0, <3>3, <3>4, <3>5, <3>6, SyncFrame
  <2>3. CASE PopNothing
    <3>3. Tasks(mTasks') \cup Tasks(mTimedTasks') \cup CurrentTask' \subseteq Lists
      BY <2>3 DEF PopNothing, Finish, Woken, ExitWaiters, CurrentTask
    <3>4. UNCHANGED <<ran, role, dangling>> /\ (lpc' = "next" => lpc = "next" /\ current' = current)
      BY <2>3 DEF PopNothing, Finish, Woken, ExitWaiters
    <3>5. \A e \in Client : Awaiting(e) => Awaiting(e)' /\ calls'[e] = calls[e]
      BY <2>3, <1>0 DEF PopNothing, Finish, Woken, ExitWaiters, Awaiting, Syncing
    <3>6. \A e \in Client : pc'[e] = "sync_wait" /\ e \notin waiting' =>
             pc[e] = "sync_wait" /\ e \notin waiting /\ calls'[e] = calls[e]
      BY <2>3, <1>0 DEF PopNothing, Finish, Woken, ExitWaiters
    <3> QED
      BY <1>0, <3>3, <3>4, <3>5, <3>6, SyncFrame
  <2>4. CASE RunTask
    <3>1. PICK task : task = current
      OBVIOUS
    <3>2. task \in Task /\ CurrentTask = {task} /\ CurrentTask' = {task}
      BY <2>4, <1>0, <3>1 DEF RunTask, CallsInv, CurrentTask
    <3>3. /\ UNCHANGED <<mTasks, mTimedTasks, pc, calls, waiting, role, dangling>>
          /\ current' = task
      BY <2>4, <3>1 DEF RunTask
    <3>4. Ids(ran') = Ids(ran) \cup {task.id}
      <4>1. PICK before, after : before = ran /\ after = ran'
        OBVIOUS
      <4>2. Tasks(after) = Tasks(before) \cup {task}
        BY <2>4, <1>0, <3>1, <3>2, <4>1, AppendFacts DEF RunTask
      <4>3. Ids(after) = Ids(before) \cup {task.id}
        BY <4>2, IdsAdded
      <4> QED
        BY <4>1, <4>3
    <3> QED
      BY <1>0, <3>2, <3>3, <3>4 DEF SyncInv, Awaiting, Syncing
  <2>5. CASE AfterTask
    <3> SUFFICES ASSUME ~role.spurious
                 PROVE  SyncInv'
      BY <2>5 DEF AfterTask, SyncInv
    <3>1. PICK task : task = current
      OBVIOUS
    <3>2. task \in Task /\ CurrentTask = {task} /\ task.id \in Ids(ran)
      BY <2>5, <1>0, <3>1 DEF AfterTask, CallsInv, CurrentTask, SyncInv
    <3>3. task.sync => task.id = <<task.id[1], calls[task.id[1]]>> /\ InSync(task)
      <4> SUFFICES ASSUME task.sync
                   PROVE  task.id = <<task.id[1], calls[task.id[1]]>> /\ InSync(task)
        OBVIOUS
      <4>1. task.id = <<task.id[1], calls[task.id[1]]>> /\ Awaiting(task.id[1])
        BY <1>0, <3>2 DEF SyncInv
      <4>2. PICK e \in Client : e = task.id[1]
        BY <3>2, TaskFacts DEF Id
      <4>3. ~ Syncing(e)
        BY <2>5, <1>0, <4>2, ClientAssumption DEF AfterTask, CallsInv
      <4>4. pc[e] = "sync_wait"
        BY <4>1, <4>2, <4>3 DEF Awaiting
      <4>5. task.id[2] = calls[e]
        BY <4>1, <4>2
      <4> QED
        BY <4>1, <4>2, <4>4, <4>5 DEF InSync
    <3>4. /\ UNCHANGED <<mTasks, mTimedTasks, pc, calls, ran, role>>
          /\ CurrentTask' = {} /\ lpc' = "idle" /\ ~dangling'
          /\ \A e \in waiting : pc[e] = "sync_wait" /\ ~ (task.sync /\ task.id[1] = e) => e \in waiting'
      BY <2>5, <3>1, <3>3 DEF AfterTask, Finish, Woken, ExitWaiters, CurrentTask
    <3>5. ASSUME NEW t \in Tasks(mTasks) \cup Tasks(mTimedTasks), t.sync
          PROVE  t.id = <<t.id[1], calls[t.id[1]]>> /\ Awaiting(t.id[1])'
      <4>1. t.id = <<t.id[1], calls[t.id[1]]>> /\ Awaiting(t.id[1])
        BY <1>0, <3>5 DEF SyncInv
      <4>2. t.id \in Ids(mTasks) \cup Ids(mTimedTasks)
        BY IdsOfTasks
      <4>3. t.id # task.id
        BY <1>0, <3>2, <4>2 DEF PlacesInv, Finished
      <4>4. PICK e : e = t.id[1]
        OBVIOUS
      <4>5. ~ (task.sync /\ task.id[1] = e)
        BY <3>3, <4>1, <4>3, <4>4
      <4>6. Awaiting(e)'
        BY <3>4, <4>1, <4>4, <4>5 DEF Awaiting, Syncing
      <4> QED
        BY <4>1, <4>4, <4>6
    <3>6. ASSUME NEW e \in Client, pc[e] = "sync_wait", e \notin waiting'
          PROVE  <<e, calls[e]>> \in Ids(ran)
      <4>1. CASE e \notin waiting
        BY <1>0, <3>6, <4>1 DEF SyncInv
      <4>2. CASE e \in waiting
        BY <3>2, <3>3, <3>4, <3>6, <4>2
      <4> QED
        BY <4>1, <4>2
    <3> QED
      BY <3>4, <3>5, <3>6 DEF SyncInv
  <2> QED
    BY <1>2, <2>1, <2>2, <2>3, <2>4, <2>5 DEF LooperNext
<1>3. CASE SpuriousWakeup
  BY <1>3 DEF SpuriousWakeup, SyncInv
<1>4. CASE Tick
  <2>3. Tasks(mTasks') \cup Tasks(mTimedTasks') \cup CurrentTask' \subseteq Lists
    BY <1>4 DEF Tick, CurrentTask
  <2>4. UNCHANGED <<ran, role, dangling>> /\ (lpc' = "next" => lpc = "next" /\ current' = current)
    BY <1>4 DEF Tick
  <2>5. \A e \in Client : Awaiting(e) => Awaiting(e)' /\ calls'[e] = calls[e]
    BY <1>4, <1>0 DEF Tick, Awaiting, Syncing
  <2>6. \A e \in Client : pc'[e] = "sync_wait" /\ e \notin waiting' =>
           pc[e] = "sync_wait" /\ e \notin waiting /\ calls'[e] = calls[e]
    BY <1>4, <1>0 DEF Tick
  <2> QED
    BY <1>0, <2>3, <2>4, <2>5, <2>6, SyncFrame
<1>5. CASE UNCHANGED vars
  <2>3. Tasks(mTasks') \cup Tasks(mTimedTasks') \cup CurrentTask' \subseteq Lists
    BY <1>5 DEF vars, CurrentTask
  <2>4. UNCHANGED <<ran, role, dangling>> /\ (lpc' = "next" => lpc = "next" /\ current' = current)
    BY <1>5 DEF vars
  <2>5. \A e \in Client : Awaiting(e) => Awaiting(e)' /\ calls'[e] = calls[e]
    BY <1>5, <1>0 DEF vars, Awaiting, Syncing
  <2>6. \A e \in Client : pc'[e] = "sync_wait" /\ e \notin waiting' =>
           pc[e] = "sync_wait" /\ e \notin waiting /\ calls'[e] = calls[e]
    BY <1>5, <1>0 DEF vars
  <2> QED
    BY <1>0, <2>3, <2>4, <2>5, <2>6, SyncFrame
<1> QED
  BY <1>1, <1>2, <1>3, <1>4, <1>5 DEF Next

-----------------------------------------------------------------------------
(* A step of a client that keeps its reference: nobody is leaving. *)
LEMMA ExitFrame ==
    ASSUME ExitInv, NEW c \in Client, pc[c] \notin Leaving \cup {"gone"},
           pc'[c] \notin Leaving \cup {"gone"},
           \A d \in Client : d # c => pc'[d] = pc[d],
           mRefs' = Cardinality(Holders'), UNCHANGED <<checkFailed, role>>
    PROVE  ExitInv'
BY DEF ExitInv, Leaving

(* Every step keeps what the end of the queue rests on. *)
LEMMA ExitStep ==
    ASSUME DispatchInv, [Next]_vars
    PROVE  ExitInv'
<1>0. /\ TypeOK /\ CallsInv /\ SyncInv /\ ExitInv
      /\ pc \in [Client -> ClientPC] /\ posts \in Seq(Post)
      /\ lpc \in {"idle", "run", "next"}
      /\ mRefs' = Cardinality(Holders')
  BY RefsStep DEF DispatchInv, TypeOK
<1> USE DEF lists, looperVars, clientVars, context, history
<1>1. ASSUME NEW c \in Client, Begin(c) \/ Continue(c)
      PROVE  ExitInv'
  <2>1. CASE DispatchPush(c)
    <3>1. /\ pc[c] \notin Leaving \cup {"gone"} /\ pc'[c] \notin Leaving \cup {"gone"}
          /\ \A e \in Client : e # c => pc'[e] = pc[e]
      BY <2>1, <1>0 DEF DispatchPush, Call, Goto, Leaving
    <3>2. UNCHANGED <<checkFailed, role>>
      BY <2>1 DEF DispatchPush
    <3> QED
      BY <1>0, <3>1, <3>2, ExitFrame
  <2>2. CASE DispatchDelayed(c)
    <3>1. /\ pc[c] \notin Leaving \cup {"gone"} /\ pc'[c] \notin Leaving \cup {"gone"}
          /\ \A e \in Client : e # c => pc'[e] = pc[e]
      BY <2>2, <1>0 DEF DispatchDelayed, Call, Goto, Leaving
    <3>2. UNCHANGED <<checkFailed, role>>
      BY <2>2 DEF DispatchDelayed
    <3> QED
      BY <1>0, <3>1, <3>2, ExitFrame
  <2>3. CASE SyncPush(c)
    <3>1. /\ pc[c] \notin Leaving \cup {"gone"} /\ pc'[c] \notin Leaving \cup {"gone"}
          /\ \A e \in Client : e # c => pc'[e] = pc[e]
      BY <2>3, <1>0 DEF SyncPush, Call, Goto, Leaving
    <3>2. UNCHANGED <<checkFailed, role>>
      BY <2>3 DEF SyncPush
    <3> QED
      BY <1>0, <3>1, <3>2, ExitFrame
  <2>4. CASE ExistsJob(c)
    <3>1. /\ pc[c] \notin Leaving \cup {"gone"} /\ pc'[c] \notin Leaving \cup {"gone"}
          /\ \A e \in Client : e # c => pc'[e] = pc[e]
      BY <2>4, <1>0 DEF ExistsJob, Call, Goto, Leaving
    <3>2. UNCHANGED <<checkFailed, role>>
      BY <2>4 DEF ExistsJob
    <3> QED
      BY <1>0, <3>1, <3>2, ExitFrame
  <2>5. CASE RemoveJob(c)
    <3>1. /\ pc[c] \notin Leaving \cup {"gone"} /\ pc'[c] \notin Leaving \cup {"gone"}
          /\ \A e \in Client : e # c => pc'[e] = pc[e]
      BY <2>5, <1>0 DEF RemoveJob, Call, Goto, Leaving
    <3>2. UNCHANGED <<checkFailed, role>>
      BY <2>5 DEF RemoveJob
    <3> QED
      BY <1>0, <3>1, <3>2, ExitFrame
  <2>6. CASE Flush(c)
    <3>1. /\ pc[c] \notin Leaving \cup {"gone"} /\ pc'[c] \notin Leaving \cup {"gone"}
          /\ \A e \in Client : e # c => pc'[e] = pc[e]
      BY <2>6, <1>0 DEF Flush, Call, Goto, Leaving
    <3>2. UNCHANGED <<checkFailed, role>>
      BY <2>6 DEF Flush
    <3> QED
      BY <1>0, <3>1, <3>2, ExitFrame
  <2>7. CASE Release(c)
    <3>1. /\ c \in Holders /\ pc[c] = "idle"
          /\ pc' = [pc EXCEPT ![c] = IF mRefs = 1 THEN "last" ELSE "gone"]
          /\ UNCHANGED <<checkFailed, role>>
      BY <2>7 DEF Release, Goto, Holders
    <3>2. CASE mRefs = 1
      <4>1. \A e \in Client : e # c => pc[e] \in Leaving \cup {"gone"}
        BY <1>0, <3>1, <3>2, LastReference DEF Holders, Leaving
      <4>2. \A e \in Client : pc[e] \notin Leaving
        BY <1>0, <3>1 DEF ExitInv, Leaving
      <4>3. \A e \in Client : e # c => pc'[e] = "gone"
        BY <1>0, <3>1, <4>1, <4>2
      <4>4. pc'[c] = "last"
        BY <1>0, <3>1, <3>2
      <4> QED
        BY <1>0, <3>1, <4>3, <4>4 DEF ExitInv
    <3>3. CASE mRefs # 1
      <4>1. PICK e \in Holders : e # c
        BY <1>0, <3>1, <3>3, LastReference
      <4>2. e \in Client /\ pc'[e] \notin Leaving \cup {"gone"}
        BY <1>0, <3>1, <4>1 DEF Holders, Leaving
      <4>3. pc'[c] = "gone" /\ \A x \in Client : x # c => pc'[x] = pc[x]
        BY <1>0, <3>1, <3>3
      <4>4. \A x \in Client : pc'[x] \notin Leaving
        BY <1>0, <3>1, <4>3 DEF ExitInv, Leaving
      <4> QED
        BY <1>0, <3>1, <4>2, <4>4 DEF ExitInv, Leaving
    <3> QED
      BY <3>2, <3>3
  <2>8. CASE DispatchSize(c)
    <3>1. /\ pc[c] \notin Leaving \cup {"gone"} /\ pc'[c] \notin Leaving \cup {"gone"}
          /\ \A e \in Client : e # c => pc'[e] = pc[e]
      BY <2>8, <1>0 DEF DispatchSize, Goto, Leaving
    <3>2. UNCHANGED <<checkFailed, role>>
      BY <2>8 DEF DispatchSize
    <3> QED
      BY <1>0, <3>1, <3>2, ExitFrame
  <2>9. CASE PostDispatcher(c)
    <3>1. /\ pc[c] \notin Leaving \cup {"gone"} /\ pc'[c] \notin Leaving \cup {"gone"}
          /\ \A e \in Client : e # c => pc'[e] = pc[e]
      BY <2>9, <1>0 DEF PostDispatcher, Goto, Leaving
    <3>2. UNCHANGED <<checkFailed, role>>
      BY <2>9 DEF PostDispatcher
    <3> QED
      BY <1>0, <3>1, <3>2, ExitFrame
  <2>10. CASE Repost(c)
    <3>1. /\ pc[c] \notin Leaving \cup {"gone"} /\ pc'[c] \notin Leaving \cup {"gone"}
          /\ \A e \in Client : e # c => pc'[e] = pc[e]
      BY <2>10, <1>0 DEF Repost, Goto, Leaving
    <3>2. UNCHANGED <<checkFailed, role>>
      BY <2>10 DEF Repost
    <3> QED
      BY <1>0, <3>1, <3>2, ExitFrame
  <2>11. CASE SyncSize(c)
    <3>1. /\ pc[c] \notin Leaving \cup {"gone"} /\ pc'[c] \notin Leaving \cup {"gone"}
          /\ \A e \in Client : e # c => pc'[e] = pc[e]
      BY <2>11, <1>0 DEF SyncSize, Goto, Leaving
    <3>2. UNCHANGED <<checkFailed, role>>
      BY <2>11 DEF SyncSize
    <3> QED
      BY <1>0, <3>1, <3>2, ExitFrame
  <2>12. CASE SyncPost(c)
    <3>1. /\ pc[c] \notin Leaving \cup {"gone"} /\ pc'[c] \notin Leaving \cup {"gone"}
          /\ \A e \in Client : e # c => pc'[e] = pc[e]
      BY <2>12, <1>0 DEF SyncPost, Goto, Leaving
    <3>2. UNCHANGED <<checkFailed, role>>
      BY <2>12 DEF SyncPost
    <3> QED
      BY <1>0, <3>1, <3>2, ExitFrame
  <2>13. CASE SyncReturn(c)
    <3>1. /\ pc[c] \notin Leaving \cup {"gone"} /\ pc'[c] \notin Leaving \cup {"gone"}
          /\ \A e \in Client : e # c => pc'[e] = pc[e]
      BY <2>13, <1>0 DEF SyncReturn, Goto, Leaving
    <3>2. UNCHANGED <<checkFailed, role>>
      BY <2>13 DEF SyncReturn
    <3> QED
      BY <1>0, <3>1, <3>2, ExitFrame
  <2>14. CASE RequestExit(c)
    <3>1. /\ pc[c] = "last" /\ pc'[c] \in {"destroy", "wait_exit"}
          /\ \A e \in Client : e # c => pc'[e] = pc[e] /\ pc[e] = "gone"
          /\ UNCHANGED <<lists, mDispatching, looperVars, checkFailed, role>>
      BY <2>14, <1>0 DEF RequestExit, Goto, ExitInv
    <3>2. pc'[c] = "destroy" => Quiet
      <4>1. pc'[c] = "destroy" => ~mDispatching /\ NextDelay(mTasks, mTimedTasks, now) < 0
        BY <2>14, <1>0 DEF RequestExit, Goto
      <4>2. NextDelay(mTasks, mTimedTasks, now) < 0 <=> mTasks = <<>> /\ mTimedTasks = <<>>
        BY <1>0, NextFacts
      <4> QED
        BY <1>0, <4>1, <4>2 DEF Quiet, CallsInv
    <3>3. pc'[c] = "wait_exit" => c \in waiting'
      BY <2>14, <1>0 DEF RequestExit, Goto
    <3> QED
      BY <1>0, <3>1, <3>2, <3>3 DEF ExitInv, Quiet
  <2>15. CASE ExitCheck(c)
    <3>1. /\ pc[c] = "wait_exit" /\ pc'[c] = "destroy" /\ c \notin waiting
          /\ \A e \in Client : e # c => pc'[e] = pc[e] /\ pc[e] = "gone"
          /\ UNCHANGED <<lists, mDispatching, looperVars, role>>
          /\ checkFailed' = mDispatching
      BY <2>15, <1>0 DEF ExitCheck, Goto, ExitInv
    <3>2. ~role.spurious => Quiet
      BY <1>0, <3>1 DEF ExitInv
    <3> QED
      BY <1>0, <3>1, <3>2 DEF ExitInv, Quiet
  <2>16. CASE Destroy(c)
    <3>1. /\ pc[c] = "destroy" /\ pc'[c] = "gone" /\ posts' = <<>>
          /\ \A e \in Client : e # c => pc'[e] = pc[e] /\ pc[e] = "gone"
          /\ UNCHANGED <<lists, mDispatching, lpc, role, checkFailed>>
      BY <2>16, <1>0 DEF Destroy, Goto, ExitInv
    <3>2. ~role.spurious => Quiet
      BY <1>0, <3>1 DEF ExitInv
    <3> QED
      BY <1>0, <3>1, <3>2 DEF ExitInv, Quiet
  <2>17. CASE DispatchMake(c) \/ DelayMake(c) \/ SyncMake(c)
    <3>1. /\ pc[c] \notin Leaving \cup {"gone"} /\ pc'[c] \notin Leaving \cup {"gone"}
          /\ \A e \in Client : e # c => pc'[e] = pc[e]
      <4>1. /\ pc[c] = "idle"
            /\ \E place \in {"push", "insert", "sync_push"} : pc' = [pc EXCEPT ![c] = place]
        BY <2>17, MakeFacts
      <4> QED
        BY <1>0, <4>1 DEF Leaving
    <3>2. UNCHANGED <<checkFailed, role>>
      BY <2>17, MakeFacts
    <3> QED
      BY <1>0, <3>1, <3>2, ExitFrame
  <2> QED
    BY <1>1, <2>1, <2>2, <2>3, <2>4, <2>5, <2>6, <2>7, <2>8, <2>9, <2>10, <2>11, <2>12, <2>13, <2>14, <2>15, <2>16, <2>17 DEF Begin, Continue
<1>2. CASE LooperNext
  <2>1. CASE PopTimed
    <3>1. ~role.spurious =>
             /\ ~ (\A e \in Client : pc[e] = "gone")
             /\ \A e \in Client : pc[e] # "destroy" /\ (pc[e] = "wait_exit" => e \in waiting)
      BY <2>1, <1>0 DEF PopTimed, OnJob, IsDue, ExitInv, Quiet
    <3>2. UNCHANGED <<pc, waiting, role, checkFailed>>
      BY <2>1 DEF PopTimed
    <3> QED
      BY <1>0, <3>1, <3>2 DEF ExitInv
  <2>2. CASE PopImmediate
    <3>1. ~role.spurious =>
             /\ ~ (\A e \in Client : pc[e] = "gone")
             /\ \A e \in Client : pc[e] # "destroy" /\ (pc[e] = "wait_exit" => e \in waiting)
      BY <2>2, <1>0 DEF PopImmediate, OnJob, IsDue, ExitInv, Quiet
    <3>2. UNCHANGED <<pc, waiting, role, checkFailed>>
      BY <2>2 DEF PopImmediate
    <3> QED
      BY <1>0, <3>1, <3>2 DEF ExitInv
  <2>3. CASE PopNothing
    <3>1. posts # <<>> /\ lpc' = "idle" /\ UNCHANGED <<lists, pc, role, checkFailed>>
      BY <2>3 DEF PopNothing, OnJob, IsDue, Finish
    <3>2. Tail(posts) \in Seq(Post)
      BY <1>0, <3>1, TailFacts
    <3>3. /\ mTasks = <<>> /\ mTimedTasks = <<>> => ~mDispatching'
          /\ ~ (mTasks = <<>> /\ mTimedTasks = <<>>) => waiting' = waiting \ {}
      BY <2>3, <1>0, <3>2, FinishFacts DEF PopNothing
    <3>4. CASE mTasks = <<>> /\ mTimedTasks = <<>>
      BY <1>0, <3>1, <3>3, <3>4 DEF ExitInv, Quiet
    <3>5. CASE ~ (mTasks = <<>> /\ mTimedTasks = <<>>)
      BY <1>0, <3>1, <3>3, <3>5 DEF ExitInv, Quiet
    <3> QED
      BY <3>4, <3>5
  <2>4. CASE RunTask
    <3>1. ~role.spurious =>
             /\ ~ (\A e \in Client : pc[e] = "gone")
             /\ \A e \in Client : pc[e] # "destroy" /\ (pc[e] = "wait_exit" => e \in waiting)
      BY <2>4, <1>0 DEF RunTask, ExitInv, Quiet
    <3>2. UNCHANGED <<pc, waiting, role, checkFailed>>
      BY <2>4 DEF RunTask
    <3> QED
      BY <1>0, <3>1, <3>2 DEF ExitInv
  <2>5. CASE AfterTask
    <3>1. lpc = "next" /\ lpc' = "idle" /\ UNCHANGED <<lists, pc, role, checkFailed>>
      BY <2>5 DEF AfterTask, Finish
    <3>2. PICK synced : synced = IF current.sync /\ InSync(current) THEN {current.id[1]} ELSE {}
      OBVIOUS
    <3>3. /\ mTasks = <<>> /\ mTimedTasks = <<>> => ~mDispatching'
          /\ ~ (mTasks = <<>> /\ mTimedTasks = <<>>) => waiting' = waiting \ synced
      BY <2>5, <1>0, <3>2, FinishFacts DEF AfterTask
    <3>4. \A e \in synced : pc[e] # "wait_exit"
      BY <3>2 DEF InSync
    <3>5. ~role.spurious =>
             /\ ~ (\A e \in Client : pc[e] = "gone")
             /\ \A e \in Client : pc[e] # "destroy" /\ (pc[e] = "wait_exit" => e \in waiting)
      BY <1>0, <3>1 DEF ExitInv, Quiet
    <3>6. CASE mTasks = <<>> /\ mTimedTasks = <<>>
      BY <1>0, <3>1, <3>3, <3>5, <3>6 DEF ExitInv, Quiet
    <3>7. CASE ~ (mTasks = <<>> /\ mTimedTasks = <<>>)
      BY <1>0, <3>1, <3>3, <3>4, <3>5, <3>7 DEF ExitInv
    <3> QED
      BY <3>6, <3>7
  <2> QED
    BY <1>2, <2>1, <2>2, <2>3, <2>4, <2>5 DEF LooperNext
<1>3. CASE SpuriousWakeup
  BY <1>3, <1>0 DEF SpuriousWakeup, ExitInv
<1>4. CASE Tick
  BY <1>4, <1>0 DEF Tick, ExitInv, Quiet
<1>5. CASE UNCHANGED vars
  BY <1>5, <1>0 DEF vars, ExitInv, Quiet
<1> QED
  BY <1>1, <1>2, <1>3, <1>4, <1>5 DEF Next

-----------------------------------------------------------------------------
(* A step that moves no task. *)
LEMMA PlacesFrame ==
    ASSUME TypeOK, PlacesInv, \A c \in Client : calls'[c] \in Nat /\ calls[c] <= calls'[c],
           UNCHANGED <<mTasks, mTimedTasks, posted, ran, cancelled>>, Running' = Running
    PROVE  PlacesInv'
<1>1. \A id \in posted : id[2] <= calls'[id[1]]
  <2> SUFFICES ASSUME NEW id \in posted
               PROVE  id[2] <= calls'[id[1]]
    OBVIOUS
  <2>1. id[1] \in Client /\ id[2] \in Nat
    BY DEF TypeOK, Id
  <2>2. calls[id[1]] \in Nat /\ id[2] <= calls[id[1]]
    BY <2>1, BoundAssumption DEF PlacesInv, TypeOK
  <2> QED
    BY <2>1, <2>2
<1> QED
  BY <1>1 DEF PlacesInv, Finished

(* Every step keeps each id in one place. *)
LEMMA PlacesStep ==
    ASSUME DispatchInv, [Next]_vars
    PROVE  PlacesInv'
<1>0. TypeOK /\ PlacesInv /\ CallsInv /\ mTasks \in Seq(Task) /\ mTimedTasks \in Seq(Task)
      /\ ran \in Seq(Task) /\ now \in 0..MaxTime /\ now + 0 = now /\ now <= MaxTime
  BY BoundAssumption DEF DispatchInv, TypeOK
<1>a. \A c \in Client : calls[c] \in Nat /\ calls[c] <= calls[c]
                        /\ calls[c] + 1 \in Nat /\ calls[c] <= calls[c] + 1
  BY <1>0, BoundAssumption DEF TypeOK
<1>b. calls \in [Client -> 0..MaxCalls]
  BY <1>0 DEF TypeOK
<1>p. \A id \in posted : id[1] \in Client /\ id[2] \in Nat /\ id[2] <= calls[id[1]]
  BY <1>0 DEF TypeOK, Id, PlacesInv
<1>s. mTasks \in Seq(Task) /\ mTimedTasks \in Seq(Task)
  BY <1>0
<1>t. \A t \in Task : t.when \in Int
  BY TaskFacts
<1> USE DEF lists, looperVars, clientVars, context, history
<1>1. ASSUME NEW c \in Client, Begin(c) \/ Continue(c)
      PROVE  PlacesInv'
  <2>1. CASE DispatchPush(c)
    <3>1. PICK task : task = made[c]
      OBVIOUS
    <3>2. task \in Task /\ task.id = <<c, calls[c]>> /\ task.id \notin posted
      <4>1. Making(c)
        BY <2>1 DEF DispatchPush, Goto, Making
      <4> QED
        BY <3>1, <4>1, MadeFacts
    <3>3. Ids(mTasks) \subseteq posted /\ Ids(mTimedTasks) \subseteq posted
      BY <1>0 DEF PlacesInv
    <3>4. Distinct(mTasks') /\ Tasks(mTasks') = Tasks(mTasks) \cup {task}
      <4>1. Distinct(mTasks) /\ task.id \notin Ids(mTasks)
        BY <1>0, <3>2, <3>3 DEF PlacesInv
      <4>2. mTasks' = Append(mTasks, task)
        BY <2>1, <3>1 DEF DispatchPush
      <4> QED
        BY <1>s, <1>t, <3>2, <4>1, <4>2, AppendFacts, ZenonT(30)
    <3>5. Ids(mTasks') = Ids(mTasks) \cup {task.id}
      BY <3>2, <3>4, IdsAdded
    <3>6. /\ UNCHANGED <<mTimedTasks, ran, cancelled, calls>> /\ Running' = Running
          /\ posted' = posted \cup {task.id}
      BY <2>1, <3>1 DEF DispatchPush, Queued, Running
    <3>7. \A id \in posted' : id[2] <= calls'[id[1]]
      <4>1. task.id[1] = c /\ task.id[2] = calls[c]
        BY <3>2
      <4> QED
        BY <1>a, <1>p, <3>6, <4>1
    <3> QED
      BY <1>0, <3>2, <3>4, <3>5, <3>6, <3>7 DEF PlacesInv, Finished
  <2>2. CASE DispatchDelayed(c)
    <3>1. PICK task : task = made[c]
      OBVIOUS
    <3>2. task \in Task /\ task.id = <<c, calls[c]>> /\ task.id \notin posted
      <4>1. Making(c)
        BY <2>2 DEF DispatchDelayed, Goto, Making
      <4> QED
        BY <3>1, <4>1, MadeFacts
    <3>3. Ids(mTasks) \subseteq posted /\ Ids(mTimedTasks) \subseteq posted
      BY <1>0 DEF PlacesInv
    <3>4. Distinct(mTimedTasks') /\ Tasks(mTimedTasks') = Tasks(mTimedTasks) \cup {task}
      <4>1. Distinct(mTimedTasks) /\ task.id \notin Ids(mTimedTasks)
        BY <1>0, <3>2, <3>3 DEF PlacesInv
      <4>2. mTimedTasks' = InsertTimed(mTimedTasks, task)
        BY <2>2, <3>1 DEF DispatchDelayed
      <4> QED
        BY <1>s, <1>t, <3>2, <4>1, <4>2, InsertFacts, ZenonT(30)
    <3>5. Ids(mTimedTasks') = Ids(mTimedTasks) \cup {task.id}
      BY <3>2, <3>4, IdsAdded
    <3>6. /\ UNCHANGED <<mTasks, ran, cancelled, calls>> /\ Running' = Running
          /\ posted' = posted \cup {task.id}
      BY <2>2, <3>1 DEF DispatchDelayed, Queued, Running
    <3>7. \A id \in posted' : id[2] <= calls'[id[1]]
      <4>1. task.id[1] = c /\ task.id[2] = calls[c]
        BY <3>2
      <4> QED
        BY <1>a, <1>p, <3>6, <4>1
    <3> QED
      BY <1>0, <3>2, <3>4, <3>5, <3>6, <3>7 DEF PlacesInv, Finished
  <2>3. CASE SyncPush(c)
    <3>1. PICK task : task = made[c]
      OBVIOUS
    <3>2. task \in Task /\ task.id = <<c, calls[c]>> /\ task.id \notin posted
      <4>1. Making(c)
        BY <2>3 DEF SyncPush, Goto, Making
      <4> QED
        BY <3>1, <4>1, MadeFacts
    <3>3. Ids(mTasks) \subseteq posted /\ Ids(mTimedTasks) \subseteq posted
      BY <1>0 DEF PlacesInv
    <3>4. Distinct(mTasks') /\ Tasks(mTasks') = Tasks(mTasks) \cup {task}
      <4>1. Distinct(mTasks) /\ task.id \notin Ids(mTasks)
        BY <1>0, <3>2, <3>3 DEF PlacesInv
      <4>2. mTasks' = Append(mTasks, task)
        BY <2>3, <3>1 DEF SyncPush
      <4> QED
        BY <1>s, <1>t, <3>2, <4>1, <4>2, AppendFacts, ZenonT(30)
    <3>5. Ids(mTasks') = Ids(mTasks) \cup {task.id}
      BY <3>2, <3>4, IdsAdded
    <3>6. /\ UNCHANGED <<mTimedTasks, ran, cancelled, calls>> /\ Running' = Running
          /\ posted' = posted \cup {task.id}
      BY <2>3, <3>1 DEF SyncPush, Queued, Running
    <3>7. \A id \in posted' : id[2] <= calls'[id[1]]
      <4>1. task.id[1] = c /\ task.id[2] = calls[c]
        BY <3>2
      <4> QED
        BY <1>a, <1>p, <3>6, <4>1
    <3> QED
      BY <1>0, <3>2, <3>4, <3>5, <3>6, <3>7 DEF PlacesInv, Finished
  <2>4. CASE ExistsJob(c)
    <3>1. /\ Ids(mTasks') = {} /\ Distinct(mTasks') /\ Distinct(mTimedTasks')
          /\ Ids(mTimedTasks') = Ids(mTasks) \cup Ids(mTimedTasks)
      BY <2>4, <1>0, MergedFacts, EmptyFacts DEF ExistsJob
    <3>2. /\ UNCHANGED <<posted, ran, cancelled>> /\ Running' = Running
          /\ calls' = [calls EXCEPT ![c] = @ + 1]
      BY <2>4 DEF ExistsJob, Call, Running
    <3>3. \A id \in posted : id[2] <= calls'[id[1]]
      BY <1>a, <1>b, <1>p, <3>2
    <3> QED
      BY <1>0, <3>1, <3>2, <3>3 DEF PlacesInv, Finished
  <2>5. CASE RemoveJob(c)
    <3>1. PICK merged : merged = Merged
      OBVIOUS
    <3>2. PICK job \in role.jobs :
             /\ mTimedTasks' = WithoutJob(merged, job)
             /\ cancelled' = cancelled \cup (Ids(merged) \ Ids(WithoutJob(merged, job)))
      BY <2>5, <3>1 DEF RemoveJob
    <3>3. PICK kept : kept = WithoutJob(merged, job)
      OBVIOUS
    <3>4. /\ merged \in Seq(Task) /\ Distinct(merged)
          /\ Ids(merged) = Ids(mTasks) \cup Ids(mTimedTasks)
      BY <1>0, <3>1, MergedFacts
    <3>5. Distinct(kept) /\ Tasks(kept) \subseteq Tasks(merged)
      BY <3>3, <3>4, WithoutFacts
    <3>6. Ids(kept) \subseteq Ids(mTasks) \cup Ids(mTimedTasks)
      BY <3>4, <3>5, IdsOfFewer
    <3>7. Ids(mTasks') = {} /\ Distinct(mTasks')
      BY <2>5, EmptyFacts DEF RemoveJob
    <3>8. /\ mTimedTasks' = kept
          /\ cancelled' = cancelled \cup ((Ids(mTasks) \cup Ids(mTimedTasks)) \ Ids(kept))
          /\ UNCHANGED <<posted, ran>> /\ Running' = Running
          /\ calls' = [calls EXCEPT ![c] = @ + 1]
      BY <2>5, <3>2, <3>3, <3>4 DEF RemoveJob, Call, Running
    <3>9. \A id \in posted : id[2] <= calls'[id[1]]
      BY <1>a, <1>b, <1>p, <3>8
    <3> QED
      BY <1>0, <3>5, <3>6, <3>7, <3>8, <3>9 DEF PlacesInv, Finished
  <2>6. CASE Flush(c)
    <3>1. /\ Ids(mTasks') = {} /\ Ids(mTimedTasks') = {}
          /\ Distinct(mTasks') /\ Distinct(mTimedTasks')
      BY <2>6, EmptyFacts DEF Flush
    <3>2. /\ cancelled' = cancelled \cup Ids(mTasks) \cup Ids(mTimedTasks)
          /\ UNCHANGED <<posted, ran>> /\ Running' = Running
          /\ calls' = [calls EXCEPT ![c] = @ + 1]
      BY <2>6 DEF Flush, Call, Running
    <3>3. \A id \in posted' : id[2] <= calls'[id[1]]
      BY <1>a, <1>b, <1>p, <3>2
    <3> QED
      BY <1>0, <3>1, <3>2, <3>3 DEF PlacesInv, Finished
  <2>7. CASE Release(c)
    <3>1. UNCHANGED <<mTasks, mTimedTasks, posted, ran, cancelled>>
      BY <2>7 DEF Release
    <3>2. Running' = Running
      BY <2>7 DEF Release, Running
    <3>3. \A d \in Client : calls'[d] \in Nat /\ calls[d] <= calls'[d]
      BY <2>7, <1>a, <1>b DEF Release
    <3> QED
      BY <1>0, <3>1, <3>2, <3>3, PlacesFrame
  <2>8. CASE DispatchSize(c)
    <3>1. UNCHANGED <<mTasks, mTimedTasks, posted, ran, cancelled>>
      BY <2>8 DEF DispatchSize
    <3>2. Running' = Running
      BY <2>8 DEF DispatchSize, Running
    <3>3. \A d \in Client : calls'[d] \in Nat /\ calls[d] <= calls'[d]
      BY <2>8, <1>a, <1>b DEF DispatchSize
    <3> QED
      BY <1>0, <3>1, <3>2, <3>3, PlacesFrame
  <2>9. CASE PostDispatcher(c)
    <3>1. UNCHANGED <<mTasks, mTimedTasks, posted, ran, cancelled>>
      BY <2>9 DEF PostDispatcher
    <3>2. Running' = Running
      BY <2>9 DEF PostDispatcher, Running
    <3>3. \A d \in Client : calls'[d] \in Nat /\ calls[d] <= calls'[d]
      BY <2>9, <1>a, <1>b DEF PostDispatcher
    <3> QED
      BY <1>0, <3>1, <3>2, <3>3, PlacesFrame
  <2>10. CASE Repost(c)
    <3>1. UNCHANGED <<mTasks, mTimedTasks, posted, ran, cancelled>>
      BY <2>10 DEF Repost
    <3>2. Running' = Running
      BY <2>10 DEF Repost, Running
    <3>3. \A d \in Client : calls'[d] \in Nat /\ calls[d] <= calls'[d]
      BY <2>10, <1>a, <1>b DEF Repost
    <3> QED
      BY <1>0, <3>1, <3>2, <3>3, PlacesFrame
  <2>11. CASE SyncSize(c)
    <3>1. UNCHANGED <<mTasks, mTimedTasks, posted, ran, cancelled>>
      BY <2>11 DEF SyncSize
    <3>2. Running' = Running
      BY <2>11 DEF SyncSize, Running
    <3>3. \A d \in Client : calls'[d] \in Nat /\ calls[d] <= calls'[d]
      BY <2>11, <1>a, <1>b DEF SyncSize
    <3> QED
      BY <1>0, <3>1, <3>2, <3>3, PlacesFrame
  <2>12. CASE SyncPost(c)
    <3>1. UNCHANGED <<mTasks, mTimedTasks, posted, ran, cancelled>>
      BY <2>12 DEF SyncPost
    <3>2. Running' = Running
      BY <2>12 DEF SyncPost, Running
    <3>3. \A d \in Client : calls'[d] \in Nat /\ calls[d] <= calls'[d]
      BY <2>12, <1>a, <1>b DEF SyncPost
    <3> QED
      BY <1>0, <3>1, <3>2, <3>3, PlacesFrame
  <2>13. CASE SyncReturn(c)
    <3>1. UNCHANGED <<mTasks, mTimedTasks, posted, ran, cancelled>>
      BY <2>13 DEF SyncReturn
    <3>2. Running' = Running
      BY <2>13 DEF SyncReturn, Running
    <3>3. \A d \in Client : calls'[d] \in Nat /\ calls[d] <= calls'[d]
      BY <2>13, <1>a, <1>b DEF SyncReturn
    <3> QED
      BY <1>0, <3>1, <3>2, <3>3, PlacesFrame
  <2>14. CASE RequestExit(c)
    <3>1. UNCHANGED <<mTasks, mTimedTasks, posted, ran, cancelled>>
      BY <2>14 DEF RequestExit
    <3>2. Running' = Running
      BY <2>14 DEF RequestExit, Running
    <3>3. \A d \in Client : calls'[d] \in Nat /\ calls[d] <= calls'[d]
      BY <2>14, <1>a, <1>b DEF RequestExit
    <3> QED
      BY <1>0, <3>1, <3>2, <3>3, PlacesFrame
  <2>15. CASE ExitCheck(c)
    <3>1. UNCHANGED <<mTasks, mTimedTasks, posted, ran, cancelled>>
      BY <2>15 DEF ExitCheck
    <3>2. Running' = Running
      BY <2>15 DEF ExitCheck, Running
    <3>3. \A d \in Client : calls'[d] \in Nat /\ calls[d] <= calls'[d]
      BY <2>15, <1>a, <1>b DEF ExitCheck
    <3> QED
      BY <1>0, <3>1, <3>2, <3>3, PlacesFrame
  <2>16. CASE Destroy(c)
    <3>1. UNCHANGED <<mTasks, mTimedTasks, posted, ran, cancelled>>
      BY <2>16 DEF Destroy
    <3>2. Running' = Running
      BY <2>16 DEF Destroy, Running
    <3>3. \A d \in Client : calls'[d] \in Nat /\ calls[d] <= calls'[d]
      BY <2>16, <1>a, <1>b DEF Destroy
    <3> QED
      BY <1>0, <3>1, <3>2, <3>3, PlacesFrame
  <2>17. CASE DispatchMake(c) \/ DelayMake(c) \/ SyncMake(c)
    <3>1. /\ UNCHANGED <<mTasks, mTimedTasks, posted, ran, cancelled, lpc, current>>
          /\ calls' = [calls EXCEPT ![c] = calls[c] + 1]
      BY <2>17, MakeFacts
    <3>2. Running' = Running
      BY <3>1 DEF Running
    <3>3. \A d \in Client : calls'[d] \in Nat /\ calls[d] <= calls'[d]
      BY <3>1, <1>a, <1>b
    <3> QED
      BY <1>0, <3>1, <3>2, <3>3, PlacesFrame
  <2> QED
    BY <1>1, <2>1, <2>2, <2>3, <2>4, <2>5, <2>6, <2>7, <2>8, <2>9, <2>10, <2>11, <2>12, <2>13, <2>14, <2>15, <2>16, <2>17 DEF Begin, Continue
<1>2. CASE LooperNext
  <2>1. CASE PopTimed
    <3>1. PICK task : task = Head(mTimedTasks)
      OBVIOUS
    <3>2. /\ Tasks(mTimedTasks) = Tasks(Tail(mTimedTasks)) \cup {task}
          /\ Distinct(Tail(mTimedTasks)) /\ task.id \notin Ids(Tail(mTimedTasks))
      BY <2>1, <1>0, <3>1, TailFacts DEF PopTimed, IsDue, PlacesInv
    <3>3. Ids(mTimedTasks) = Ids(Tail(mTimedTasks)) \cup {task.id}
      BY <3>2, IdsAdded
    <3>4. /\ mTimedTasks' = Tail(mTimedTasks) /\ UNCHANGED <<mTasks, posted, ran, cancelled, calls>>
          /\ Running = {} /\ Running' = {task.id}
      BY <2>1, <3>1 DEF PopTimed, OnJob, Running
    <3> QED
      BY <1>0, <3>2, <3>3, <3>4 DEF PlacesInv, Finished
  <2>2. CASE PopImmediate
    <3>1. PICK task : task = Head(mTasks)
      OBVIOUS
    <3>2. /\ Tasks(mTasks) = Tasks(Tail(mTasks)) \cup {task}
          /\ Distinct(Tail(mTasks)) /\ task.id \notin Ids(Tail(mTasks))
      BY <2>2, <1>0, <3>1, TailFacts DEF PopImmediate, IsDue, PlacesInv
    <3>3. Ids(mTasks) = Ids(Tail(mTasks)) \cup {task.id}
      BY <3>2, IdsAdded
    <3>4. /\ mTasks' = Tail(mTasks) /\ UNCHANGED <<mTimedTasks, posted, ran, cancelled, calls>>
          /\ Running = {} /\ Running' = {task.id}
      BY <2>2, <3>1 DEF PopImmediate, OnJob, Running
    <3> QED
      BY <1>0, <3>2, <3>3, <3>4 DEF PlacesInv, Finished
  <2>3. CASE PopNothing
    <3>1. UNCHANGED <<mTasks, mTimedTasks, posted, ran, cancelled>>
      BY <2>3 DEF PopNothing, OnJob, Finish
    <3>2. Running' = Running
      BY <2>3 DEF PopNothing, OnJob, Finish, Running
    <3>3. \A d \in Client : calls'[d] \in Nat /\ calls[d] <= calls'[d]
      BY <2>3, <1>a, <1>b DEF PopNothing, OnJob, Finish
    <3> QED
      BY <1>0, <3>1, <3>2, <3>3, PlacesFrame
  <2>4. CASE RunTask
    <3>1. PICK task : task = current
      OBVIOUS
    <3>2. task \in Task /\ Running = {task.id} /\ Running' = {}
      BY <2>4, <1>0, <3>1 DEF RunTask, CallsInv, Running
    <3>3. Distinct(ran) /\ task.id \notin Ids(ran)
      BY <1>0, <3>2 DEF PlacesInv, Finished
    <3>4. ran' = Append(ran, task)
      BY <2>4, <3>1 DEF RunTask
    <3>5. Distinct(ran') /\ Tasks(ran') = Tasks(ran) \cup {task}
      BY <1>0, <3>2, <3>3, <3>4, AppendFacts
    <3>6. Ids(ran') = Ids(ran) \cup {task.id}
      <4>1. PICK before, after : before = ran /\ after = ran'
        OBVIOUS
      <4>2. Tasks(after) = Tasks(before) \cup {task}
        BY <3>5, <4>1
      <4>3. Ids(after) = Ids(before) \cup {task.id}
        BY <4>2, IdsAdded
      <4> QED
        BY <4>1, <4>3
    <3>7. UNCHANGED <<mTasks, mTimedTasks, posted, cancelled, calls>>
      BY <2>4 DEF RunTask
    <3> QED
      BY <1>0, <3>2, <3>5, <3>6, <3>7 DEF PlacesInv, Finished
  <2>5. CASE AfterTask
    <3>1. UNCHANGED <<mTasks, mTimedTasks, posted, ran, cancelled>>
      BY <2>5 DEF AfterTask, OnJob, Finish
    <3>2. Running' = Running
      BY <2>5 DEF AfterTask, OnJob, Finish, Running
    <3>3. \A d \in Client : calls'[d] \in Nat /\ calls[d] <= calls'[d]
      BY <2>5, <1>a, <1>b DEF AfterTask, OnJob, Finish
    <3> QED
      BY <1>0, <3>1, <3>2, <3>3, PlacesFrame
  <2> QED
    BY <1>2, <2>1, <2>2, <2>3, <2>4, <2>5 DEF LooperNext
<1>3. CASE SpuriousWakeup
  <2>1. UNCHANGED <<mTasks, mTimedTasks, posted, ran, cancelled>>
    BY <1>3 DEF SpuriousWakeup
  <2>2. Running' = Running
    BY <1>3 DEF SpuriousWakeup, Running
  <2>3. \A d \in Client : calls'[d] \in Nat /\ calls[d] <= calls'[d]
    BY <1>3, <1>a, <1>b DEF SpuriousWakeup
  <2> QED
    BY <1>0, <2>1, <2>2, <2>3, PlacesFrame
<1>4. CASE Tick
  <2>1. UNCHANGED <<mTasks, mTimedTasks, posted, ran, cancelled>>
    BY <1>4 DEF Tick
  <2>2. Running' = Running
    BY <1>4 DEF Tick, Running
  <2>3. \A d \in Client : calls'[d] \in Nat /\ calls[d] <= calls'[d]
    BY <1>4, <1>a, <1>b DEF Tick
  <2> QED
    BY <1>0, <2>1, <2>2, <2>3, PlacesFrame
<1>5. CASE UNCHANGED vars
  <2>1. UNCHANGED <<mTasks, mTimedTasks, posted, ran, cancelled>>
    BY <1>5 DEF vars
  <2>2. Running' = Running
    BY <1>5 DEF vars, Running
  <2>3. \A d \in Client : calls'[d] \in Nat /\ calls[d] <= calls'[d]
    BY <1>5, <1>a, <1>b DEF vars
  <2> QED
    BY <1>0, <2>1, <2>2, <2>3, PlacesFrame
<1> QED
  BY <1>1, <1>2, <1>3, <1>4, <1>5 DEF Next

-----------------------------------------------------------------------------
(* A step that leaves the queue alone and takes the dispatcher from nobody. *)
LEMMA ServedFrame ==
    ASSUME ServedInv, mTasks' = mTasks, mTimedTasks' # <<>> => mTimedTasks # <<>>,
           posts # <<>> => posts' # <<>>, lpc # "idle" => lpc' # "idle", role' = role,
           \A d \in Client : WillPost(d) => WillPost(d)'
    PROVE  ServedInv'
BY DEF ServedInv, Orderly, OneMover

(* A client that moves tasks is the only one that looks at their number. *)
LEMMA OnlyMover ==
    ASSUME CallsInv, Orderly, NEW c \in Client, role.verbs[c] \cap Moves # {},
           NEW d \in Client, d # c
    PROVE  pc[d] \notin {"size", "sync_size"}
BY DEF CallsInv, Orderly, OneMover, Moves, Syncing

(* A client that pushes a task on the queue, the lists being served or empty. *)
LEMMA ServedPush ==
    ASSUME DispatchInv, NEW c \in Client, pc[c] \in {"push", "sync_push"}, role.verbs[c] \cap Moves # {},
           NEW to \in {"size", "sync_size"}, pc' = [pc EXCEPT ![c] = to],
           NEW task \in Task, mTasks' = Append(mTasks, task),
           UNCHANGED <<posts, lpc, role>>
    PROVE  Orderly => posts' # <<>> \/ lpc' # "idle" \/ \E d \in Client : WillPost(d)'
<1> SUFFICES ASSUME Orderly
             PROVE  posts' # <<>> \/ lpc' # "idle" \/ \E d \in Client : WillPost(d)'
  OBVIOUS
<1>1. /\ CallsInv /\ ServedInv /\ mTasks \in Seq(Task) /\ pc \in [Client -> ClientPC]
  BY DEF DispatchInv, TypeOK
<1>2. pc'[c] = to /\ \A d \in Client : d # c => pc'[d] = pc[d]
  BY <1>1
<1>3. CASE mTasks = <<>>
  <2>1. Len(mTasks') = 1
    BY <1>3
  <2> QED
    BY <1>2, <2>1 DEF WillPost, FirstImmediate
<1>4. CASE mTasks # <<>> /\ \E d \in Client : WillPost(d)
  <2>1. PICK d \in Client : WillPost(d)
    BY <1>4
  <2>2. d # c
    BY <2>1 DEF WillPost
  <2>3. pc[d] \in {"post", "repost", "sync_post"}
    BY <1>1, <2>1, <2>2, OnlyMover DEF WillPost
  <2> QED
    BY <1>2, <2>2, <2>3 DEF WillPost
<1> QED
  BY <1>1, <1>3, <1>4 DEF ServedInv

(* Every step leaves a queue with tasks served. *)
LEMMA ServedStep ==
    ASSUME DispatchInv, [Next]_vars
    PROVE  ServedInv'
<1>0. /\ TypeOK /\ CallsInv /\ ServedInv /\ ExitInv /\ PlacesInv
      /\ mTasks \in Seq(Task) /\ mTimedTasks \in Seq(Task) /\ pc \in [Client -> ClientPC]
      /\ posts \in Seq(Post) /\ now \in 0..MaxTime /\ now + 0 = now /\ now <= MaxTime
  BY BoundAssumption DEF DispatchInv, TypeOK
<1>s. mTasks \in Seq(Task) /\ mTimedTasks \in Seq(Task)
  BY <1>0
<1>t. \A t \in Task : t.when \in Int
  BY TaskFacts
<1> USE DEF lists, looperVars, clientVars, context, history
<1>1. ASSUME NEW c \in Client, Begin(c) \/ Continue(c)
      PROVE  ServedInv'
  <2>1. CASE DispatchPush(c)
    <3>2. PICK task : task = made[c]
      OBVIOUS
    <3>3. task \in Task
      <4>1. Making(c)
        BY <2>1 DEF DispatchPush, Goto, Making
      <4> QED
        BY <3>2, <4>1, MadeFacts
    <3>4. /\ pc[c] \in {"push", "sync_push"} /\ pc' = [pc EXCEPT ![c] = "size"]
          /\ role.verbs[c] \cap Moves # {}
          /\ UNCHANGED <<posts, lpc, role>>
      BY <2>1, <1>0 DEF DispatchPush, Goto, Moves, CallsInv, Syncing
    <3>5. mTasks' = Append(mTasks, task)
      BY <2>1, <3>2 DEF DispatchPush
    <3>6. Orderly => posts' # <<>> \/ lpc' # "idle" \/ \E d \in Client : WillPost(d)'
      BY <3>3, <3>4, <3>5, ServedPush
    <3> QED
      BY <3>4, <3>6 DEF ServedInv, Orderly, OneMover
  <2>2. CASE DispatchDelayed(c)
    <3>1. Goto(c, "insert", IF FirstTimed(mTasks, mTimedTasks, made[c])
                            THEN "post" ELSE "idle")
      BY <2>2 DEF DispatchDelayed
    <3>2. PICK task : task = made[c]
      OBVIOUS
    <3>3. task \in Task
      <4>1. Making(c)
        BY <3>1 DEF Goto, Making
      <4> QED
        BY <3>2, <4>1, MadeFacts
    <3>4. UNCHANGED <<mTasks, posts, lpc, role>>
      BY <2>2 DEF DispatchDelayed
    <3>5. CASE FirstTimed(mTasks, mTimedTasks, task)
      <4>1. pc'[c] = "post"
        BY <1>0, <3>1, <3>2, <3>5 DEF Goto
      <4> QED
        BY <4>1 DEF ServedInv, WillPost
    <3>6. CASE ~ FirstTimed(mTasks, mTimedTasks, task)
      <4>1. pc[c] = "insert" /\ pc' = [pc EXCEPT ![c] = "idle"]
        BY <1>0, <3>1, <3>2, <3>6 DEF Goto
      <4>2. mTasks # <<>> \/ mTimedTasks # <<>>
        <5>1. InsertIndex(mTimedTasks, task) \in 1..Len(mTimedTasks) + 1
          BY <1>s, <1>t, <3>3, IndexFacts
        <5>2. mTimedTasks = <<>> => InsertIndex(mTimedTasks, task) = 1
          BY <5>1, EmptyFacts
        <5> QED
          BY <3>6, <5>2 DEF FirstTimed
      <4>3. \A e \in Client : WillPost(e) => WillPost(e)'
        BY <1>0, <3>4, <4>1 DEF WillPost
      <4> QED
        BY <1>0, <3>4, <4>2, <4>3 DEF ServedInv, Orderly, OneMover
    <3> QED
      BY <3>5, <3>6
  <2>3. CASE SyncPush(c)
    <3>2. PICK task : task = made[c]
      OBVIOUS
    <3>3. task \in Task
      <4>1. Making(c)
        BY <2>3 DEF SyncPush, Goto, Making
      <4> QED
        BY <3>2, <4>1, MadeFacts
    <3>4. /\ pc[c] \in {"push", "sync_push"} /\ pc' = [pc EXCEPT ![c] = "sync_size"]
          /\ role.verbs[c] \cap Moves # {}
          /\ UNCHANGED <<posts, lpc, role>>
      BY <2>3, <1>0 DEF SyncPush, Goto, Moves, CallsInv, Syncing
    <3>5. mTasks' = Append(mTasks, task)
      BY <2>3, <3>2 DEF SyncPush
    <3>6. Orderly => posts' # <<>> \/ lpc' # "idle" \/ \E d \in Client : WillPost(d)'
      BY <3>3, <3>4, <3>5, ServedPush
    <3> QED
      BY <3>4, <3>6 DEF ServedInv, Orderly, OneMover
  <2>4. CASE ExistsJob(c)
    <3>1. /\ pc[c] = "idle" /\ role.verbs[c] \cap Moves # {} /\ UNCHANGED <<posts, lpc, role>>
          /\ \A e \in Client : e # c => pc'[e] = pc[e]
      BY <2>4, <1>0 DEF ExistsJob, Call, Goto, Moves
    <3>2. mTasks' = <<>>
      BY <2>4 DEF ExistsJob
    <3>3. mTimedTasks' # <<>> => mTasks # <<>> \/ mTimedTasks # <<>>
      <4>1. mTimedTasks' = Merged
        BY <2>4 DEF ExistsJob
      <4>2. Merged \in Seq(Task) /\ Tasks(Merged) = Tasks(mTasks) \cup Tasks(mTimedTasks)
        BY <1>0, MergedFacts
      <4> QED
        BY <4>1, <4>2, NoTasks, EmptyFacts
    <3> SUFFICES ASSUME Orderly, mTimedTasks' # <<>>, \E e \in Client : WillPost(e)
                 PROVE  \E e \in Client : WillPost(e)'
      BY <1>0, <3>1, <3>2, <3>3 DEF ServedInv, Orderly, OneMover
    <3>4. PICK e \in Client : WillPost(e)
      OBVIOUS
    <3>5. e # c
      BY <3>1, <3>4 DEF WillPost
    <3>6. pc[e] \in {"post", "repost", "sync_post"}
      BY <1>0, <3>1, <3>4, <3>5, OnlyMover DEF WillPost
    <3> QED
      BY <3>1, <3>5, <3>6 DEF WillPost
  <2>5. CASE RemoveJob(c)
    <3>1. /\ pc[c] = "idle" /\ role.verbs[c] \cap Moves # {} /\ UNCHANGED <<posts, lpc, role>>
          /\ \A e \in Client : e # c => pc'[e] = pc[e]
      BY <2>5, <1>0 DEF RemoveJob, Call, Goto, Moves
    <3>2. mTasks' = <<>>
      BY <2>5 DEF RemoveJob
    <3>3. mTimedTasks' # <<>> => mTasks # <<>> \/ mTimedTasks # <<>>
      <4>1. PICK job \in role.jobs : mTimedTasks' = WithoutJob(Merged, job)
        BY <2>5 DEF RemoveJob
      <4>2. PICK kept : kept = WithoutJob(Merged, job)
        OBVIOUS
      <4>3. Merged \in Seq(Task) /\ Tasks(Merged) = Tasks(mTasks) \cup Tasks(mTimedTasks)
        BY <1>0, MergedFacts
      <4>4. kept \in Seq(Task) /\ Tasks(kept) \subseteq Tasks(Merged)
        BY <4>2, <4>3, WithoutFacts
      <4> QED
        BY <4>1, <4>2, <4>3, <4>4, NoTasks, EmptyFacts
    <3> SUFFICES ASSUME Orderly, mTimedTasks' # <<>>, \E e \in Client : WillPost(e)
                 PROVE  \E e \in Client : WillPost(e)'
      BY <1>0, <3>1, <3>2, <3>3 DEF ServedInv, Orderly, OneMover
    <3>4. PICK e \in Client : WillPost(e)
      OBVIOUS
    <3>5. e # c
      BY <3>1, <3>4 DEF WillPost
    <3>6. pc[e] \in {"post", "repost", "sync_post"}
      BY <1>0, <3>1, <3>4, <3>5, OnlyMover DEF WillPost
    <3> QED
      BY <3>1, <3>5, <3>6 DEF WillPost
  <2>6. CASE Flush(c)
    <3>1. mTasks' = <<>> /\ mTimedTasks' = <<>>
      BY <2>6 DEF Flush
    <3> QED
      BY <3>1 DEF ServedInv
  <2>7. CASE Release(c)
    <3>1. /\ mTasks' = mTasks /\ mTimedTasks' = mTimedTasks /\ posts' = posts
          /\ lpc # "idle" => lpc' # "idle"
          /\ role' = role
      BY <2>7 DEF Release, Goto
    <3>2. \A e \in Client : WillPost(e) => WillPost(e)'
      BY <2>7, <1>0, <3>1 DEF Release, Goto, WillPost
    <3> QED
      BY <1>0, <3>1, <3>2, ServedFrame
  <2>8. CASE DispatchSize(c)
    <3>1. /\ mTasks' = mTasks /\ mTimedTasks' = mTimedTasks /\ posts' = posts
          /\ lpc # "idle" => lpc' # "idle"
          /\ role' = role
      BY <2>8 DEF DispatchSize, Goto
    <3>2. \A e \in Client : WillPost(e) => WillPost(e)'
      BY <2>8, <1>0, <3>1 DEF DispatchSize, Goto, WillPost
    <3> QED
      BY <1>0, <3>1, <3>2, ServedFrame
  <2>9. CASE PostDispatcher(c)
    <3>1. posts' = InsertTimed(posts, [when |-> now])
      BY <2>9, <1>0 DEF PostDispatcher, Posts
    <3>2. posts' # <<>>
      BY <1>0, <3>1, PostFacts
    <3> QED
      BY <3>2 DEF ServedInv
  <2>10. CASE Repost(c)
    <3>1. pc'[c] = "post"
      BY <2>10, <1>0 DEF Repost, Goto
    <3> QED
      BY <3>1 DEF ServedInv, WillPost
  <2>11. CASE SyncSize(c)
    <3>1. /\ mTasks' = mTasks /\ mTimedTasks' = mTimedTasks /\ posts' = posts
          /\ lpc # "idle" => lpc' # "idle"
          /\ role' = role
      BY <2>11 DEF SyncSize, Goto
    <3>2. \A e \in Client : WillPost(e) => WillPost(e)'
      BY <2>11, <1>0, <3>1 DEF SyncSize, Goto, WillPost
    <3> QED
      BY <1>0, <3>1, <3>2, ServedFrame
  <2>12. CASE SyncPost(c)
    <3>1. posts' = InsertTimed(posts, [when |-> now])
      BY <2>12, <1>0 DEF SyncPost, Posts
    <3>2. posts' # <<>>
      BY <1>0, <3>1, PostFacts
    <3> QED
      BY <3>2 DEF ServedInv
  <2>13. CASE SyncReturn(c)
    <3>1. /\ mTasks' = mTasks /\ mTimedTasks' = mTimedTasks /\ posts' = posts
          /\ lpc # "idle" => lpc' # "idle"
          /\ role' = role
      BY <2>13 DEF SyncReturn, Goto
    <3>2. \A e \in Client : WillPost(e) => WillPost(e)'
      BY <2>13, <1>0, <3>1 DEF SyncReturn, Goto, WillPost
    <3> QED
      BY <1>0, <3>1, <3>2, ServedFrame
  <2>14. CASE RequestExit(c)
    <3>1. /\ mTasks' = mTasks /\ mTimedTasks' = mTimedTasks /\ posts' = posts
          /\ lpc # "idle" => lpc' # "idle"
          /\ role' = role
      BY <2>14 DEF RequestExit, Goto
    <3>2. \A e \in Client : WillPost(e) => WillPost(e)'
      BY <2>14, <1>0, <3>1 DEF RequestExit, Goto, WillPost
    <3> QED
      BY <1>0, <3>1, <3>2, ServedFrame
  <2>15. CASE ExitCheck(c)
    <3>1. /\ mTasks' = mTasks /\ mTimedTasks' = mTimedTasks /\ posts' = posts
          /\ lpc # "idle" => lpc' # "idle"
          /\ role' = role
      BY <2>15 DEF ExitCheck, Goto
    <3>2. \A e \in Client : WillPost(e) => WillPost(e)'
      BY <2>15, <1>0, <3>1 DEF ExitCheck, Goto, WillPost
    <3> QED
      BY <1>0, <3>1, <3>2, ServedFrame
  <2>16. CASE Destroy(c)
    <3>1. pc[c] = "destroy" /\ UNCHANGED <<lists, role>>
      BY <2>16 DEF Destroy, Goto
    <3>2. ~role.spurious => Quiet
      BY <1>0, <3>1 DEF ExitInv
    <3> QED
      BY <3>1, <3>2 DEF ServedInv, Orderly, Quiet
  <2>17. CASE DispatchMake(c) \/ DelayMake(c) \/ SyncMake(c)
    <3>1. /\ pc[c] = "idle" /\ UNCHANGED <<mTasks, mTimedTasks, posts, lpc, role>>
          /\ \E place \in {"push", "insert", "sync_push"} : pc' = [pc EXCEPT ![c] = place]
      BY <2>17, MakeFacts
    <3>2. \A e \in Client : WillPost(e) => WillPost(e)'
      BY <1>0, <3>1 DEF WillPost
    <3> QED
      BY <1>0, <3>1, <3>2, ServedFrame
  <2> QED
    BY <1>1, <2>1, <2>2, <2>3, <2>4, <2>5, <2>6, <2>7, <2>8, <2>9, <2>10, <2>11, <2>12, <2>13, <2>14, <2>15, <2>16, <2>17 DEF Begin, Continue
<1>2. CASE LooperNext
  <2>1. CASE PopTimed
    <3>1. lpc' # "idle"
      BY <2>1 DEF PopTimed
    <3> QED
      BY <3>1 DEF ServedInv
  <2>2. CASE PopImmediate
    <3>1. lpc' # "idle"
      BY <2>2 DEF PopImmediate
    <3> QED
      BY <3>1 DEF ServedInv
  <2>3. CASE PopNothing
    <3>1. posts # <<>> /\ UNCHANGED lists
      BY <2>3 DEF PopNothing, OnJob, IsDue
    <3>2. Tail(posts) \in Seq(Post)
      BY <1>0, <3>1, TailFacts
    <3>3. ~ (mTasks = <<>> /\ mTimedTasks = <<>>) => posts' # <<>>
      BY <2>3, <1>0, <3>2, FinishFacts DEF PopNothing
    <3> QED
      BY <3>1, <3>3 DEF ServedInv
  <2>4. CASE RunTask
    <3>1. /\ mTasks' = mTasks /\ mTimedTasks' = mTimedTasks /\ posts' = posts
          /\ lpc # "idle" => lpc' # "idle"
          /\ role' = role
      BY <2>4 DEF RunTask
    <3>2. \A e \in Client : WillPost(e) => WillPost(e)'
      BY <2>4, <1>0, <3>1 DEF RunTask, WillPost
    <3> QED
      BY <1>0, <3>1, <3>2, ServedFrame
  <2>5. CASE AfterTask
    <3>1. UNCHANGED lists
      BY <2>5 DEF AfterTask
    <3>2. ~ (mTasks = <<>> /\ mTimedTasks = <<>>) => posts' # <<>>
      BY <2>5, <1>0, FinishFacts DEF AfterTask
    <3> QED
      BY <3>1, <3>2 DEF ServedInv
  <2> QED
    BY <1>2, <2>1, <2>2, <2>3, <2>4, <2>5 DEF LooperNext
<1>3. CASE SpuriousWakeup
  <2>1. /\ mTasks' = mTasks /\ mTimedTasks' = mTimedTasks /\ posts' = posts
        /\ lpc # "idle" => lpc' # "idle"
        /\ role' = role
    BY <1>3 DEF SpuriousWakeup
  <2>2. \A e \in Client : WillPost(e) => WillPost(e)'
    BY <1>3, <1>0, <2>1 DEF SpuriousWakeup, WillPost
  <2> QED
    BY <1>0, <2>1, <2>2, ServedFrame
<1>4. CASE Tick
  <2>1. /\ mTasks' = mTasks /\ mTimedTasks' = mTimedTasks /\ posts' = posts
        /\ lpc # "idle" => lpc' # "idle"
        /\ role' = role
    BY <1>4 DEF Tick
  <2>2. \A e \in Client : WillPost(e) => WillPost(e)'
    BY <1>4, <1>0, <2>1 DEF Tick, WillPost
  <2> QED
    BY <1>0, <2>1, <2>2, ServedFrame
<1>5. CASE UNCHANGED vars
  <2>1. /\ mTasks' = mTasks /\ mTimedTasks' = mTimedTasks /\ posts' = posts
        /\ lpc # "idle" => lpc' # "idle"
        /\ role' = role
    BY <1>5 DEF vars
  <2>2. \A e \in Client : WillPost(e) => WillPost(e)'
    BY <1>5, <1>0, <2>1 DEF vars, WillPost
  <2> QED
    BY <1>0, <2>1, <2>2, ServedFrame
<1> QED
  BY <1>1, <1>2, <1>3, <1>4, <1>5 DEF Next

-----------------------------------------------------------------------------
(* A step that posts no id but one of the client c, and leaves what others   *)
(* have made as it is.                                                       *)
LEMMA MadeFrame ==
    ASSUME MadeInv, NEW c, \A id \in posted' : id \in posted \/ id[1] = c,
           \A d \in Client : Making(d)' =>
               /\ d # c /\ Making(d) /\ pc'[d] = pc[d]
               /\ made'[d] = made[d] /\ calls'[d] = calls[d]
    PROVE  MadeInv'
<1> SUFFICES ASSUME NEW d \in Client, Making(d)'
             PROVE  /\ made'[d] \in Task /\ made'[d].id = <<d, calls'[d]>>
                    /\ made'[d].id \notin posted'
                    /\ made'[d].sync <=> pc'[d] = "sync_push"
  BY DEF MadeInv
<1>1. /\ d # c /\ Making(d) /\ pc'[d] = pc[d] /\ made'[d] = made[d] /\ calls'[d] = calls[d]
  OBVIOUS
<1>2. /\ made[d] \in Task /\ made[d].id = <<d, calls[d]>> /\ made[d].id \notin posted
      /\ made[d].sync <=> pc[d] = "sync_push"
  BY <1>1 DEF MadeInv
<1>3. made[d].id[1] = d
  BY <1>2
<1> QED
  BY <1>1, <1>2, <1>3

(* Every step keeps what is made and on no list. *)
LEMMA MadeStep ==
    ASSUME DispatchInv, [Next]_vars
    PROVE  MadeInv'
<1>0. MadeInv /\ pc \in [Client -> ClientPC] /\ made \in [Client -> Task \cup {None}]
      /\ calls \in [Client -> 0..MaxCalls]
  BY DEF DispatchInv, TypeOK
<1>1. ASSUME NEW c \in Client, DispatchMake(c) \/ DelayMake(c) \/ SyncMake(c)
      PROVE  MadeInv'
  <2>1. PICK task \in Task :
           /\ made' = [made EXCEPT ![c] = task]
           /\ task.id = <<c, calls[c] + 1>> /\ task.id \notin posted
           /\ \E place \in {"push", "insert", "sync_push"} :
                 /\ pc' = [pc EXCEPT ![c] = place]
                 /\ task.sync <=> place = "sync_push"
    BY <1>1, MakeFacts
  <2>2. calls' = [calls EXCEPT ![c] = calls[c] + 1] /\ posted' = posted
    BY <1>1, MakeFacts DEF history
  <2> SUFFICES ASSUME NEW d \in Client, Making(d)'
               PROVE  /\ made'[d] \in Task /\ made'[d].id = <<d, calls'[d]>>
                      /\ made'[d].id \notin posted'
                      /\ made'[d].sync <=> pc'[d] = "sync_push"
    BY DEF MadeInv
  <2>3. CASE d = c
    <3>1. /\ made'[d] = task /\ calls'[d] = calls[c] + 1
          /\ task.sync <=> pc'[d] = "sync_push"
      BY <1>0, <2>1, <2>2, <2>3
    <3> QED
      BY <2>1, <2>2, <2>3, <3>1
  <2>4. CASE d # c
    <3>1. made'[d] = made[d] /\ calls'[d] = calls[d] /\ pc'[d] = pc[d]
      BY <1>0, <2>1, <2>2, <2>4
    <3>2. Making(d)
      BY <3>1 DEF Making
    <3> QED
      BY <1>0, <2>2, <3>1, <3>2 DEF MadeInv
  <2> QED
    BY <2>3, <2>4
<1>2. ASSUME NEW c \in Client, DispatchPush(c) \/ DispatchDelayed(c) \/ SyncPush(c)
      PROVE  MadeInv'
  <2>1. /\ pc[c] \in {"push", "insert", "sync_push"}
        /\ pc'[c] \notin {"push", "insert", "sync_push"}
        /\ \A d \in Client : d # c => pc'[d] = pc[d] /\ made'[d] = made[d]
        /\ calls' = calls /\ posted' = posted \cup {made[c].id}
    BY <1>0, <1>2 DEF DispatchPush, DispatchDelayed, SyncPush, Queued, Goto
  <2>2. made[c].id[1] = c
    <3>1. made[c].id = <<c, calls[c]>>
      BY <1>0, <2>1 DEF MadeInv, Making
    <3> QED
      BY <3>1
  <2>3. \A id \in posted' : id \in posted \/ id[1] = c
    BY <2>1, <2>2
  <2>4. \A d \in Client : Making(d)' =>
            /\ d # c /\ Making(d) /\ pc'[d] = pc[d]
            /\ made'[d] = made[d] /\ calls'[d] = calls[d]
    BY <2>1 DEF Making
  <2> QED
    BY <1>0, <2>3, <2>4, MadeFrame
<1>3. ASSUME NEW c \in Client, Begin(c) \/ Continue(c),
             ~ (DispatchMake(c) \/ DelayMake(c) \/ SyncMake(c)),
             ~ (DispatchPush(c) \/ DispatchDelayed(c) \/ SyncPush(c))
      PROVE  MadeInv'
  <2>1. /\ posted' = posted /\ made' = made
        /\ pc[c] \notin {"push", "insert", "sync_push"}
        /\ pc'[c] \notin {"push", "insert", "sync_push"}
        /\ \A d \in Client : d # c => pc'[d] = pc[d] /\ calls'[d] = calls[d]
    BY <1>0, <1>3 DEF Begin, Continue, ExistsJob, RemoveJob, Flush, Release, DispatchSize,
       PostDispatcher, Repost, SyncSize, SyncPost, SyncReturn, RequestExit, ExitCheck,
       Destroy, Call, Goto, history
  <2>2. \A d \in Client : Making(d)' =>
            /\ d # c /\ Making(d) /\ pc'[d] = pc[d]
            /\ made'[d] = made[d] /\ calls'[d] = calls[d]
    BY <2>1 DEF Making
  <2> QED
    BY <1>0, <2>1, <2>2, MadeFrame
<1>4. CASE UNCHANGED <<clientVars, posted>>
  BY <1>0, <1>4 DEF MadeInv, Making, clientVars
<1>5. CASE LooperNext
  <2>1. UNCHANGED <<clientVars, posted>>
    BY <1>5 DEF LooperNext, PopTimed, PopImmediate, PopNothing, RunTask, AfterTask, history
  <2> QED
    BY <1>4, <2>1
<1>6. CASE SpuriousWakeup
  BY <1>4, <1>6 DEF SpuriousWakeup, history
<1>7. CASE Tick
  BY <1>4, <1>7 DEF Tick, history
<1>8. CASE UNCHANGED vars
  BY <1>4, <1>8 DEF vars, history
<1> QED
  BY <1>1, <1>2, <1>3, <1>5, <1>6, <1>7, <1>8 DEF Next

-----------------------------------------------------------------------------
(* The first state: nothing dispatched, and a reference for each client. *)
LEMMA DispatchInit ==
    ASSUME Init
    PROVE  DispatchInv
<1> USE DEF Init
<1>1. TypeOK
  <2>1. Cardinality(Client) \in Nat /\ Cardinality(Client) \in 0..Cardinality(Client)
    BY ClientAssumption, FS_CardinalityType
  <2>2. <<>> \in Seq(Task) /\ <<>> \in Seq(Post)
    BY EmptyFacts
  <2>3. 0 \in 0..MaxTime /\ 0 \in 0..MaxCalls
    BY BoundAssumption
  <2> QED
    BY <2>1, <2>2, <2>3 DEF TypeOK, ClientPC
<1>2. CallsInv
  BY ClientAssumption DEF CallsInv, Syncing
<1>3. SyncInv
  BY EmptyFacts DEF SyncInv, CurrentTask
<1>4. ExitInv
  <2>1. Holders = Client
    BY DEF Holders
  <2> QED
    BY <2>1 DEF ExitInv, Quiet
<1>5. PlacesInv
  BY EmptyFacts DEF PlacesInv, Running, Finished
<1>6. ServedInv
  BY DEF ServedInv
<1>7. MadeInv
  BY DEF MadeInv, Making
<1> QED
  BY <1>1, <1>2, <1>3, <1>4, <1>5, <1>6, <1>7 DEF DispatchInv

(* The inductive invariant: what the tasks, the posts of the dispatcher and  *)
(* the calls in progress say of each other holds in every reachable state.   *)
THEOREM DispatchSafe == Spec => []DispatchInv
<1>1. Init => DispatchInv
  BY DispatchInit
<1>2. DispatchInv /\ [Next]_vars => DispatchInv'
  <2> SUFFICES ASSUME DispatchInv, [Next]_vars
               PROVE  DispatchInv'
    OBVIOUS
  <2> QED
    BY TypeStep, CallsStep, MadeStep, SyncStep, ExitStep, PlacesStep, ServedStep DEF DispatchInv
<1> QED
  BY <1>1, <1>2, PTL DEF Spec

-----------------------------------------------------------------------------
(* Ids of calls are a finite set if those of the clients are counted. *)
LEMMA CancelledIsFinite ==
    ASSUME TypeOK
    PROVE  IsFiniteSet(cancelled) /\ Cardinality(cancelled) \in Nat
<1>1. IsFiniteSet(1..MaxCalls)
  BY BoundAssumption, FS_Interval
<1>2. IsFiniteSet(Id)
  BY <1>1, ClientAssumption, FS_Product DEF Id
<1> QED
  BY <1>2, FS_Subset, FS_CardinalityType DEF TypeOK

(* In a state where each id has one place the ids are as many as the tasks. *)
LEMMA PlacesCounted ==
    ASSUME TypeOK, PlacesInv
    PROVE  TasksConserved
<1>1. /\ mTasks \in Seq(Task) /\ mTimedTasks \in Seq(Task) /\ ran \in Seq(Task)
      /\ Distinct(mTasks) /\ Distinct(mTimedTasks) /\ Distinct(ran)
  BY DEF TypeOK, PlacesInv
<1>2. PICK Q : Q = Ids(mTasks)
  OBVIOUS
<1>3. PICK L : L = Ids(mTimedTasks)
  OBVIOUS
<1>4. PICK D : D = Ids(ran)
  OBVIOUS
<1>5. PICK X : X = cancelled
  OBVIOUS
<1>6. PICK R : R = Running
  OBVIOUS
<1>7. IsFiniteSet(Q) /\ Cardinality(Q) = Len(mTasks)
  BY <1>1, <1>2, CountIds
<1>8. IsFiniteSet(L) /\ Cardinality(L) = Len(mTimedTasks)
  BY <1>1, <1>3, CountIds
<1>9. IsFiniteSet(D) /\ Cardinality(D) = Len(ran)
  BY <1>1, <1>4, CountIds
<1>10. IsFiniteSet(X)
  BY <1>5, CancelledIsFinite
<1>11. IsFiniteSet(R)
  BY <1>6, FS_EmptySet, FS_Singleton DEF Running
<1>12. /\ posted = Q \cup L \cup R \cup (D \cup X)
       /\ Q \cap L = {} /\ R \cap (Q \cup L) = {} /\ D \cap X = {}
       /\ (D \cup X) \cap (Q \cup L \cup R) = {}
  BY <1>2, <1>3, <1>4, <1>5, <1>6 DEF PlacesInv, Finished
<1>13. /\ IsFiniteSet(Q \cup L) /\ Cardinality(Q \cup L) = Cardinality(Q) + Cardinality(L)
       /\ Cardinality(Q) \in Nat /\ Cardinality(L) \in Nat
  BY <1>7, <1>8, <1>12, CountBoth
<1>14. /\ IsFiniteSet(D \cup X) /\ Cardinality(D \cup X) = Cardinality(D) + Cardinality(X)
       /\ Cardinality(D) \in Nat /\ Cardinality(X) \in Nat
  BY <1>9, <1>10, <1>12, CountBoth
<1>15. /\ IsFiniteSet(Q \cup L \cup R)
       /\ Cardinality(Q \cup L \cup R) = Cardinality(Q \cup L) + Cardinality(R)
       /\ Cardinality(R) \in Nat
  <2>1. (Q \cup L) \cap R = {}
    BY <1>12
  <2> QED
    BY <1>11, <1>13, <2>1, CountBoth
<1>16. Cardinality(posted) = Cardinality(Q \cup L \cup R) + Cardinality(D \cup X)
  <2>1. (Q \cup L \cup R) \cap (D \cup X) = {}
    BY <1>12
  <2> QED
    BY <1>12, <1>14, <1>15, <2>1, CountBoth
<1>17. Cardinality(posted) = Len(mTasks) + Len(mTimedTasks) + Cardinality(Running)
                             + Len(ran) + Cardinality(cancelled)
  <2>1. Cardinality(posted) = (Cardinality(Q) + Cardinality(L)) + Cardinality(R)
                              + (Cardinality(D) + Cardinality(X))
    BY <1>13, <1>14, <1>15, <1>16
  <2> QED
    BY <1>5, <1>6, <1>7, <1>8, <1>9, <1>13, <1>14, <1>15, <2>1
<1> QED
  BY <1>17 DEF TasksConserved, PlacesInv

(* Who returns from sync was not waiting any more. *)
LEMMA SyncReturns ==
    ASSUME DispatchInv, [Next]_vars, NEW e \in Client, pc[e] = "sync_wait", pc'[e] = "idle"
    PROVE  e \notin waiting
<1>0. pc \in [Client -> ClientPC]
  BY DEF DispatchInv, TypeOK
<1> USE DEF lists, looperVars, clientVars, context, history
<1>1. ASSUME NEW c \in Client, Begin(c) \/ Continue(c)
      PROVE  e \notin waiting
  <2>1. CASE DispatchPush(c)
    BY <1>1, <2>1, <1>0 DEF DispatchPush, Call, Goto
  <2>2. CASE DispatchDelayed(c)
    BY <1>1, <2>2, <1>0 DEF DispatchDelayed, Call, Goto
  <2>3. CASE SyncPush(c)
    BY <1>1, <2>3, <1>0 DEF SyncPush, Call, Goto
  <2>4. CASE ExistsJob(c)
    BY <1>1, <2>4, <1>0 DEF ExistsJob, Call, Goto
  <2>5. CASE RemoveJob(c)
    BY <1>1, <2>5, <1>0 DEF RemoveJob, Call, Goto
  <2>6. CASE Flush(c)
    BY <1>1, <2>6, <1>0 DEF Flush, Call, Goto
  <2>7. CASE Release(c)
    BY <1>1, <2>7, <1>0 DEF Release, Goto
  <2>8. CASE DispatchSize(c)
    BY <1>1, <2>8, <1>0 DEF DispatchSize, Goto
  <2>9. CASE PostDispatcher(c)
    BY <1>1, <2>9, <1>0 DEF PostDispatcher, Goto
  <2>10. CASE Repost(c)
    BY <1>1, <2>10, <1>0 DEF Repost, Goto
  <2>11. CASE SyncSize(c)
    BY <1>1, <2>11, <1>0 DEF SyncSize, Goto
  <2>12. CASE SyncPost(c)
    BY <1>1, <2>12, <1>0 DEF SyncPost, Goto
  <2>13. CASE SyncReturn(c)
    BY <1>1, <2>13, <1>0 DEF SyncReturn, Goto
  <2>14. CASE RequestExit(c)
    BY <1>1, <2>14, <1>0 DEF RequestExit, Goto
  <2>15. CASE ExitCheck(c)
    BY <1>1, <2>15, <1>0 DEF ExitCheck, Goto
  <2>16. CASE Destroy(c)
    BY <1>1, <2>16, <1>0 DEF Destroy, Goto
  <2>17. CASE DispatchMake(c) \/ DelayMake(c) \/ SyncMake(c)
    <3>1. /\ pc[c] = "idle"
          /\ \E place \in {"push", "insert", "sync_push"} : pc' = [pc EXCEPT ![c] = place]
      BY <2>17, MakeFacts
    <3> QED
      BY <1>0, <3>1
  <2> QED
    BY <1>1, <2>1, <2>2, <2>3, <2>4, <2>5, <2>6, <2>7, <2>8, <2>9, <2>10, <2>11, <2>12, <2>13, <2>14, <2>15, <2>16, <2>17 DEF Begin, Continue
<1>2. CASE LooperNext
  <2>1. CASE PopTimed
    BY <2>1, <1>0 DEF PopTimed, Goto
  <2>2. CASE PopImmediate
    BY <2>2, <1>0 DEF PopImmediate, Goto
  <2>3. CASE PopNothing
    BY <2>3, <1>0 DEF PopNothing, Goto
  <2>4. CASE RunTask
    BY <2>4, <1>0 DEF RunTask, Goto
  <2>5. CASE AfterTask
    BY <2>5, <1>0 DEF AfterTask, Goto
  <2> QED
    BY <1>2, <2>1, <2>2, <2>3, <2>4, <2>5 DEF LooperNext
<1>3. CASE SpuriousWakeup
  BY <1>3, <1>0 DEF SpuriousWakeup, Goto
<1>4. CASE Tick
  BY <1>4, <1>0 DEF Tick, Goto
<1>5. CASE UNCHANGED vars
  BY <1>5, <1>0 DEF vars
<1> QED
  BY <1>1, <1>2, <1>3, <1>4, <1>5 DEF Next

(* Every variable has its type; the count of references is never negative   *)
(* nor more than the clients.                                               *)
THEOREM TypeCorrect == Spec => []TypeOK
<1>1. DispatchInv => TypeOK
  BY DEF DispatchInv
<1> QED
  BY <1>1, DispatchSafe, PTL

(* A task dispatched is on a list, running, run or cancelled, once: merge_l, *)
(* sort, the pops, remove and flush lose none and double none.               *)
THEOREM TasksAreConserved == Spec => []TasksConserved
<1>1. DispatchInv => TasksConserved
  BY PlacesCounted DEF DispatchInv
<1> QED
  BY <1>1, DispatchSafe, PTL

(* A queue with tasks has its dispatcher on the looper, or running, or about *)
(* to be posted, if no client moves tasks while another one dispatches.      *)
THEOREM QueueServed == Spec => []QueueIsServed
<1>1. DispatchInv => QueueIsServed
  <2> SUFFICES ASSUME DispatchInv, Orderly, mTasks \o mTimedTasks # <<>>
               PROVE  posts # <<>> \/ lpc # "idle" \/ \E c \in Client : WillPost(c)
    BY DEF QueueIsServed, WillPost
  <2>1. mTasks \in Seq(Task) /\ mTimedTasks \in Seq(Task)
    BY DEF DispatchInv, TypeOK
  <2>2. mTasks # <<>> \/ mTimedTasks # <<>>
    BY <2>1
  <2> QED
    BY <2>2 DEF DispatchInv, ServedInv
<1> QED
  BY <1>1, DispatchSafe, PTL

(* sync returns only after its task has run, unless a wait has returned for *)
(* no reason.                                                               *)
THEOREM SyncAfterRun == Spec => SyncMeansRun
<1>1. DispatchInv /\ [Next]_vars =>
         [\A c \in Client : ~role.spurious /\ pc[c] = "sync_wait" /\ pc'[c] = "idle"
                             => <<c, calls[c]>> \in Ids(ran)]_vars
  BY SyncReturns DEF DispatchInv, SyncInv
<1> QED
  BY <1>1, DispatchSafe, PTL DEF Spec, SyncMeansRun

(* As long as no wait returns for no reason, the dispatcher signals no      *)
(* Condition of a sync that has returned, whatever tasks other clients      *)
(* merge, remove or flush meanwhile.                                        *)
THEOREM SignalsSafe == Spec => []SignalsFindTheirSync
<1>1. DispatchInv => SignalsFindTheirSync
  BY DEF DispatchInv, SyncInv, SignalsFindTheirSync
<1> QED
  BY <1>1, DispatchSafe, PTL

(* When the last reference is gone and the queue destroyed, every task has  *)
(* run or was cancelled and the dispatcher is neither running nor on the    *)
(* looper; and requestExit finds mDispatching reset when it wakes.          *)
THEOREM ExitRunsAll == Spec => []ExitDrains
<1>1. DispatchInv => ExitDrains
  BY EmptyFacts DEF DispatchInv, ExitInv, CallsInv, PlacesInv, ExitDrains, Quiet, Running
<1> QED
  BY <1>1, DispatchSafe, PTL
=============================================================================
