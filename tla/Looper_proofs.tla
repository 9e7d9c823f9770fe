---------------------------- MODULE Looper_proofs ----------------------------
(***************************************************************************)
(* Theorems about Looper for every set of clients, jobs and delays, every  *)
(* bound and every scenario.                                               *)
(***************************************************************************)
EXTENDS Looper, JobDispatcher_proofs

Merging(c) == pc[c] \in {"merge_remove", "merge_exists"}

\* A client that has made a task and not yet put it on a list.
Making(c) == pc[c] \in {"push", "insert"}

\* Clients that have not dropped their reference.
Holders == {c \in Client : pc[c] \notin {"last", "wait_exit", "gone"}}

\* The reference that the job of the task out of the lists has, or has taken.
Taken == IF \/ lpc = "run" /\ JobHolds = "own"
            \/ lpc = "drop" /\ JobHolds # "none"
         THEN 1 ELSE 0

\* The task that has been popped and has not run.
RunningTask == IF lpc = "run" THEN {current} ELSE {}

\* What a step of one thread finds of the others' while they are inside a call.
CallsInv ==
    /\ lpc = "run" => current \in Task
    /\ \A c \in Client : taskLock = c <=> Merging(c)
    /\ \A c \in Client : pc[c] = "size" => "post" \in role[c].verbs
    /\ \A c \in Client : Merging(c) => role[c].verbs \cap {"exists", "remove"} # {}

\* A reference is a client's, or of a job on a list, or of the job that runs.
RefsInv ==
    mRefs = Cardinality(Holders) + Held(Len(mTasks) + Len(mTimedTasks)) + Taken

\* Once the last client has dropped its reference nobody begins a call, and the
\* looper leaves its loop with both lists empty.
ExitInv ==
    /\ mRequestExit \/ (\E c \in Client : pc[c] \in {"last", "wait_exit"}) => Holders = {}
    /\ lpc \in {"exit", "done"} => mRequestExit /\ mTasks = <<>> /\ mTimedTasks = <<>>
    /\ mTerminated => lpc = "done"
    /\ \A c \in waiting : c # looper => pc[c] = "wait_exit"

\* Every id posted is in one place, once; a client's next id is a new one.
PlacesInv ==
    /\ Distinct(mTasks) /\ Distinct(mTimedTasks) /\ Distinct(ran)
    /\ posted = Ids(mTasks) \cup Ids(mTimedTasks) \cup Running \cup Finished
    /\ Ids(mTasks) \cap Ids(mTimedTasks) = {}
    /\ Running \cap (Ids(mTasks) \cup Ids(mTimedTasks)) = {}
    /\ Finished \cap (Ids(mTasks) \cup Ids(mTimedTasks) \cup Running) = {}
    /\ Ids(ran) \cap cancelled = {}
    /\ \A id \in posted : id[2] <= calls[id[1]]

\* The jobs that a client posted without a delay: those of S were posted no
\* later than those of U.
PostedBefore(S, U) ==
    \A s \in S, u \in U :
        s.delay = 0 /\ u.delay = 0 /\ s.id[1] = u.id[1] => s.when <= u.when

\* All tasks there are, wherever they are.
AllTasks == Tasks(mTasks) \cup Tasks(mTimedTasks) \cup RunningTask \cup Tasks(ran)

\* No task without a delay appears but by a push.
Kept == \A t \in AllTasks' :
           t.delay = 0 => t \in AllTasks \/ \E c \in Client : PostPush(c) /\ t = arg[c]

\* A task that is made and on no list: its id is new, and it is no older than
\* those its client has posted before.
MadeInv ==
    \A c \in Client : Making(c) =>
        /\ arg[c] \in Task /\ arg[c].id = <<c, calls[c]>> /\ arg[c].id \notin posted
        /\ pc[c] = "insert" => arg[c].delay # 0
        /\ pc[c] = "push" =>
              /\ arg[c].delay = 0 /\ arg[c].when <= now /\ "post" \in role[c].verbs
              /\ \A t \in AllTasks :
                    t.delay = 0 /\ t.id[1] = c => t.when <= arg[c].when

\* A task without delay goes from the queue, maybe through the list, to the run,
\* and at each place those ahead of it were posted no later.
OrderInv ==
    /\ InOrder(mTasks)
    /\ taskLock = None => IsSortedByTime(mTimedTasks)
    /\ \A t \in Tasks(mTasks) \cup Tasks(mTimedTasks) \cup RunningTask \cup Tasks(ran) :
          t.delay = 0 => t.when <= now
    /\ PostedBefore(Tasks(mTimedTasks), Tasks(mTasks))
    /\ PostedBefore(RunningTask, Tasks(mTasks) \cup Tasks(mTimedTasks))
    /\ PostedBefore(Tasks(ran), RunningTask \cup Tasks(mTasks) \cup Tasks(mTimedTasks))
    /\ InOrder(ran)

\* WorkIsNoticed, also while a merge has left the list out of order.
NoticeInv ==
    OneMover /\ looper \in waiting =>
        \/ \E c \in Client : Waking(c)
        \/ /\ mTasks = <<>>
           /\ mTimedTasks # <<>> => deadline # Never
           /\ \A t \in Tasks(mTimedTasks) : deadline <= t.when

LooperInv ==
    TypeOK /\ CallsInv /\ RefsInv /\ ExitInv /\ PlacesInv /\ MadeInv /\ OrderInv /\ NoticeInv

-----------------------------------------------------------------------------
(* What a task and its fields are. *)
LEMMA TaskFacts ==
    /\ \A t \in Task : t.id \in Id /\ t.when \in 0..MaxTime /\ t.when \in Int
    /\ 0..MaxTime \subseteq Int /\ Never \notin 0..MaxTime
BY BoundAssumption DEF Task, Never

(* A call of post makes a task, with an id that is new. *)
LEMMA MakeFacts ==
    ASSUME LooperInv, NEW c \in Client, MakePost(c) \/ MakeDelayed(c)
    PROVE  /\ pc[c] = "idle" /\ calls' = [calls EXCEPT ![c] = calls[c] + 1]
           /\ calls[c] + 1 \in 1..MaxCalls
           /\ UNCHANGED <<lists, flags, waiting, looperVars, mRefs, context, history>>
           /\ \E task \in Task :
                 /\ arg' = [arg EXCEPT ![c] = task]
                 /\ task.id = <<c, calls[c] + 1>> /\ task.id \notin posted
                 /\ \/ /\ pc' = [pc EXCEPT ![c] = "push"]
                       /\ task.delay = 0 /\ task.when = now /\ "post" \in role[c].verbs
                    \/ pc' = [pc EXCEPT ![c] = "insert"] /\ task.delay # 0
<1> USE BoundAssumption, DelayAssumption, RolesAssumption DEF LooperInv
<1>1. calls[c] \in 0..MaxCalls /\ role[c].calls \in 0..MaxCalls /\ calls[c] < role[c].calls
  BY DEF TypeOK, MakePost, MakeDelayed, MakeTask, Call
<1>2. calls[c] + 1 \in 1..MaxCalls
  BY <1>1
<1>3. <<c, calls[c] + 1>> \in Id
  BY <1>2 DEF Id
<1>4. <<c, calls[c] + 1>> \notin posted
  <2>1. <<c, calls[c] + 1>>[1] = c /\ <<c, calls[c] + 1>>[2] = calls[c] + 1
    OBVIOUS
  <2>2. ~ (calls[c] + 1 <= calls[c])
    BY <1>1
  <2> QED
    BY <2>1, <2>2 DEF PlacesInv
<1>5. ASSUME NEW job \in Job, NEW d \in Delay \cup {0}, now + d <= MaxTime
      PROVE  /\ NewTask(c, job, d) \in Task
             /\ NewTask(c, job, d).id = <<c, calls[c] + 1>>
             /\ NewTask(c, job, d).delay = d /\ NewTask(c, job, d).when = now + d
  <2>1. now + d \in 0..MaxTime
    BY <1>5 DEF TypeOK
  <2> QED
    BY <1>3, <2>1 DEF NewTask, Task
<1>6. /\ pc[c] = "idle" /\ calls' = [calls EXCEPT ![c] = calls[c] + 1]
      /\ UNCHANGED <<lists, flags, waiting, looperVars, mRefs, context, history>>
  BY DEF MakePost, MakeDelayed, MakeTask, Call, Goto
<1>7. CASE MakePost(c)
  <2>1. PICK job \in Job, d \in {0} :
           now + d <= MaxTime /\ arg' = [arg EXCEPT ![c] = NewTask(c, job, d)]
    BY <1>7 DEF MakePost, MakeTask
  <2>2. d \in Delay \cup {0} /\ d = 0 /\ now + d = now
    BY DEF TypeOK
  <2>3. pc' = [pc EXCEPT ![c] = "push"] /\ "post" \in role[c].verbs
    BY <1>7 DEF MakePost, MakeTask, Goto, Call
  <2>4. PICK task : task = NewTask(c, job, d)
    OBVIOUS
  <2>5. /\ task \in Task /\ task.id = <<c, calls[c] + 1>>
        /\ task.delay = 0 /\ task.when = now
    BY <1>5, <2>1, <2>2, <2>4
  <2> QED
    BY <1>2, <1>4, <1>6, <2>1, <2>3, <2>4, <2>5
<1>8. CASE MakeDelayed(c)
  <2>1. PICK job \in Job, d \in Delay :
           now + d <= MaxTime /\ arg' = [arg EXCEPT ![c] = NewTask(c, job, d)]
    BY <1>8 DEF MakeDelayed, MakeTask
  <2>2. d \in Delay \cup {0} /\ d # 0
    OBVIOUS
  <2>3. pc' = [pc EXCEPT ![c] = "insert"]
    BY <1>8 DEF MakeDelayed, MakeTask, Goto
  <2>4. PICK task : task = NewTask(c, job, d)
    OBVIOUS
  <2>5. task \in Task /\ task.id = <<c, calls[c] + 1>> /\ task.delay # 0
    BY <1>5, <2>1, <2>2, <2>4
  <2> QED
    BY <1>2, <1>4, <1>6, <2>1, <2>3, <2>4, <2>5
<1> QED
  BY <1>7, <1>8

-----------------------------------------------------------------------------
(* Every step keeps the lists sequences of tasks. *)
LEMMA ListsStep ==
    ASSUME LooperInv, [Next]_vars
    PROVE  mTasks' \in Seq(Task) /\ mTimedTasks' \in Seq(Task) /\ ran' \in Seq(Task)
<1> USE TaskFacts DEF LooperInv, TypeOK, lists, history
<1>1. ASSUME NEW c \in Client, Begin(c) \/ Continue(c)
      PROVE  mTasks' \in Seq(Task) /\ mTimedTasks' \in Seq(Task) /\ ran' \in Seq(Task)
  <2>1. CASE PostPush(c)
    <3>1. arg[c] \in Task
      BY <2>1 DEF PostPush, Goto, MadeInv, Making
    <3> QED
      BY <2>1, <3>1, AppendFacts DEF PostPush
  <2>2. CASE PostSize(c)
    BY <1>1, <2>2 DEF PostSize
  <2>3. CASE PostDelayed(c)
    <3>1. arg[c] \in Task
      BY <2>3 DEF PostDelayed, Goto, MadeInv, Making
    <3> QED
      BY <2>3, <3>1, InsertFacts DEF PostDelayed
  <2>4. CASE Signal(c)
    BY <1>1, <2>4 DEF Signal
  <2>5. CASE BeginRemove(c)
    BY <1>1, <2>5 DEF BeginRemove, BeginMerge, Call
  <2>6. CASE BeginExists(c)
    BY <1>1, <2>6 DEF BeginExists, BeginMerge, Call
  <2>7. CASE MergeOne(c)
    <3>1. Head(mTasks) \in Task /\ Tail(mTasks) \in Seq(Task)
      BY <2>7, TailFacts DEF MergeOne
    <3>2. <<Head(mTasks)>> \in Seq(Task)
      BY <3>1
    <3>3. <<Head(mTasks)>> \o mTimedTasks \in Seq(Task)
      BY <3>2, ConcatFacts
    <3> QED
      BY <2>7, <3>1, <3>3 DEF MergeOne
  <2>8. CASE EndRemove(c)
    <3>1. SortByTime(mTimedTasks) \in Seq(Task)
      BY SortFacts
    <3>2. WithoutJob(SortByTime(mTimedTasks), arg[c]) \in Seq(Task)
      BY <3>1, WithoutFacts
    <3> QED
      BY <2>8, <3>2 DEF EndRemove
  <2>9. CASE EndExists(c)
    BY <1>1, <2>9, SortFacts DEF EndExists
  <2>10. CASE Flush(c)
    BY <1>1, <2>10, EmptyFacts DEF Flush
  <2>11. CASE Release(c)
    BY <1>1, <2>11 DEF Release
  <2>12. CASE RequestExit(c)
    BY <1>1, <2>12 DEF RequestExit
  <2>13. CASE AwaitExit(c)
    BY <1>1, <2>13 DEF AwaitExit
  <2>14. CASE MakePost(c) \/ MakeDelayed(c)
    BY <2>14, MakeFacts
  <2> QED
    BY <1>1, <2>1, <2>2, <2>3, <2>4, <2>5, <2>6, <2>7, <2>8, <2>9, <2>10, <2>11, <2>12, <2>13, <2>14 DEF Begin, Continue
<1>2. CASE LooperNext
  <2>1. CASE PopTimed
    <3>1. Tail(mTimedTasks) \in Seq(Task)
      BY <2>1, TailFacts DEF PopTimed, IsDue
    <3> QED
      BY <2>1, <3>1 DEF PopTimed
  <2>2. CASE PopImmediate
    <3>1. Tail(mTasks) \in Seq(Task)
      BY <2>2, TailFacts DEF PopImmediate
    <3> QED
      BY <2>2, <3>1 DEF PopImmediate
  <2>3. CASE SleepUntilDue
    BY <2>3 DEF SleepUntilDue
  <2>4. CASE SleepIdle
    BY <2>4 DEF SleepIdle
  <2>5. CASE LeaveLoop
    BY <2>5 DEF LeaveLoop
  <2>6. CASE Timeout
    BY <2>6 DEF Timeout
  <2>7. CASE RunJob
    BY <2>7, AppendFacts DEF RunJob, CallsInv
  <2>8. CASE DropTask
    BY <2>8 DEF DropTask
  <2>9. CASE Terminate
    BY <2>9 DEF Terminate
  <2> QED
    BY <1>2, <2>1, <2>2, <2>3, <2>4, <2>5, <2>6, <2>7, <2>8, <2>9 DEF LooperNext
<1>3. CASE SpuriousWakeup
  BY <1>3 DEF SpuriousWakeup
<1>4. CASE Tick
  BY <1>4 DEF Tick
<1>5. CASE UNCHANGED vars
  BY <1>5 DEF vars
<1> QED
  BY <1>1, <1>2, <1>3, <1>4, <1>5 DEF Next

-----------------------------------------------------------------------------
(* The clients that hold a reference are a finite set, and a client leaves *)
(* it when it gives its reference up.                                      *)
LEMMA HoldersFacts ==
    ASSUME TypeOK
    PROVE  /\ IsFiniteSet(Holders) /\ Cardinality(Holders) \in Nat
           /\ \A c \in Holders : /\ Cardinality(Holders \ {c}) = Cardinality(Holders) - 1
                                /\ Cardinality(Holders) >= 1
<1>1. Holders \in SUBSET Client
  BY DEF Holders
<1>2. IsFiniteSet(Holders) /\ Cardinality(Holders) \in Nat
  BY <1>1, ClientAssumption, FS_Subset, FS_CardinalityType
<1>3. ASSUME NEW c \in Holders
      PROVE  /\ Cardinality(Holders \ {c}) = Cardinality(Holders) - 1
             /\ Cardinality(Holders) >= 1
  BY <1>2, FS_RemoveElement, FS_EmptySet
<1> QED
  BY <1>2, <1>3

(* The lists have a length. *)
LEMMA LengthFacts ==
    ASSUME TypeOK
    PROVE  Len(mTasks) \in Nat /\ Len(mTimedTasks) \in Nat
BY LenProperties DEF TypeOK

(* A step that puts d tasks on the lists takes the references of d tasks. *)
LEMMA RefsMove ==
    ASSUME LooperInv, Holders' = Holders, Taken' = Taken, NEW d \in Int,
           Len(mTasks') \in Nat, Len(mTimedTasks') \in Nat,
           Len(mTasks') + Len(mTimedTasks') = Len(mTasks) + Len(mTimedTasks) + d,
           mRefs' = mRefs + Held(d)
    PROVE  RefsInv' /\ mRefs' \in Nat
<1>1. PICK h : h = Cardinality(Holders) /\ h = Cardinality(Holders')
  OBVIOUS
<1>2. PICK t : t = Taken /\ t = Taken'
  OBVIOUS
<1>3. PICK m : m = Len(mTasks) + Len(mTimedTasks)
  OBVIOUS
<1>4. h \in Nat /\ t \in Nat /\ m \in Nat /\ mRefs \in Nat
  BY <1>1, <1>2, <1>3, HoldersFacts, LengthFacts, SMTT(30) DEF LooperInv, TypeOK, Taken
<1>5. mRefs = h + Held(m) + t
  BY <1>1, <1>2, <1>3 DEF LooperInv, RefsInv
<1>6. m + d \in Nat /\ Held(m + d) = Held(m) + Held(d) /\ Held(m) \in Int /\ Held(d) \in Int
      /\ Held(m + d) \in Nat
  BY <1>3, <1>4 DEF Held
<1>7. mRefs' = h + Held(m + d) + t
  <2>1. PICK a, b : a = Held(m) /\ b = Held(d)
    OBVIOUS
  <2>2. mRefs' = (h + a + t) + b /\ Held(m + d) = a + b /\ a \in Int /\ b \in Int
    BY <1>5, <1>6, <2>1
  <2> QED
    BY <1>4, <2>2
<1>8. RefsInv' <=> mRefs' = h + Held(m + d) + t
  BY <1>1, <1>2, <1>3 DEF RefsInv, Held
<1> QED
  BY <1>4, <1>6, <1>7, <1>8, SMTT(30)

(* A step that moves no reference. *)
LEMMA RefsFrame ==
    ASSUME LooperInv, Holders' = Holders, mRefs' = mRefs, Taken' = Taken,
           Len(mTasks') \in Nat, Len(mTimedTasks') \in Nat,
           Len(mTasks') + Len(mTimedTasks') = Len(mTasks) + Len(mTimedTasks)
    PROVE  RefsInv' /\ mRefs' \in Nat
<1>1. Len(mTasks') + Len(mTimedTasks') = Len(mTasks) + Len(mTimedTasks) + 0
  BY LengthFacts DEF LooperInv
<1>2. Held(0) = 0 /\ mRefs' = mRefs + Held(0)
  BY DEF LooperInv, TypeOK, Held
<1> QED
  BY <1>1, <1>2, RefsMove

(* Every step keeps the count of references. *)
LEMMA RefsStep ==
    ASSUME LooperInv, [Next]_vars
    PROVE  RefsInv' /\ mRefs' \in Nat
<1> DEFINE n == Len(mTasks) + Len(mTimedTasks)
<1>0. Len(mTasks') \in Nat /\ Len(mTimedTasks') \in Nat
  BY ListsStep, LenProperties
<1>h. /\ Len(mTasks) \in Nat /\ Len(mTimedTasks) \in Nat
      /\ Cardinality(Holders) \in Nat
      /\ \A c \in Holders : /\ Cardinality(Holders \ {c}) = Cardinality(Holders) - 1
                           /\ Cardinality(Holders) >= 1
      /\ n \in Nat /\ mRefs \in Nat
  <2>1. TypeOK
    BY DEF LooperInv
  <2>2. mRefs \in Nat
    BY <2>1 DEF TypeOK
  <2> QED
    BY <2>1, <2>2, HoldersFacts, LengthFacts
<1> USE JobHoldsAssumption
    DEF LooperInv, TypeOK, lists, flags, looperVars, clientVars, context
<1>1. ASSUME NEW c \in Client, Begin(c) \/ Continue(c)
      PROVE  RefsInv' /\ mRefs' \in Nat
  <2>1. CASE PostPush(c)
    <3>1. Holders' = Holders /\ Taken' = Taken
      BY <2>1 DEF PostPush, Goto, Holders, Taken
    <3>2. Len(mTasks') + Len(mTimedTasks') = n + 1
      <4>1. arg[c] \in Task
        BY <2>1 DEF PostPush, Goto, MadeInv, Making
      <4>2. Len(mTasks') = Len(mTasks) + 1
        BY <2>1, <4>1, AppendFacts DEF PostPush
      <4>3. mTimedTasks' = mTimedTasks
        BY <2>1 DEF PostPush
      <4> QED
        BY <4>2, <4>3
    <3>3. mRefs' = mRefs + Held(1)
      BY <2>1 DEF PostPush, Posted
    <3> QED
      BY <1>0, <1>h, <3>1, <3>2, <3>3, RefsMove
  <2>2. CASE PostSize(c)
    <3>1. Holders' = Holders
      BY <2>2 DEF PostSize, Holders, Goto
    <3>2. mRefs' = mRefs /\ Taken' = Taken
      BY <2>2 DEF PostSize, Taken, Goto
    <3>3. mTasks' = mTasks /\ mTimedTasks' = mTimedTasks
      BY <2>2 DEF PostSize
    <3> QED
      BY <1>0, <1>h, <3>1, <3>2, <3>3, RefsFrame
  <2>3. CASE PostDelayed(c)
    <3>1. Holders' = Holders /\ Taken' = Taken
      BY <2>3 DEF PostDelayed, Goto, Holders, Taken
    <3>2. Len(mTasks') + Len(mTimedTasks') = n + 1
      <4>1. arg[c] \in Task
        BY <2>3 DEF PostDelayed, Goto, MadeInv, Making
      <4>2. Len(mTimedTasks') = Len(mTimedTasks) + 1
        BY <2>3, <4>1, TaskFacts, InsertFacts DEF PostDelayed
      <4>3. mTasks' = mTasks
        BY <2>3 DEF PostDelayed
      <4> QED
        BY <4>2, <4>3
    <3>3. mRefs' = mRefs + Held(1)
      BY <2>3 DEF PostDelayed, Posted
    <3> QED
      BY <1>0, <1>h, <3>1, <3>2, <3>3, RefsMove
  <2>4. CASE Signal(c)
    <3>1. Holders' = Holders
      BY <2>4 DEF Signal, Holders, Goto
    <3>2. mRefs' = mRefs /\ Taken' = Taken
      BY <2>4 DEF Signal, Taken, Goto
    <3>3. mTasks' = mTasks /\ mTimedTasks' = mTimedTasks
      BY <2>4 DEF Signal
    <3> QED
      BY <1>0, <1>h, <3>1, <3>2, <3>3, RefsFrame
  <2>5. CASE BeginRemove(c)
    <3>1. Holders' = Holders
      BY <2>5 DEF BeginRemove, BeginMerge, Call, Holders, Goto
    <3>2. mRefs' = mRefs /\ Taken' = Taken
      BY <2>5 DEF BeginRemove, BeginMerge, Call, Taken, Goto
    <3>3. mTasks' = mTasks /\ mTimedTasks' = mTimedTasks
      BY <2>5 DEF BeginRemove, BeginMerge, Call
    <3> QED
      BY <1>0, <1>h, <3>1, <3>2, <3>3, RefsFrame
  <2>6. CASE BeginExists(c)
    <3>1. Holders' = Holders
      BY <2>6 DEF BeginExists, BeginMerge, Call, Holders, Goto
    <3>2. mRefs' = mRefs /\ Taken' = Taken
      BY <2>6 DEF BeginExists, BeginMerge, Call, Taken, Goto
    <3>3. mTasks' = mTasks /\ mTimedTasks' = mTimedTasks
      BY <2>6 DEF BeginExists, BeginMerge, Call
    <3> QED
      BY <1>0, <1>h, <3>1, <3>2, <3>3, RefsFrame
  <2>7. CASE MergeOne(c)
    <3>1. Holders' = Holders /\ Taken' = Taken /\ mRefs' = mRefs
      BY <2>7 DEF MergeOne, Holders, Taken
    <3>2. Head(mTasks) \in Task /\ Len(Tail(mTasks)) = Len(mTasks) - 1
      BY <2>7, TailFacts DEF MergeOne
    <3>3. <<Head(mTasks)>> \in Seq(Task) /\ Len(<<Head(mTasks)>>) = 1
      BY <3>2
    <3>4. Len(<<Head(mTasks)>> \o mTimedTasks) = 1 + Len(mTimedTasks)
      BY <3>3, ConcatFacts
    <3>5. mTasks' = Tail(mTasks) /\ mTimedTasks' = <<Head(mTasks)>> \o mTimedTasks
      BY <2>7 DEF MergeOne
    <3> QED
      BY <1>0, <1>h, <3>1, <3>2, <3>4, <3>5, RefsFrame
  <2>8. CASE EndRemove(c)
    <3>1. Holders' = Holders /\ Taken' = Taken
      BY <2>8 DEF EndRemove, Goto, Holders, Taken
    <3>2. PICK sorted : sorted = SortByTime(mTimedTasks)
      OBVIOUS
    <3>3. PICK kept : kept = WithoutJob(sorted, arg[c])
      OBVIOUS
    <3>4. sorted \in Seq(Task) /\ Len(sorted) = Len(mTimedTasks)
      BY <3>2, TaskFacts, SortFacts
    <3>5. kept \in Seq(Task) /\ Len(kept) <= Len(sorted)
      BY <3>3, <3>4, WithoutFacts
    <3>6. Len(kept) \in Nat /\ Len(sorted) \in Nat
      BY <3>4, <3>5, LenProperties
    <3>7. mRefs' = mRefs - Held(Len(sorted) - Len(kept)) /\ mTimedTasks' = kept /\ mTasks' = mTasks
      BY <2>8, <3>2, <3>3 DEF EndRemove
    <3> HIDE DEF LooperInv, TypeOK
    <3>8. PICK d \in Int : d = Len(kept) - Len(sorted)
      BY <3>6
    <3>9. Len(mTasks') + Len(mTimedTasks') = Len(mTasks) + Len(mTimedTasks) + d
      BY <1>h, <3>4, <3>6, <3>7, <3>8
    <3>10. mRefs' = mRefs + Held(d)
      <4>1. Len(sorted) - Len(kept) = -d
        BY <3>6, <3>8
      <4>2. mRefs' = mRefs - Held(-d)
        BY <3>7, <4>1
      <4> QED
        BY <1>h, <3>8, <4>2 DEF Held
    <3> QED
      BY <1>0, <1>h, <3>1, <3>9, <3>10, RefsMove
  <2>9. CASE EndExists(c)
    <3>1. Holders' = Holders /\ Taken' = Taken /\ mRefs' = mRefs
      BY <2>9 DEF EndExists, Goto, Holders, Taken
    <3>2. Len(mTimedTasks') = Len(mTimedTasks) /\ mTasks' = mTasks
      BY <2>9, TaskFacts, SortFacts DEF EndExists
    <3> QED
      BY <1>0, <1>h, <3>1, <3>2, RefsFrame
  <2>10. CASE Flush(c)
    <3>1. Holders' = Holders /\ Taken' = Taken
      BY <2>10 DEF Flush, Call, Goto, Holders, Taken
    <3>2. mRefs' = mRefs - Held(n) /\ Len(mTasks') = 0 /\ Len(mTimedTasks') = 0
      BY <2>10, EmptyFacts DEF Flush
    <3>3. -n \in Int /\ Len(mTasks') + Len(mTimedTasks') = n + (-n)
      BY <1>h, <3>2
    <3>4. mRefs' = mRefs + Held(-n)
      BY <1>h, <3>2 DEF Held
    <3> QED
      BY <1>0, <1>h, <3>1, <3>3, <3>4, RefsMove
  <2>11. CASE Release(c)
    <3>1. c \in Holders /\ Holders' = Holders \ {c} /\ Taken' = Taken
      BY <2>11 DEF Release, Goto, Holders, Taken
    <3>2. mRefs' = mRefs - 1 /\ mTasks' = mTasks /\ mTimedTasks' = mTimedTasks
      BY <2>11 DEF Release
    <3> HIDE DEF LooperInv, TypeOK
    <3>3. PICK h \in Nat : h = Cardinality(Holders)
      BY <1>h
    <3>4. Cardinality(Holders') = h - 1 /\ h >= 1
      BY <1>h, <3>1, <3>3
    <3>5. PICK t \in Nat : t = Held(n) + Taken
      <4>1. Held(n) \in Nat /\ Taken \in Nat
        BY <1>h DEF Held, Taken
      <4> QED
        BY <4>1
    <3>6. t = (Held(Len(mTasks) + Len(mTimedTasks)) + Taken)'
      BY <3>1, <3>2, <3>5 DEF Held
    <3>7. mRefs = h + t
      <4>1. mRefs = h + Held(n) + Taken /\ Held(n) \in Nat /\ Taken \in Nat
        BY <1>h, <3>3 DEF LooperInv, RefsInv, Held, Taken
      <4> QED
        BY <3>5, <4>1
    <3>8. RefsInv' <=> mRefs' = (h - 1) + t
      <4>1. Held(Len(mTasks) + Len(mTimedTasks))' \in Nat /\ Taken' \in Nat
        BY <1>0 DEF Held, Taken
      <4> QED
        BY <3>4, <3>6, <4>1 DEF RefsInv
    <3> QED
      BY <3>2, <3>4, <3>7, <3>8
  <2>12. CASE RequestExit(c)
    <3>1. Holders' = Holders
      BY <2>12 DEF RequestExit, Holders, Goto
    <3>2. mRefs' = mRefs /\ Taken' = Taken
      BY <2>12 DEF RequestExit, Taken, Goto
    <3>3. mTasks' = mTasks /\ mTimedTasks' = mTimedTasks
      BY <2>12 DEF RequestExit
    <3> QED
      BY <1>0, <1>h, <3>1, <3>2, <3>3, RefsFrame
  <2>13. CASE AwaitExit(c)
    <3>1. Holders' = Holders
      BY <2>13 DEF AwaitExit, Holders, Goto
    <3>2. mRefs' = mRefs /\ Taken' = Taken
      BY <2>13 DEF AwaitExit, Taken, Goto
    <3>3. mTasks' = mTasks /\ mTimedTasks' = mTimedTasks
      BY <2>13 DEF AwaitExit
    <3> QED
      BY <1>0, <1>h, <3>1, <3>2, <3>3, RefsFrame
  <2>14. CASE MakePost(c) \/ MakeDelayed(c)
    <3>1. /\ pc[c] = "idle" /\ (pc' = [pc EXCEPT ![c] = "push"] \/ pc' = [pc EXCEPT ![c] = "insert"])
          /\ mRefs' = mRefs /\ mTasks' = mTasks /\ mTimedTasks' = mTimedTasks /\ lpc' = lpc
      BY <2>14, MakeFacts
    <3>2. Holders' = Holders /\ Taken' = Taken
      BY <3>1 DEF Holders, Taken
    <3> QED
      BY <1>0, <1>h, <3>1, <3>2, RefsFrame
  <2> QED
    BY <1>1, <2>1, <2>2, <2>3, <2>4, <2>5, <2>6, <2>7, <2>8, <2>9, <2>10, <2>11, <2>12, <2>13, <2>14 DEF Begin, Continue
<1>2. CASE LooperNext
  <2>1. CASE PopTimed
    <3>1. Holders' = Holders /\ mRefs' = mRefs
      BY <2>1 DEF PopTimed, Holders
    <3>2. Len(mTimedTasks') = Len(mTimedTasks) - 1 /\ mTasks' = mTasks
      BY <2>1, TailFacts DEF PopTimed, IsDue
    <3>3. lpc = "pop" /\ lpc' = "run"
      BY <2>1 DEF PopTimed, Awake
    <3> QED
      BY <1>0, <1>h, <3>1, <3>2, <3>3 DEF RefsInv, Held, Taken
  <2>2. CASE PopImmediate
    <3>1. Holders' = Holders /\ mRefs' = mRefs
      BY <2>2 DEF PopImmediate, Holders
    <3>2. Len(mTasks') = Len(mTasks) - 1 /\ mTimedTasks' = mTimedTasks
      BY <2>2, TailFacts DEF PopImmediate, IsDue
    <3>3. lpc = "pop" /\ lpc' = "run"
      BY <2>2 DEF PopImmediate, Awake
    <3> QED
      BY <1>0, <1>h, <3>1, <3>2, <3>3 DEF RefsInv, Held, Taken
  <2>3. CASE SleepUntilDue
    <3>1. Holders' = Holders
      BY <2>3 DEF SleepUntilDue, Holders
    <3>2. mRefs' = mRefs /\ Taken' = Taken
      BY <2>3 DEF SleepUntilDue, Taken, Awake
    <3>3. mTasks' = mTasks /\ mTimedTasks' = mTimedTasks
      BY <2>3 DEF SleepUntilDue
    <3> QED
      BY <1>0, <1>h, <3>1, <3>2, <3>3, RefsFrame
  <2>4. CASE SleepIdle
    <3>1. Holders' = Holders
      BY <2>4 DEF SleepIdle, Holders
    <3>2. mRefs' = mRefs /\ Taken' = Taken
      BY <2>4 DEF SleepIdle, Taken, Awake
    <3>3. mTasks' = mTasks /\ mTimedTasks' = mTimedTasks
      BY <2>4 DEF SleepIdle
    <3> QED
      BY <1>0, <1>h, <3>1, <3>2, <3>3, RefsFrame
  <2>5. CASE LeaveLoop
    <3>1. Holders' = Holders
      BY <2>5 DEF LeaveLoop, Holders
    <3>2. mRefs' = mRefs /\ Taken' = Taken
      BY <2>5 DEF LeaveLoop, Taken, Awake
    <3>3. mTasks' = mTasks /\ mTimedTasks' = mTimedTasks
      BY <2>5 DEF LeaveLoop
    <3> QED
      BY <1>0, <1>h, <3>1, <3>2, <3>3, RefsFrame
  <2>6. CASE Timeout
    <3>1. Holders' = Holders
      BY <2>6 DEF Timeout, Holders
    <3>2. mRefs' = mRefs /\ Taken' = Taken
      BY <2>6 DEF Timeout, Taken
    <3>3. mTasks' = mTasks /\ mTimedTasks' = mTimedTasks
      BY <2>6 DEF Timeout
    <3> QED
      BY <1>0, <1>h, <3>1, <3>2, <3>3, RefsFrame
  <2>7. CASE RunJob
    <3>1. Holders' = Holders /\ mTasks' = mTasks /\ mTimedTasks' = mTimedTasks
      BY <2>7 DEF RunJob, Holders
    <3> QED
      BY <2>7, <1>0, <1>h, <3>1 DEF RunJob, RefsInv, Held, Taken
  <2>8. CASE DropTask
    <3>1. Holders' = Holders /\ mTasks' = mTasks /\ mTimedTasks' = mTimedTasks
      BY <2>8 DEF DropTask, Holders
    <3>2. lpc = "drop" /\ lpc' \in {"stuck", "pop"}
      BY <2>8 DEF DropTask
    <3>3. mRefs' = IF JobHolds = "none" THEN mRefs ELSE mRefs - 1
      BY <2>8 DEF DropTask
    <3> QED
      BY <1>0, <1>h, <3>1, <3>2, <3>3 DEF RefsInv, Held, Taken
  <2>9. CASE Terminate
    <3>1. Holders' = Holders
      BY <2>9 DEF Terminate, Holders
    <3>2. mRefs' = mRefs /\ Taken' = Taken
      BY <2>9 DEF Terminate, Taken
    <3>3. mTasks' = mTasks /\ mTimedTasks' = mTimedTasks
      BY <2>9 DEF Terminate
    <3> QED
      BY <1>0, <1>h, <3>1, <3>2, <3>3, RefsFrame
  <2> QED
    BY <1>2, <2>1, <2>2, <2>3, <2>4, <2>5, <2>6, <2>7, <2>8, <2>9 DEF LooperNext
<1>3. CASE SpuriousWakeup
  <2>1. Holders' = Holders
    BY <1>3 DEF SpuriousWakeup, Holders
  <2>2. mRefs' = mRefs /\ Taken' = Taken
    BY <1>3 DEF SpuriousWakeup, Taken
  <2>3. mTasks' = mTasks /\ mTimedTasks' = mTimedTasks
    BY <1>3 DEF SpuriousWakeup
  <2> QED
    BY <1>0, <1>h, <2>1, <2>2, <2>3, RefsFrame
<1>4. CASE Tick
  <2>1. Holders' = Holders
    BY <1>4 DEF Tick, Holders
  <2>2. mRefs' = mRefs /\ Taken' = Taken
    BY <1>4 DEF Tick, Taken
  <2>3. mTasks' = mTasks /\ mTimedTasks' = mTimedTasks
    BY <1>4 DEF Tick
  <2> QED
    BY <1>0, <1>h, <2>1, <2>2, <2>3, RefsFrame
<1>5. CASE UNCHANGED vars
  <2>1. Holders' = Holders
    BY <1>5 DEF vars, Holders
  <2>2. mRefs' = mRefs /\ Taken' = Taken
    BY <1>5 DEF vars, Taken
  <2>3. mTasks' = mTasks /\ mTimedTasks' = mTimedTasks
    BY <1>5 DEF vars
  <2> QED
    BY <1>0, <1>h, <2>1, <2>2, <2>3, RefsFrame
<1> QED
  BY <1>1, <1>2, <1>3, <1>4, <1>5 DEF Next

-----------------------------------------------------------------------------
(* The ids of a list of tasks are ids. *)
LEMMA IdsTyped ==
    ASSUME NEW tasks \in Seq(Task)
    PROVE  Ids(tasks) \subseteq Id
BY TaskFacts, LenProperties, ElementOfSeq DEF Ids

(* Every step keeps the types. *)
LEMMA TypeStep ==
    ASSUME LooperInv, [Next]_vars
    PROVE  TypeOK'
<1>0. /\ mTasks' \in Seq(Task) /\ mTimedTasks' \in Seq(Task) /\ ran' \in Seq(Task)
      /\ mRefs' \in Nat
      /\ mTasks \in Seq(Task) /\ mTimedTasks \in Seq(Task)
      /\ TypeOK /\ PlacesInv /\ CallsInv /\ MadeInv
  BY ListsStep, RefsStep DEF LooperInv, TypeOK
<1> DEFINE Goal == /\ taskLock' \in Client \cup {None}
                   /\ mRequestExit' \in BOOLEAN /\ mTerminated' \in BOOLEAN
                   /\ waiting' \subseteq Client \cup {looper}
                   /\ deadline' \in 0..MaxTime \cup {Never}
                   /\ lpc' \in {"pop", "run", "drop", "exit", "done", "stuck"}
                   /\ current' \in Task \cup {None}
                   /\ now' \in 0..MaxTime
                   /\ role' \in Roles
                   /\ pc' \in [Client -> ClientPC]
                   /\ arg' \in [Client -> Job \cup Task \cup {None}]
                   /\ calls' \in [Client -> 0..MaxCalls]
                   /\ posted' \subseteq Id
                   /\ cancelled' \subseteq Id
<1> SUFFICES Goal
  BY <1>0 DEF TypeOK
<1>a. \A c \in Client : role[c].calls \in 0..MaxCalls /\ calls[c] \in 0..MaxCalls
  BY <1>0, RolesAssumption DEF TypeOK
<1>b. \A c \in Client : calls[c] < role[c].calls => calls[c] + 1 \in 0..MaxCalls
  BY <1>a, BoundAssumption
<1> USE DEF TypeOK, lists, flags, looperVars, clientVars, context, history, ClientPC, Goto
<1>1. ASSUME NEW c \in Client, Begin(c) \/ Continue(c)
      PROVE  Goal
  <2>1. CASE PostPush(c)
    <3>1. arg[c].id \in Id
      BY <2>1, <1>0, TaskFacts DEF PostPush, MadeInv, Making
    <3> QED
      BY <2>1, <1>0, <3>1 DEF PostPush, Posted
  <2>2. CASE PostSize(c)
    BY <1>1, <2>2, <1>0, <1>b DEF PostSize
  <2>3. CASE PostDelayed(c)
    <3>1. arg[c].id \in Id
      BY <2>3, <1>0, TaskFacts DEF PostDelayed, MadeInv, Making
    <3> QED
      BY <2>3, <1>0, <3>1 DEF PostDelayed, Posted
  <2>4. CASE Signal(c)
    BY <1>1, <2>4, <1>0 DEF Signal, WakeOne
  <2>5. CASE BeginRemove(c)
    BY <1>1, <2>5, <1>0, <1>b DEF BeginRemove, BeginMerge, Call
  <2>6. CASE BeginExists(c)
    BY <1>1, <2>6, <1>0, <1>b DEF BeginExists, BeginMerge, Call
  <2>7. CASE MergeOne(c)
    BY <1>1, <2>7, <1>0, <1>b DEF MergeOne
  <2>8. CASE EndRemove(c)
    <3>1. SortByTime(mTimedTasks) \in Seq(Task)
      BY <1>0, TaskFacts, SortFacts
    <3>2. Ids(SortByTime(mTimedTasks)) \subseteq Id
      BY <3>1, IdsTyped
    <3> QED
      BY <2>8, <1>0, <3>2 DEF EndRemove
  <2>9. CASE EndExists(c)
    BY <1>1, <2>9, <1>0, <1>b DEF EndExists
  <2>10. CASE Flush(c)
    <3>1. Ids(mTasks) \subseteq Id /\ Ids(mTimedTasks) \subseteq Id
      BY <1>0, IdsTyped
    <3> QED
      BY <2>10, <1>0, <1>b, <3>1 DEF Flush, Call
  <2>11. CASE Release(c)
    BY <1>1, <2>11, <1>0, <1>b DEF Release
  <2>12. CASE RequestExit(c)
    BY <1>1, <2>12, <1>0, <1>b DEF RequestExit
  <2>13. CASE AwaitExit(c)
    BY <1>1, <2>13, <1>0, <1>b DEF AwaitExit
  <2>14. CASE MakePost(c) \/ MakeDelayed(c)
    <3>1. calls[c] + 1 \in 0..MaxCalls
      BY <2>14, MakeFacts
    <3>2. /\ UNCHANGED <<lists, flags, waiting, looperVars, mRefs, context, history>>
          /\ calls' = [calls EXCEPT ![c] = calls[c] + 1]
          /\ pc' = [pc EXCEPT ![c] = "push"] \/ pc' = [pc EXCEPT ![c] = "insert"]
          /\ \E task \in Task : arg' = [arg EXCEPT ![c] = task]
      BY <2>14, MakeFacts
    <3> QED
      BY <1>0, <3>1, <3>2
  <2> QED
    BY <1>1, <2>1, <2>2, <2>3, <2>4, <2>5, <2>6, <2>7, <2>8, <2>9, <2>10, <2>11, <2>12, <2>13, <2>14 DEF Begin, Continue
<1>2. CASE LooperNext
  <2>1. CASE PopTimed
    <3>1. Head(mTimedTasks) \in Task
      BY <2>1, <1>0, TailFacts DEF PopTimed, IsDue
    <3> QED
      BY <2>1, <1>0, <3>1 DEF PopTimed
  <2>2. CASE PopImmediate
    <3>1. Head(mTasks) \in Task
      BY <2>2, <1>0, TailFacts DEF PopImmediate, IsDue
    <3> QED
      BY <2>2, <1>0, <3>1 DEF PopImmediate
  <2>3. CASE SleepUntilDue
    <3>1. Head(mTimedTasks) \in Task
      BY <2>3, <1>0, TailFacts DEF SleepUntilDue
    <3>2. Head(mTimedTasks).when \in 0..MaxTime
      BY <3>1, TaskFacts
    <3> QED
      BY <2>3, <1>0, <3>2 DEF SleepUntilDue
  <2>4. CASE SleepIdle
    BY <2>4, <1>0, <1>b DEF SleepIdle
  <2>5. CASE LeaveLoop
    BY <2>5, <1>0, <1>b DEF LeaveLoop
  <2>6. CASE Timeout
    BY <2>6, <1>0, <1>b DEF Timeout
  <2>7. CASE RunJob
    BY <2>7, <1>0, <1>b DEF RunJob
  <2>8. CASE DropTask
    BY <2>8, <1>0, <1>b DEF DropTask
  <2>9. CASE Terminate
    BY <2>9, <1>0, <1>b DEF Terminate
  <2> QED
    BY <1>2, <2>1, <2>2, <2>3, <2>4, <2>5, <2>6, <2>7, <2>8, <2>9 DEF LooperNext
<1>3. CASE SpuriousWakeup
  BY <1>3, <1>0, <1>b DEF SpuriousWakeup
<1>4. CASE Tick
  BY <1>4, <1>0, BoundAssumption DEF Tick
<1>5. CASE UNCHANGED vars
  BY <1>5, <1>0 DEF vars
<1> QED
  BY <1>1, <1>2, <1>3, <1>4, <1>5 DEF Next

-----------------------------------------------------------------------------
(* Every step keeps what a client inside a call relies on. *)
LEMMA CallsStep ==
    ASSUME LooperInv, [Next]_vars
    PROVE  CallsInv'
<1>0. /\ TypeOK /\ CallsInv /\ MadeInv
  BY DEF LooperInv
<1>c. None \notin Client
  BY ClientAssumption
<1> USE DEF CallsInv, Merging, lists, flags, looperVars, clientVars, context, history, Goto
<1>1. ASSUME NEW c \in Client, Begin(c) \/ Continue(c)
      PROVE  CallsInv'
  <2>1. CASE PostPush(c)
    <3>1. "post" \in role[c].verbs
      BY <2>1, <1>0 DEF PostPush, MadeInv, Making
    <3> QED
      BY <1>1, <2>1, <1>0, <1>c, <3>1 DEF PostPush, TypeOK
  <2>2. CASE PostSize(c)
    BY <1>1, <2>2, <1>0, <1>c DEF PostSize, TypeOK
  <2>3. CASE PostDelayed(c)
    BY <1>1, <2>3, <1>0, <1>c DEF PostDelayed, TypeOK
  <2>4. CASE Signal(c)
    BY <1>1, <2>4, <1>0, <1>c DEF Signal, TypeOK
  <2>5. CASE BeginRemove(c)
    BY <1>1, <2>5, <1>0, <1>c DEF BeginRemove, BeginMerge, Call, TypeOK
  <2>6. CASE BeginExists(c)
    BY <1>1, <2>6, <1>0, <1>c DEF BeginExists, BeginMerge, Call, TypeOK
  <2>7. CASE MergeOne(c)
    BY <1>1, <2>7, <1>0, <1>c DEF MergeOne, TypeOK
  <2>8. CASE EndRemove(c)
    BY <1>1, <2>8, <1>0, <1>c DEF EndRemove, TypeOK
  <2>9. CASE EndExists(c)
    BY <1>1, <2>9, <1>0, <1>c DEF EndExists, TypeOK
  <2>10. CASE Flush(c)
    BY <1>1, <2>10, <1>0, <1>c DEF Flush, Call, TypeOK
  <2>11. CASE Release(c)
    BY <1>1, <2>11, <1>0, <1>c DEF Release, TypeOK
  <2>12. CASE RequestExit(c)
    BY <1>1, <2>12, <1>0, <1>c DEF RequestExit, TypeOK
  <2>13. CASE AwaitExit(c)
    BY <1>1, <2>13, <1>0, <1>c DEF AwaitExit, TypeOK
  <2>14. CASE MakePost(c) \/ MakeDelayed(c)
    <3>1. /\ pc[c] = "idle" /\ (pc' = [pc EXCEPT ![c] = "push"] \/ pc' = [pc EXCEPT ![c] = "insert"])
          /\ UNCHANGED <<lpc, current, taskLock, role>>
      BY <2>14, MakeFacts
    <3> QED
      BY <1>0, <1>c, <3>1 DEF TypeOK
  <2> QED
    BY <1>1, <2>1, <2>2, <2>3, <2>4, <2>5, <2>6, <2>7, <2>8, <2>9, <2>10, <2>11, <2>12, <2>13, <2>14 DEF Begin, Continue
<1>2. CASE LooperNext
  <2>1. CASE PopTimed
    <3>1. Head(mTimedTasks) \in Task
      BY <2>1, <1>0, TailFacts DEF PopTimed, IsDue, TypeOK
    <3> QED
      BY <2>1, <1>0, <3>1 DEF PopTimed, Awake
  <2>2. CASE PopImmediate
    <3>1. Head(mTasks) \in Task
      BY <2>2, <1>0, TailFacts DEF PopImmediate, IsDue, TypeOK
    <3> QED
      BY <2>2, <1>0, <3>1 DEF PopImmediate, Awake
  <2>3. CASE SleepUntilDue
    BY <2>3, <1>0, <1>c DEF SleepUntilDue, Awake, TypeOK
  <2>4. CASE SleepIdle
    BY <2>4, <1>0, <1>c DEF SleepIdle, Awake, TypeOK
  <2>5. CASE LeaveLoop
    BY <2>5, <1>0, <1>c DEF LeaveLoop, Awake, TypeOK
  <2>6. CASE Timeout
    BY <2>6, <1>0, <1>c DEF Timeout, TypeOK
  <2>7. CASE RunJob
    BY <2>7, <1>0, <1>c DEF RunJob, TypeOK
  <2>8. CASE DropTask
    BY <2>8, <1>0, <1>c DEF DropTask, TypeOK
  <2>9. CASE Terminate
    BY <2>9, <1>0, <1>c DEF Terminate, TypeOK
  <2> QED
    BY <1>2, <2>1, <2>2, <2>3, <2>4, <2>5, <2>6, <2>7, <2>8, <2>9 DEF LooperNext
<1>3. CASE SpuriousWakeup
  BY <1>3, <1>0, <1>c DEF SpuriousWakeup, TypeOK
<1>4. CASE Tick
  BY <1>4, <1>0, <1>c DEF Tick, TypeOK
<1>5. CASE UNCHANGED vars
  BY <1>5, <1>0 DEF vars, TypeOK
<1> QED
  BY <1>1, <1>2, <1>3, <1>4, <1>5 DEF Next

-----------------------------------------------------------------------------
(* A client that drops the only reference is the last one. *)
LEMMA LastReference ==
    ASSUME LooperInv, NEW c \in Holders, mRefs = 1
    PROVE  Holders = {c}
<1>1. /\ TypeOK /\ mRefs = Cardinality(Holders) + Held(Len(mTasks) + Len(mTimedTasks)) + Taken
  BY DEF LooperInv, RefsInv
<1>2. /\ IsFiniteSet(Holders) /\ Cardinality(Holders) \in Nat
      /\ Cardinality(Holders \ {c}) = Cardinality(Holders) - 1
      /\ Len(mTasks) \in Nat /\ Len(mTimedTasks) \in Nat
  BY <1>1, HoldersFacts, LengthFacts
<1>3. Held(Len(mTasks) + Len(mTimedTasks)) \in Nat /\ Taken \in Nat
  BY <1>2 DEF Held, Taken
<1>4. Cardinality(Holders \ {c}) <= 0
  BY <1>1, <1>2, <1>3
<1>5. IsFiniteSet(Holders \ {c}) /\ Cardinality(Holders \ {c}) \in Nat
  BY <1>2, FS_RemoveElement, FS_CardinalityType
<1>6. Holders \ {c} = {}
  BY <1>4, <1>5, FS_EmptySet
<1> QED
  BY <1>6

(* Every step keeps what the end of the looper rests on. *)
LEMMA ExitStep ==
    ASSUME LooperInv, [Next]_vars
    PROVE  ExitInv'
<1>0. TypeOK /\ ExitInv
  BY DEF LooperInv
<1>c. looper \notin Client
  BY ClientAssumption
<1> USE DEF ExitInv, Holders, lists, flags, looperVars, clientVars, context, history, Goto
<1>1. ASSUME NEW c \in Client, Begin(c) \/ Continue(c)
      PROVE  ExitInv'
  <2>1. CASE PostPush(c)
    BY <1>1, <2>1, <1>0, <1>c DEF PostPush, TypeOK
  <2>2. CASE PostSize(c)
    BY <1>1, <2>2, <1>0, <1>c DEF PostSize, TypeOK
  <2>3. CASE PostDelayed(c)
    BY <1>1, <2>3, <1>0, <1>c DEF PostDelayed, TypeOK
  <2>4. CASE Signal(c)
    BY <1>1, <2>4, <1>0 DEF Signal, WakeOne, TypeOK
  <2>5. CASE BeginRemove(c)
    BY <1>1, <2>5, <1>0, <1>c DEF BeginRemove, BeginMerge, Call, TypeOK
  <2>6. CASE BeginExists(c)
    BY <1>1, <2>6, <1>0, <1>c DEF BeginExists, BeginMerge, Call, TypeOK
  <2>7. CASE MergeOne(c)
    BY <1>1, <2>7, <1>0, <1>c DEF MergeOne, TypeOK
  <2>8. CASE EndRemove(c)
    BY <1>1, <2>8, <1>0, <1>c DEF EndRemove, TypeOK
  <2>9. CASE EndExists(c)
    BY <1>1, <2>9, <1>0, <1>c DEF EndExists, TypeOK
  <2>10. CASE Flush(c)
    BY <1>1, <2>10, <1>0, <1>c DEF Flush, Call, TypeOK
  <2>11. CASE Release(c)
    <3>1. c \in Holders
      BY <2>11 DEF Release
    <3>2. mRefs = 1 => Holders = {c}
      BY <3>1, LastReference
    <3> QED
      BY <2>11, <1>0, <1>c, <3>2 DEF Release, TypeOK
  <2>12. CASE RequestExit(c)
    BY <1>1, <2>12, <1>0, <1>c DEF RequestExit, TypeOK
  <2>13. CASE AwaitExit(c)
    <3>1. /\ c \notin waiting /\ pc[c] = "wait_exit" /\ pc \in [Client -> ClientPC]
          /\ UNCHANGED <<lists, flags, lpc>>
      BY <2>13, <1>0 DEF AwaitExit, TypeOK
    <3>2. CASE mTerminated
      <4>1. pc' = [pc EXCEPT ![c] = "gone"] /\ waiting' = waiting
        BY <2>13, <3>2 DEF AwaitExit
      <4> QED
        BY <1>1, <1>0, <1>c, <3>1, <4>1
    <3>3. CASE ~mTerminated
      <4>1. pc' = pc /\ waiting' = waiting \cup {c}
        BY <2>13, <1>0, <3>1, <3>3 DEF AwaitExit
      <4> QED
        BY <1>1, <1>0, <1>c, <3>1, <4>1
    <3> QED
      BY <3>2, <3>3
  <2>14. CASE MakePost(c) \/ MakeDelayed(c)
    <3>1. /\ pc[c] = "idle" /\ (pc' = [pc EXCEPT ![c] = "push"] \/ pc' = [pc EXCEPT ![c] = "insert"])
          /\ UNCHANGED <<lists, flags, waiting, lpc>>
      BY <2>14, MakeFacts
    <3> QED
      BY <1>0, <1>c, <3>1 DEF TypeOK
  <2> QED
    BY <1>1, <2>1, <2>2, <2>3, <2>4, <2>5, <2>6, <2>7, <2>8, <2>9, <2>10, <2>11, <2>12, <2>13, <2>14 DEF Begin, Continue
<1>2. CASE LooperNext
  <2>1. CASE PopTimed
    BY <2>1, <1>0, <1>c DEF PopTimed, Awake, TypeOK
  <2>2. CASE PopImmediate
    BY <2>2, <1>0, <1>c DEF PopImmediate, Awake, TypeOK
  <2>3. CASE SleepUntilDue
    BY <2>3, <1>0, <1>c DEF SleepUntilDue, Awake, TypeOK
  <2>4. CASE SleepIdle
    BY <2>4, <1>0, <1>c DEF SleepIdle, Awake, TypeOK
  <2>5. CASE LeaveLoop
    BY <2>5, <1>0, <1>c DEF LeaveLoop, Awake, TypeOK
  <2>6. CASE Timeout
    BY <2>6, <1>0, <1>c DEF Timeout, TypeOK
  <2>7. CASE RunJob
    BY <2>7, <1>0, <1>c DEF RunJob, TypeOK
  <2>8. CASE DropTask
    BY <2>8, <1>0, <1>c DEF DropTask, TypeOK
  <2>9. CASE Terminate
    BY <2>9, <1>0, <1>c DEF Terminate, TypeOK
  <2> QED
    BY <1>2, <2>1, <2>2, <2>3, <2>4, <2>5, <2>6, <2>7, <2>8, <2>9 DEF LooperNext
<1>3. CASE SpuriousWakeup
  BY <1>3, <1>0, <1>c DEF SpuriousWakeup, TypeOK
<1>4. CASE Tick
  BY <1>4, <1>0, <1>c DEF Tick, TypeOK
<1>5. CASE UNCHANGED vars
  BY <1>5, <1>0 DEF vars, TypeOK
<1> QED
  BY <1>1, <1>2, <1>3, <1>4, <1>5 DEF Next

-----------------------------------------------------------------------------
(* A step that moves no task. *)
LEMMA PlacesFrame ==
    ASSUME TypeOK, PlacesInv, \A c \in Client : calls'[c] \in Nat /\ calls[c] <= calls'[c],
           UNCHANGED <<mTasks, mTimedTasks, posted, ran, cancelled>>, Running' = Running
    PROVE  PlacesInv'
<1>1. \A id \in posted : id[2] <= calls'[id[1]]
  <2> SUFFICES ASSUME NEW id \in posted
               PROVE  id[2] <= calls'[id[1]]
    OBVIOUS
  <2>1. id[1] \in Client /\ id[2] \in Nat
    BY DEF TypeOK, Id
  <2>2. calls[id[1]] \in Nat /\ id[2] <= calls[id[1]]
    BY <2>1, BoundAssumption DEF PlacesInv, TypeOK
  <2> QED
    BY <2>1, <2>2
<1> QED
  BY <1>1 DEF PlacesInv, Finished

(* Every step keeps each id in one place. *)
LEMMA PlacesStep ==
    ASSUME LooperInv, [Next]_vars
    PROVE  PlacesInv'
<1>0. TypeOK /\ PlacesInv /\ CallsInv /\ MadeInv /\ mTasks \in Seq(Task) /\ mTimedTasks \in Seq(Task)
      /\ ran \in Seq(Task)
  BY DEF LooperInv, TypeOK
<1>a. \A c \in Client : calls[c] \in Nat /\ calls[c] <= calls[c]
                        /\ calls[c] + 1 \in Nat /\ calls[c] <= calls[c] + 1
  BY <1>0, BoundAssumption DEF TypeOK
<1>b. calls \in [Client -> 0..MaxCalls]
  BY <1>0 DEF TypeOK
<1>p. \A id \in posted : id[1] \in Client /\ id[2] \in Nat /\ id[2] <= calls[id[1]]
  BY <1>0 DEF TypeOK, Id, PlacesInv
<1>t. \A t \in Task : t.when \in Int
  BY TaskFacts
<1> USE DEF lists, flags, looperVars, clientVars, context, history
<1>1. ASSUME NEW c \in Client, Begin(c) \/ Continue(c)
      PROVE  PlacesInv'
  <2>1. CASE PostPush(c)
    <3>1. PICK task : task = arg[c]
      OBVIOUS
    <3>2. task \in Task /\ task.id = <<c, calls[c]>> /\ task.id \notin posted
      BY <2>1, <1>0, <3>1 DEF PostPush, Goto, MadeInv, Making
    <3>3. Ids(mTasks) \subseteq posted /\ Ids(mTimedTasks) \subseteq posted
      BY <1>0 DEF PlacesInv
    <3>4. Distinct(mTasks') /\ Tasks(mTasks') = Tasks(mTasks) \cup {task}
      <4>1. Distinct(mTasks) /\ task.id \notin Ids(mTasks)
        BY <1>0, <3>2, <3>3 DEF PlacesInv
      <4>2. mTasks' = Append(mTasks, task)
        BY <2>1, <3>1 DEF PostPush
      <4> QED
        BY <1>0, <1>t, <3>2, <4>1, <4>2, AppendFacts
    <3>5. Ids(mTasks') = Ids(mTasks) \cup {task.id}
      BY <3>2, <3>4, IdsAdded
    <3>6. /\ UNCHANGED <<mTimedTasks, ran, cancelled, calls>> /\ Running' = Running
          /\ posted' = posted \cup {task.id}
      BY <2>1, <3>1 DEF PostPush, Posted, Running
    <3>7. \A id \in posted' : id[2] <= calls'[id[1]]
      <4>1. task.id[1] = c /\ task.id[2] = calls[c]
        BY <3>2
      <4> QED
        BY <1>a, <1>p, <3>6, <4>1
    <3> QED
      BY <1>0, <3>2, <3>4, <3>5, <3>6, <3>7 DEF PlacesInv, Finished
  <2>2. CASE PostSize(c)
    <3>1. UNCHANGED <<mTasks, mTimedTasks, posted, ran, cancelled>>
      BY <2>2 DEF PostSize
    <3>2. Running' = Running
      BY <2>2 DEF PostSize, Running
    <3>3. \A d \in Client : calls'[d] \in Nat /\ calls[d] <= calls'[d]
      BY <2>2, <1>a, <1>b DEF PostSize
    <3> QED
      BY <1>0, <3>1, <3>2, <3>3, PlacesFrame
  <2>3. CASE PostDelayed(c)
    <3>1. PICK task : task = arg[c]
      OBVIOUS
    <3>2. task \in Task /\ task.id = <<c, calls[c]>> /\ task.id \notin posted
      BY <2>3, <1>0, <3>1 DEF PostDelayed, Goto, MadeInv, Making
    <3>3. Ids(mTasks) \subseteq posted /\ Ids(mTimedTasks) \subseteq posted
      BY <1>0 DEF PlacesInv
    <3>4. Distinct(mTimedTasks') /\ Tasks(mTimedTasks') = Tasks(mTimedTasks) \cup {task}
      <4>1. Distinct(mTimedTasks) /\ task.id \notin Ids(mTimedTasks)
        BY <1>0, <3>2, <3>3 DEF PlacesInv
      <4>2. mTimedTasks' = InsertTimed(mTimedTasks, task)
        BY <2>3, <3>1 DEF PostDelayed
      <4> QED
        BY <1>0, <1>t, <3>2, <4>1, <4>2, InsertFacts
    <3>5. Ids(mTimedTasks') = Ids(mTimedTasks) \cup {task.id}
      BY <3>2, <3>4, IdsAdded
    <3>6. /\ UNCHANGED <<mTasks, ran, cancelled, calls>> /\ Running' = Running
          /\ posted' = posted \cup {task.id}
      BY <2>3, <3>1 DEF PostDelayed, Posted, Running
    <3>7. \A id \in posted' : id[2] <= calls'[id[1]]
      <4>1. task.id[1] = c /\ task.id[2] = calls[c]
        BY <3>2
      <4> QED
        BY <1>a, <1>p, <3>6, <4>1
    <3> QED
      BY <1>0, <3>2, <3>4, <3>5, <3>6, <3>7 DEF PlacesInv, Finished
  <2>4. CASE Signal(c)
    <3>1. UNCHANGED <<mTasks, mTimedTasks, posted, ran, cancelled>>
      BY <2>4 DEF Signal
    <3>2. Running' = Running
      BY <2>4 DEF Signal, Running
    <3>3. \A d \in Client : calls'[d] \in Nat /\ calls[d] <= calls'[d]
      BY <2>4, <1>a, <1>b DEF Signal
    <3> QED
      BY <1>0, <3>1, <3>2, <3>3, PlacesFrame
  <2>5. CASE BeginRemove(c)
    <3>1. UNCHANGED <<mTasks, mTimedTasks, posted, ran, cancelled>>
      BY <2>5 DEF BeginRemove, BeginMerge, Call
    <3>2. Running' = Running
      BY <2>5 DEF BeginRemove, BeginMerge, Call, Running
    <3>3. \A d \in Client : calls'[d] \in Nat /\ calls[d] <= calls'[d]
      BY <2>5, <1>a, <1>b DEF BeginRemove, BeginMerge, Call
    <3> QED
      BY <1>0, <3>1, <3>2, <3>3, PlacesFrame
  <2>6. CASE BeginExists(c)
    <3>1. UNCHANGED <<mTasks, mTimedTasks, posted, ran, cancelled>>
      BY <2>6 DEF BeginExists, BeginMerge, Call
    <3>2. Running' = Running
      BY <2>6 DEF BeginExists, BeginMerge, Call, Running
    <3>3. \A d \in Client : calls'[d] \in Nat /\ calls[d] <= calls'[d]
      BY <2>6, <1>a, <1>b DEF BeginExists, BeginMerge, Call
    <3> QED
      BY <1>0, <3>1, <3>2, <3>3, PlacesFrame
  <2>7. CASE MergeOne(c)
    <3>1. PICK task : task = Head(mTasks)
      OBVIOUS
    <3>2. /\ task \in Task /\ Tail(mTasks) \in Seq(Task)
          /\ Tasks(mTasks) = Tasks(Tail(mTasks)) \cup {task}
          /\ Distinct(Tail(mTasks)) /\ task.id \notin Ids(Tail(mTasks))
      BY <2>7, <1>0, <3>1, TailFacts DEF MergeOne, PlacesInv
    <3>3. Ids(mTasks) = Ids(Tail(mTasks)) \cup {task.id}
      BY <3>2, IdsAdded
    <3>4. /\ <<task>> \in Seq(Task) /\ Distinct(<<task>>)
          /\ Tasks(<<task>>) = {task} /\ Ids(<<task>>) = {task.id}
      BY <3>2 DEF Distinct, Tasks, Ids
    <3>5. task.id \notin Ids(mTimedTasks)
      BY <1>0, <3>3 DEF PlacesInv
    <3>6. /\ Tasks(<<task>> \o mTimedTasks) = Tasks(mTimedTasks) \cup {task}
          /\ Distinct(<<task>> \o mTimedTasks)
      <4>1. Distinct(mTimedTasks) /\ Ids(<<task>>) \cap Ids(mTimedTasks) = {}
        BY <1>0, <3>4, <3>5 DEF PlacesInv
      <4>2. mTimedTasks \in Seq(Task) /\ <<task>> \in Seq(Task) /\ Distinct(<<task>>)
            /\ Tasks(<<task>>) = {task}
        BY <1>0, <3>4
      <4>3. PICK front : front = <<task>>
        OBVIOUS
      <4>4. /\ Tasks(front \o mTimedTasks) = Tasks(front) \cup Tasks(mTimedTasks)
            /\ Distinct(front \o mTimedTasks)
        BY <4>1, <4>2, <4>3, ConcatFacts, ZenonT(30)
      <4> QED
        BY <4>2, <4>3, <4>4
    <3>7. Ids(<<task>> \o mTimedTasks) = Ids(mTimedTasks) \cup {task.id}
      BY <3>6, IdsAdded
    <3>8. /\ mTasks' = Tail(mTasks) /\ mTimedTasks' = <<task>> \o mTimedTasks
          /\ UNCHANGED <<posted, ran, cancelled, calls>> /\ Running' = Running
      BY <2>7, <3>1 DEF MergeOne, Running
    <3> QED
      BY <1>0, <3>2, <3>3, <3>6, <3>7, <3>8 DEF PlacesInv, Finished
  <2>8. CASE EndRemove(c)
    <3>1. PICK sorted : sorted = SortByTime(mTimedTasks)
      OBVIOUS
    <3>2. PICK kept : kept = WithoutJob(sorted, arg[c])
      OBVIOUS
    <3>3. sorted \in Seq(Task) /\ Ids(sorted) = Ids(mTimedTasks) /\ Distinct(sorted)
      BY <1>0, <3>1, TaskFacts, SortFacts DEF PlacesInv
    <3>4. Distinct(kept) /\ Tasks(kept) \subseteq Tasks(sorted)
      BY <3>2, <3>3, WithoutFacts
    <3>5. Ids(kept) \subseteq Ids(mTimedTasks)
      BY <3>3, <3>4, IdsOfFewer
    <3>6. /\ mTimedTasks' = kept /\ mTasks' = mTasks
          /\ cancelled' = cancelled \cup (Ids(mTimedTasks) \ Ids(kept))
          /\ UNCHANGED <<posted, ran, calls>> /\ Running' = Running
      BY <2>8, <3>1, <3>2, <3>3 DEF EndRemove, Running
    <3> QED
      BY <1>0, <3>4, <3>5, <3>6 DEF PlacesInv, Finished
  <2>9. CASE EndExists(c)
    <3>1. /\ Ids(mTimedTasks') = Ids(mTimedTasks) /\ Distinct(mTimedTasks')
      BY <2>9, <1>0, TaskFacts, SortFacts DEF PlacesInv, EndExists
    <3>2. UNCHANGED <<mTasks, posted, ran, cancelled, calls>> /\ Running' = Running
      BY <2>9 DEF EndExists, Running
    <3> QED
      BY <1>0, <3>1, <3>2 DEF PlacesInv, Finished
  <2>10. CASE Flush(c)
    <3>1. /\ Ids(mTasks') = {} /\ Ids(mTimedTasks') = {}
          /\ Distinct(mTasks') /\ Distinct(mTimedTasks')
      BY <2>10, EmptyFacts DEF Flush
    <3>2. /\ cancelled' = cancelled \cup Ids(mTasks) \cup Ids(mTimedTasks)
          /\ UNCHANGED <<posted, ran>> /\ Running' = Running
          /\ calls' = [calls EXCEPT ![c] = @ + 1]
      BY <2>10 DEF Flush, Call, Running
    <3>3. \A id \in posted' : id[2] <= calls'[id[1]]
      BY <1>a, <1>b, <1>p, <3>2
    <3> QED
      BY <1>0, <3>1, <3>2, <3>3 DEF PlacesInv, Finished
  <2>11. CASE Release(c)
    <3>1. UNCHANGED <<mTasks, mTimedTasks, posted, ran, cancelled>>
      BY <2>11 DEF Release
    <3>2. Running' = Running
      BY <2>11 DEF Release, Running
    <3>3. \A d \in Client : calls'[d] \in Nat /\ calls[d] <= calls'[d]
      BY <2>11, <1>a, <1>b DEF Release
    <3> QED
      BY <1>0, <3>1, <3>2, <3>3, PlacesFrame
  <2>12. CASE RequestExit(c)
    <3>1. UNCHANGED <<mTasks, mTimedTasks, posted, ran, cancelled>>
      BY <2>12 DEF RequestExit
    <3>2. Running' = Running
      BY <2>12 DEF RequestExit, Running
    <3>3. \A d \in Client : calls'[d] \in Nat /\ calls[d] <= calls'[d]
      BY <2>12, <1>a, <1>b DEF RequestExit
    <3> QED
      BY <1>0, <3>1, <3>2, <3>3, PlacesFrame
  <2>13. CASE AwaitExit(c)
    <3>1. UNCHANGED <<mTasks, mTimedTasks, posted, ran, cancelled>>
      BY <2>13 DEF AwaitExit
    <3>2. Running' = Running
      BY <2>13 DEF AwaitExit, Running
    <3>3. \A d \in Client : calls'[d] \in Nat /\ calls[d] <= calls'[d]
      BY <2>13, <1>a, <1>b DEF AwaitExit
    <3> QED
      BY <1>0, <3>1, <3>2, <3>3, PlacesFrame
  <2>14. CASE MakePost(c) \/ MakeDelayed(c)
    <3>1. /\ UNCHANGED <<mTasks, mTimedTasks, posted, ran, cancelled, lpc, current>>
          /\ calls' = [calls EXCEPT ![c] = calls[c] + 1]
      BY <2>14, MakeFacts
    <3>2. Running' = Running
      BY <3>1 DEF Running
    <3>3. \A d \in Client : calls'[d] \in Nat /\ calls[d] <= calls'[d]
      BY <3>1, <1>a, <1>b
    <3> QED
      BY <1>0, <3>1, <3>2, <3>3, PlacesFrame
  <2> QED
    BY <1>1, <2>1, <2>2, <2>3, <2>4, <2>5, <2>6, <2>7, <2>8, <2>9, <2>10, <2>11, <2>12, <2>13, <2>14 DEF Begin, Continue
<1>2. CASE LooperNext
  <2>1. CASE PopTimed
    <3>1. PICK task : task = Head(mTimedTasks)
      OBVIOUS
    <3>2. /\ Tasks(mTimedTasks) = Tasks(Tail(mTimedTasks)) \cup {task}
          /\ Distinct(Tail(mTimedTasks)) /\ task.id \notin Ids(Tail(mTimedTasks))
      BY <2>1, <1>0, <3>1, TailFacts DEF PopTimed, IsDue, PlacesInv
    <3>3. Ids(mTimedTasks) = Ids(Tail(mTimedTasks)) \cup {task.id}
      BY <3>2, IdsAdded
    <3>4. /\ mTimedTasks' = Tail(mTimedTasks) /\ UNCHANGED <<mTasks, posted, ran, cancelled, calls>>
          /\ Running = {} /\ Running' = {task.id}
      BY <2>1, <3>1 DEF PopTimed, Awake, Running
    <3> QED
      BY <1>0, <3>2, <3>3, <3>4 DEF PlacesInv, Finished
  <2>2. CASE PopImmediate
    <3>1. PICK task : task = Head(mTasks)
      OBVIOUS
    <3>2. /\ Tasks(mTasks) = Tasks(Tail(mTasks)) \cup {task}
          /\ Distinct(Tail(mTasks)) /\ task.id \notin Ids(Tail(mTasks))
      BY <2>2, <1>0, <3>1, TailFacts DEF PopImmediate, IsDue, PlacesInv
    <3>3. Ids(mTasks) = Ids(Tail(mTasks)) \cup {task.id}
      BY <3>2, IdsAdded
    <3>4. /\ mTasks' = Tail(mTasks) /\ UNCHANGED <<mTimedTasks, posted, ran, cancelled, calls>>
          /\ Running = {} /\ Running' = {task.id}
      BY <2>2, <3>1 DEF PopImmediate, Awake, Running
    <3> QED
      BY <1>0, <3>2, <3>3, <3>4 DEF PlacesInv, Finished
  <2>3. CASE SleepUntilDue
    <3>1. UNCHANGED <<mTasks, mTimedTasks, posted, ran, cancelled>>
      BY <2>3 DEF SleepUntilDue, Awake
    <3>2. Running' = Running
      BY <2>3 DEF SleepUntilDue, Awake, Running
    <3>3. \A d \in Client : calls'[d] \in Nat /\ calls[d] <= calls'[d]
      BY <2>3, <1>a, <1>b DEF SleepUntilDue, Awake
    <3> QED
      BY <1>0, <3>1, <3>2, <3>3, PlacesFrame
  <2>4. CASE SleepIdle
    <3>1. UNCHANGED <<mTasks, mTimedTasks, posted, ran, cancelled>>
      BY <2>4 DEF SleepIdle, Awake
    <3>2. Running' = Running
      BY <2>4 DEF SleepIdle, Awake, Running
    <3>3. \A d \in Client : calls'[d] \in Nat /\ calls[d] <= calls'[d]
      BY <2>4, <1>a, <1>b DEF SleepIdle, Awake
    <3> QED
      BY <1>0, <3>1, <3>2, <3>3, PlacesFrame
  <2>5. CASE LeaveLoop
    <3>1. UNCHANGED <<mTasks, mTimedTasks, posted, ran, cancelled>>
      BY <2>5 DEF LeaveLoop, Awake
    <3>2. Running' = Running
      BY <2>5 DEF LeaveLoop, Awake, Running
    <3>3. \A d \in Client : calls'[d] \in Nat /\ calls[d] <= calls'[d]
      BY <2>5, <1>a, <1>b DEF LeaveLoop, Awake
    <3> QED
      BY <1>0, <3>1, <3>2, <3>3, PlacesFrame
  <2>6. CASE Timeout
    <3>1. UNCHANGED <<mTasks, mTimedTasks, posted, ran, cancelled>>
      BY <2>6 DEF Timeout
    <3>2. Running' = Running
      BY <2>6 DEF Timeout, Running
    <3>3. \A d \in Client : calls'[d] \in Nat /\ calls[d] <= calls'[d]
      BY <2>6, <1>a, <1>b DEF Timeout
    <3> QED
      BY <1>0, <3>1, <3>2, <3>3, PlacesFrame
  <2>7. CASE RunJob
    <3>1. PICK task : task = current
      OBVIOUS
    <3>2. task \in Task /\ Running = {task.id} /\ Running' = {}
      BY <2>7, <1>0, <3>1 DEF RunJob, CallsInv, Running
    <3>3. Distinct(ran) /\ task.id \notin Ids(ran)
      BY <1>0, <3>2 DEF PlacesInv, Finished
    <3>4. ran' = Append(ran, task)
      BY <2>7, <3>1 DEF RunJob
    <3>5. Distinct(ran') /\ Tasks(ran') = Tasks(ran) \cup {task}
      BY <1>0, <3>2, <3>3, <3>4, AppendFacts
    <3>6. Ids(ran') = Ids(ran) \cup {task.id}
      <4>1. PICK after : after = ran'
        OBVIOUS
      <4>2. PICK before : before = ran
        OBVIOUS
      <4>3. Tasks(after) = Tasks(before) \cup {task}
        BY <3>5, <4>1, <4>2
      <4>4. Ids(after) = Ids(before) \cup {task.id}
        BY <4>3, IdsAdded
      <4> QED
        BY <4>1, <4>2, <4>4
    <3>7. UNCHANGED <<mTasks, mTimedTasks, posted, cancelled, calls>>
      BY <2>7 DEF RunJob
    <3> QED
      BY <1>0, <3>2, <3>5, <3>6, <3>7 DEF PlacesInv, Finished
  <2>8. CASE DropTask
    <3>1. UNCHANGED <<mTasks, mTimedTasks, posted, ran, cancelled>>
      BY <2>8 DEF DropTask
    <3>2. Running' = Running
      BY <2>8 DEF DropTask, Running
    <3>3. \A d \in Client : calls'[d] \in Nat /\ calls[d] <= calls'[d]
      BY <2>8, <1>a, <1>b DEF DropTask
    <3> QED
      BY <1>0, <3>1, <3>2, <3>3, PlacesFrame
  <2>9. CASE Terminate
    <3>1. UNCHANGED <<mTasks, mTimedTasks, posted, ran, cancelled>>
      BY <2>9 DEF Terminate
    <3>2. Running' = Running
      BY <2>9 DEF Terminate, Running
    <3>3. \A d \in Client : calls'[d] \in Nat /\ calls[d] <= calls'[d]
      BY <2>9, <1>a, <1>b DEF Terminate
    <3> QED
      BY <1>0, <3>1, <3>2, <3>3, PlacesFrame
  <2> QED
    BY <1>2, <2>1, <2>2, <2>3, <2>4, <2>5, <2>6, <2>7, <2>8, <2>9 DEF LooperNext
<1>3. CASE SpuriousWakeup
  <2>1. UNCHANGED <<mTasks, mTimedTasks, posted, ran, cancelled>>
    BY <1>3 DEF SpuriousWakeup
  <2>2. Running' = Running
    BY <1>3 DEF SpuriousWakeup, Running
  <2>3. \A d \in Client : calls'[d] \in Nat /\ calls[d] <= calls'[d]
    BY <1>3, <1>a, <1>b DEF SpuriousWakeup
  <2> QED
    BY <1>0, <2>1, <2>2, <2>3, PlacesFrame
<1>4. CASE Tick
  <2>1. UNCHANGED <<mTasks, mTimedTasks, posted, ran, cancelled>>
    BY <1>4 DEF Tick
  <2>2. Running' = Running
    BY <1>4 DEF Tick, Running
  <2>3. \A d \in Client : calls'[d] \in Nat /\ calls[d] <= calls'[d]
    BY <1>4, <1>a, <1>b DEF Tick
  <2> QED
    BY <1>0, <2>1, <2>2, <2>3, PlacesFrame
<1>5. CASE UNCHANGED vars
  <2>1. UNCHANGED <<mTasks, mTimedTasks, posted, ran, cancelled>>
    BY <1>5 DEF vars
  <2>2. Running' = Running
    BY <1>5 DEF vars, Running
  <2>3. \A d \in Client : calls'[d] \in Nat /\ calls[d] <= calls'[d]
    BY <1>5, <1>a, <1>b DEF vars
  <2> QED
    BY <1>0, <2>1, <2>2, <2>3, PlacesFrame
<1> QED
  BY <1>1, <1>2, <1>3, <1>4, <1>5 DEF Next

-----------------------------------------------------------------------------
(* A step that leaves the lists and the looper's deadline alone, wakes the *)
(* looper or not, and takes nobody from a place where it is about to.      *)
LEMMA NoticeFrame ==
    ASSUME NoticeInv, looper \in waiting' => looper \in waiting,
           UNCHANGED <<mTasks, mTimedTasks, deadline, role>>,
           \A c \in Client : Waking(c) => Waking(c)'
    PROVE  NoticeInv'
BY DEF NoticeInv, OneMover

(* A step that takes the looper from its wait, or finds it awake. *)
LEMMA NoticeAwake ==
    ASSUME looper \notin waiting'
    PROVE  NoticeInv'
BY DEF NoticeInv

(* A client that posts or merges is the only one that moves tasks. *)
LEMMA OnlyMover ==
    ASSUME CallsInv, OneMover, NEW c \in Client, role[c].verbs \cap Moves # {},
           NEW d \in Client, d # c
    PROVE  pc[d] # "size"
BY DEF CallsInv, OneMover, Moves

(* Every step that leaves the looper asleep leaves it without work, or with *)
(* somebody about to wake it.                                               *)
LEMMA NoticeStep ==
    ASSUME LooperInv, [Next]_vars
    PROVE  NoticeInv'
<1>0. /\ TypeOK /\ CallsInv /\ NoticeInv /\ ExitInv /\ OrderInv /\ MadeInv
      /\ mTasks \in Seq(Task) /\ mTimedTasks \in Seq(Task) /\ pc \in [Client -> ClientPC]
  BY DEF LooperInv, TypeOK
<1>c. looper \notin Client
  BY ClientAssumption
<1>t. \A t \in Task : t.when \in Int
  BY TaskFacts
<1> USE DEF lists, flags, looperVars, clientVars, context, history
<1>1. ASSUME NEW c \in Client, Begin(c) \/ Continue(c)
      PROVE  NoticeInv'
  <2>1. CASE PostPush(c)
    <3>1. mTasks' = Append(mTasks, arg[c]) /\ arg[c] \in Task
      BY <2>1, <1>0 DEF PostPush, Goto, MadeInv, Making
    <3>2. /\ pc[c] = "push" /\ pc' = [pc EXCEPT ![c] = "size"]
          /\ UNCHANGED <<mTimedTasks, waiting, deadline, role>> /\ "post" \in role[c].verbs
      BY <2>1, <1>0 DEF PostPush, Goto, MadeInv, Making
    <3> SUFFICES ASSUME OneMover, looper \in waiting
                 PROVE  \E e \in Client : Waking(e)'
      BY <3>2 DEF NoticeInv, OneMover
    <3>3. CASE \E d \in Client : Waking(d)
      <4>1. PICK d \in Client : Waking(d)
        BY <3>3
      <4>2. d # c
        BY <3>2, <4>1 DEF Waking
      <4>3. pc[d] # "size"
        BY <1>0, <3>2, <4>2, OnlyMover DEF Moves
      <4>4. pc[d] = "signal" /\ pc'[d] = "signal"
        BY <1>0, <3>2, <4>1, <4>2, <4>3 DEF Waking
      <4> QED
        BY <4>4 DEF Waking
    <3>4. CASE mTasks = <<>>
      <4>1. Len(mTasks') = 1
        BY <1>0, <3>1, <3>4, AppendFacts, EmptyFacts
      <4>2. pc'[c] = "size"
        BY <1>0, <3>2
      <4> QED
        BY <4>1, <4>2 DEF Waking, FirstImmediate
    <3> QED
      BY <1>0, <3>3, <3>4 DEF NoticeInv
  <2>2. CASE PostSize(c)
    <3>1. UNCHANGED <<mTasks, mTimedTasks, deadline, role>>
      BY <2>2 DEF PostSize
    <3>2. looper \in waiting' => looper \in waiting
      BY <2>2, <1>c DEF PostSize
    <3>3. \A e \in Client : Waking(e) => Waking(e)'
      BY <2>2, <1>0, <3>1 DEF PostSize, Waking, Goto
    <3> QED
      BY <1>0, <3>1, <3>2, <3>3, NoticeFrame
  <2>3. CASE PostDelayed(c)
    <3>1. /\ mTimedTasks' = InsertTimed(mTimedTasks, arg[c])
          /\ Goto(c, "insert", IF FirstTimed(mTasks, mTimedTasks, arg[c])
                               THEN "signal" ELSE "idle")
      BY <2>3 DEF PostDelayed
    <3>2. PICK task : task = arg[c]
      OBVIOUS
    <3>3. task \in Task
      BY <1>0, <3>1, <3>2 DEF Goto, MadeInv, Making
    <3>4. UNCHANGED <<mTasks, waiting, deadline, role>>
      BY <2>3 DEF PostDelayed
    <3>5. Tasks(mTimedTasks') = Tasks(mTimedTasks) \cup {task}
      <4>1. mTimedTasks' = InsertTimed(mTimedTasks, task)
        BY <3>1, <3>2
      <4> QED
        BY <1>0, <1>t, <3>3, <4>1, InsertFacts
    <3>6. CASE FirstTimed(mTasks, mTimedTasks, task)
      <4>1. pc'[c] = "signal"
        BY <1>0, <3>1, <3>2, <3>6 DEF Goto
      <4> QED
        BY <4>1 DEF NoticeInv, Waking
    <3>7. CASE ~ FirstTimed(mTasks, mTimedTasks, task)
      <4>1. pc[c] = "insert" /\ pc' = [pc EXCEPT ![c] = "idle"]
        BY <1>0, <3>1, <3>2, <3>7 DEF Goto
      <4>2. \A e \in Client : Waking(e) => Waking(e)'
        BY <1>0, <3>4, <4>1 DEF Waking
      <4> SUFFICES ASSUME OneMover, looper \in waiting, mTasks = <<>>,
                          mTimedTasks # <<>> => deadline # Never,
                          \A t \in Tasks(mTimedTasks) : deadline <= t.when
                   PROVE  /\ mTimedTasks # <<>> => deadline # Never
                          /\ mTimedTasks # <<>>
                          /\ \A t \in Tasks(mTimedTasks) \cup {task} : deadline <= t.when
        BY <1>0, <3>4, <3>5, <4>2 DEF NoticeInv, OneMover
      <4>3. InsertIndex(mTimedTasks, task) # 1
        BY <3>7 DEF FirstTimed
      <4>4. /\ InsertIndex(mTimedTasks, task) \in 1..Len(mTimedTasks) + 1
            /\ \A i \in 1..InsertIndex(mTimedTasks, task) - 1 : mTimedTasks[i].when < task.when
        BY <1>0, <1>t, <3>3, IndexFacts
      <4>5. Len(mTimedTasks) \in Nat /\ DOMAIN mTimedTasks = 1..Len(mTimedTasks)
        BY <1>0, LenProperties
      <4>6. PICK n : n = InsertIndex(mTimedTasks, task)
        OBVIOUS
      <4>7. n \in Nat /\ n > 1 /\ n <= Len(mTimedTasks) + 1
        BY <4>3, <4>4, <4>5, <4>6
      <4>8. 1 \in 1..n - 1 /\ 1 \in 1..Len(mTimedTasks)
        BY <4>5, <4>7
      <4>9. mTimedTasks[1].when < task.when /\ mTimedTasks[1] \in Tasks(mTimedTasks)
        BY <4>4, <4>5, <4>6, <4>8 DEF Tasks
      <4>10. deadline <= mTimedTasks[1].when /\ mTimedTasks[1] \in Task
        BY <1>0, <4>5, <4>8, <4>9
      <4>11. deadline \in Int
        BY <1>0, TaskFacts DEF TypeOK, Never
      <4>12. deadline <= task.when
        BY <1>t, <3>3, <4>9, <4>10, <4>11
      <4>13. mTimedTasks # <<>>
        BY <4>5, <4>8, EmptyFacts
      <4> QED
        BY <4>12, <4>13
    <3> QED
      BY <3>6, <3>7
  <2>4. CASE Signal(c)
    <3>1. waiting \subseteq {looper}
      BY <2>4, <1>0 DEF Signal, Goto, ExitInv, Holders, TypeOK
    <3>2. looper \notin waiting'
      BY <2>4, <3>1 DEF Signal, WakeOne
    <3> QED
      BY <3>2, NoticeAwake
  <2>5. CASE BeginRemove(c)
    <3>1. UNCHANGED <<mTasks, mTimedTasks, deadline, role>>
      BY <2>5 DEF BeginRemove, BeginMerge, Call
    <3>2. looper \in waiting' => looper \in waiting
      BY <2>5, <1>c DEF BeginRemove, BeginMerge, Call
    <3>3. \A e \in Client : Waking(e) => Waking(e)'
      BY <2>5, <1>0, <3>1 DEF BeginRemove, BeginMerge, Call, Waking, Goto
    <3> QED
      BY <1>0, <3>1, <3>2, <3>3, NoticeFrame
  <2>6. CASE BeginExists(c)
    <3>1. UNCHANGED <<mTasks, mTimedTasks, deadline, role>>
      BY <2>6 DEF BeginExists, BeginMerge, Call
    <3>2. looper \in waiting' => looper \in waiting
      BY <2>6, <1>c DEF BeginExists, BeginMerge, Call
    <3>3. \A e \in Client : Waking(e) => Waking(e)'
      BY <2>6, <1>0, <3>1 DEF BeginExists, BeginMerge, Call, Waking, Goto
    <3> QED
      BY <1>0, <3>1, <3>2, <3>3, NoticeFrame
  <2>7. CASE MergeOne(c)
    <3>1. /\ Merging(c) /\ mTasks # <<>>
          /\ UNCHANGED <<waiting, deadline, role, pc>>
      BY <2>7 DEF MergeOne, Merging
    <3>2. role[c].verbs \cap Moves # {}
      BY <1>0, <3>1 DEF CallsInv, Moves
    <3> SUFFICES ASSUME OneMover, looper \in waiting
                 PROVE  \E e \in Client : Waking(e)'
      BY <3>1 DEF NoticeInv, OneMover
    <3>3. PICK d \in Client : Waking(d)
      BY <1>0, <3>1 DEF NoticeInv
    <3>4. d # c
      BY <3>1, <3>3 DEF Waking, Merging
    <3>5. pc[d] = "signal"
      BY <1>0, <3>2, <3>3, <3>4, OnlyMover DEF Waking
    <3> QED
      BY <3>1, <3>5 DEF Waking
  <2>8. CASE EndRemove(c)
    <3>1. /\ mTasks = <<>> /\ mTasks' = <<>> /\ pc[c] = "merge_remove"
          /\ UNCHANGED <<waiting, deadline, role>>
          /\ \E to \in {"signal", "idle"} : pc' = [pc EXCEPT ![c] = to]
      BY <2>8 DEF EndRemove, Goto
    <3>2. Tasks(mTimedTasks') \subseteq Tasks(mTimedTasks)
      <4>1. PICK sorted : sorted = SortByTime(mTimedTasks)
        OBVIOUS
      <4>2. sorted \in Seq(Task) /\ Tasks(sorted) = Tasks(mTimedTasks)
        BY <1>0, <1>t, <4>1, SortFacts
      <4>3. mTimedTasks' = WithoutJob(sorted, arg[c])
        BY <2>8, <4>1 DEF EndRemove
      <4> QED
        BY <4>2, <4>3, WithoutFacts
    <3>3. mTimedTasks' # <<>> => mTimedTasks # <<>>
      BY <1>0, <3>2, ListsStep, NoTasks

    <3> SUFFICES ASSUME OneMover, looper \in waiting
                 PROVE  \/ \E e \in Client : Waking(e)'
                        \/ /\ mTasks' = <<>>
                           /\ mTimedTasks' # <<>> => deadline # Never
                           /\ \A t \in Tasks(mTimedTasks') : deadline <= t.when
      BY <3>1 DEF NoticeInv, OneMover
    <3>4. CASE \E d \in Client : Waking(d)
      <4>1. PICK d \in Client : Waking(d)
        BY <3>4
      <4>2. d # c /\ pc[d] = "signal"
        BY <3>1, <4>1, EmptyFacts DEF Waking, FirstImmediate
      <4>3. pc'[d] = "signal"
        BY <1>0, <3>1, <4>2
      <4> QED
        BY <4>3 DEF Waking
    <3>5. CASE ~ \E d \in Client : Waking(d)
      BY <1>0, <3>1, <3>2, <3>3, <3>5 DEF NoticeInv
    <3> QED
      BY <3>4, <3>5
  <2>9. CASE EndExists(c)
    <3>1. /\ mTasks = <<>> /\ mTasks' = <<>> /\ pc[c] = "merge_exists"
          /\ UNCHANGED <<waiting, deadline, role>>
          /\ \E to \in {"signal", "idle"} : pc' = [pc EXCEPT ![c] = to]
      BY <2>9 DEF EndExists, Goto
    <3>2. Tasks(mTimedTasks') \subseteq Tasks(mTimedTasks)
      BY <2>9, <1>0, <1>t, SortFacts DEF EndExists
    <3>3. mTimedTasks' # <<>> => mTimedTasks # <<>>
      BY <1>0, <3>2, ListsStep, NoTasks

    <3> SUFFICES ASSUME OneMover, looper \in waiting
                 PROVE  \/ \E e \in Client : Waking(e)'
                        \/ /\ mTasks' = <<>>
                           /\ mTimedTasks' # <<>> => deadline # Never
                           /\ \A t \in Tasks(mTimedTasks') : deadline <= t.when
      BY <3>1 DEF NoticeInv, OneMover
    <3>4. CASE \E d \in Client : Waking(d)
      <4>1. PICK d \in Client : Waking(d)
        BY <3>4
      <4>2. d # c /\ pc[d] = "signal"
        BY <3>1, <4>1, EmptyFacts DEF Waking, FirstImmediate
      <4>3. pc'[d] = "signal"
        BY <1>0, <3>1, <4>2
      <4> QED
        BY <4>3 DEF Waking
    <3>5. CASE ~ \E d \in Client : Waking(d)
      BY <1>0, <3>1, <3>2, <3>3, <3>5 DEF NoticeInv
    <3> QED
      BY <3>4, <3>5
  <2>10. CASE Flush(c)
    <3>1. mTasks' = <<>> /\ mTimedTasks' = <<>>
      BY <2>10 DEF Flush
    <3> QED
      BY <3>1, EmptyFacts DEF NoticeInv
  <2>11. CASE Release(c)
    <3>1. UNCHANGED <<mTasks, mTimedTasks, deadline, role>>
      BY <2>11 DEF Release
    <3>2. looper \in waiting' => looper \in waiting
      BY <2>11, <1>c DEF Release
    <3>3. \A e \in Client : Waking(e) => Waking(e)'
      BY <2>11, <1>0, <3>1 DEF Release, Waking, Goto
    <3> QED
      BY <1>0, <3>1, <3>2, <3>3, NoticeFrame
  <2>12. CASE RequestExit(c)
    <3>1. UNCHANGED <<mTasks, mTimedTasks, deadline, role>>
      BY <2>12 DEF RequestExit
    <3>2. looper \in waiting' => looper \in waiting
      BY <2>12, <1>c DEF RequestExit
    <3>3. \A e \in Client : Waking(e) => Waking(e)'
      BY <2>12, <1>0, <3>1 DEF RequestExit, Waking, Goto
    <3> QED
      BY <1>0, <3>1, <3>2, <3>3, NoticeFrame
  <2>13. CASE AwaitExit(c)
    <3>1. UNCHANGED <<mTasks, mTimedTasks, deadline, role>>
      BY <2>13 DEF AwaitExit
    <3>2. looper \in waiting' => looper \in waiting
      BY <2>13, <1>c DEF AwaitExit
    <3>3. \A e \in Client : Waking(e) => Waking(e)'
      BY <2>13, <1>0, <3>1 DEF AwaitExit, Waking, Goto
    <3> QED
      BY <1>0, <3>1, <3>2, <3>3, NoticeFrame
  <2>14. CASE MakePost(c) \/ MakeDelayed(c)
    <3>1. /\ UNCHANGED <<mTasks, mTimedTasks, deadline, role, waiting>>
          /\ pc[c] = "idle" /\ (pc' = [pc EXCEPT ![c] = "push"] \/ pc' = [pc EXCEPT ![c] = "insert"])
      BY <2>14, MakeFacts
    <3>2. \A e \in Client : Waking(e) => Waking(e)'
      BY <1>0, <3>1 DEF Waking
    <3> QED
      BY <1>0, <3>1, <3>2, NoticeFrame
  <2> QED
    BY <1>1, <2>1, <2>2, <2>3, <2>4, <2>5, <2>6, <2>7, <2>8, <2>9, <2>10, <2>11, <2>12, <2>13, <2>14 DEF Begin, Continue
<1>2. CASE LooperNext
  <2>1. CASE PopTimed
    <3>1. looper \notin waiting'
      BY <2>1, <1>0, <1>c DEF PopTimed, Awake
    <3> QED
      BY <3>1, NoticeAwake
  <2>2. CASE PopImmediate
    <3>1. looper \notin waiting'
      BY <2>2, <1>0, <1>c DEF PopImmediate, Awake
    <3> QED
      BY <3>1, NoticeAwake
  <2>3. CASE SleepUntilDue
    <3>1. /\ mTasks' = <<>> /\ mTimedTasks' = mTimedTasks /\ mTimedTasks # <<>>
          /\ taskLock = None /\ deadline' = Head(mTimedTasks).when
      BY <2>3 DEF SleepUntilDue, Awake
    <3>2. IsSortedByTime(mTimedTasks)
      BY <1>0, <3>1 DEF OrderInv
    <3>3. PICK task : task = Head(mTimedTasks)
      OBVIOUS
    <3>4. /\ task \in Task
          /\ Tasks(mTimedTasks) = Tasks(Tail(mTimedTasks)) \cup {task}
          /\ \A t \in Tasks(Tail(mTimedTasks)) : task.when <= t.when
      BY <1>0, <3>1, <3>2, <3>3, TailFacts
    <3>5. task.when # Never /\ task.when <= task.when
      BY <3>4, TaskFacts
    <3>6. \A t \in Tasks(mTimedTasks) : task.when <= t.when
      BY <3>4, <3>5
    <3> QED
      BY <3>1, <3>3, <3>5, <3>6 DEF NoticeInv
  <2>4. CASE SleepIdle
    <3>1. mTasks' = <<>> /\ mTimedTasks' = <<>>
      BY <2>4 DEF SleepIdle
    <3> QED
      BY <3>1, EmptyFacts DEF NoticeInv
  <2>5. CASE LeaveLoop
    <3>1. looper \notin waiting'
      BY <2>5, <1>0, <1>c DEF LeaveLoop, Awake
    <3> QED
      BY <3>1, NoticeAwake
  <2>6. CASE Timeout
    <3>1. looper \notin waiting'
      BY <2>6, <1>0, <1>c DEF Timeout, Awake
    <3> QED
      BY <3>1, NoticeAwake
  <2>7. CASE RunJob
    <3>1. UNCHANGED <<mTasks, mTimedTasks, deadline, role>>
      BY <2>7 DEF RunJob
    <3>2. looper \in waiting' => looper \in waiting
      BY <2>7, <1>c DEF RunJob
    <3>3. \A e \in Client : Waking(e) => Waking(e)'
      BY <2>7, <1>0, <3>1 DEF RunJob, Waking
    <3> QED
      BY <1>0, <3>1, <3>2, <3>3, NoticeFrame
  <2>8. CASE DropTask
    <3>1. UNCHANGED <<mTasks, mTimedTasks, deadline, role>>
      BY <2>8 DEF DropTask
    <3>2. looper \in waiting' => looper \in waiting
      BY <2>8, <1>c DEF DropTask
    <3>3. \A e \in Client : Waking(e) => Waking(e)'
      BY <2>8, <1>0, <3>1 DEF DropTask, Waking
    <3> QED
      BY <1>0, <3>1, <3>2, <3>3, NoticeFrame
  <2>9. CASE Terminate
    <3>1. looper \notin waiting'
      BY <2>9, <1>0, <1>c DEF Terminate, Awake
    <3> QED
      BY <3>1, NoticeAwake
  <2> QED
    BY <1>2, <2>1, <2>2, <2>3, <2>4, <2>5, <2>6, <2>7, <2>8, <2>9 DEF LooperNext
<1>3. CASE SpuriousWakeup
  <2>1. UNCHANGED <<mTasks, mTimedTasks, deadline, role>>
    BY <1>3 DEF SpuriousWakeup
  <2>2. looper \in waiting' => looper \in waiting
    BY <1>3, <1>c DEF SpuriousWakeup
  <2>3. \A e \in Client : Waking(e) => Waking(e)'
    BY <1>3, <1>0, <2>1 DEF SpuriousWakeup, Waking
  <2> QED
    BY <1>0, <2>1, <2>2, <2>3, NoticeFrame
<1>4. CASE Tick
  <2>1. UNCHANGED <<mTasks, mTimedTasks, deadline, role>>
    BY <1>4 DEF Tick
  <2>2. looper \in waiting' => looper \in waiting
    BY <1>4, <1>c DEF Tick
  <2>3. \A e \in Client : Waking(e) => Waking(e)'
    BY <1>4, <1>0, <2>1 DEF Tick, Waking
  <2> QED
    BY <1>0, <2>1, <2>2, <2>3, NoticeFrame
<1>5. CASE UNCHANGED vars
  <2>1. UNCHANGED <<mTasks, mTimedTasks, deadline, role>>
    BY <1>5 DEF vars
  <2>2. looper \in waiting' => looper \in waiting
    BY <1>5, <1>c DEF vars
  <2>3. \A e \in Client : Waking(e) => Waking(e)'
    BY <1>5, <1>0, <2>1 DEF vars, Waking
  <2> QED
    BY <1>0, <2>1, <2>2, <2>3, NoticeFrame
<1> QED
  BY <1>1, <1>2, <1>3, <1>4, <1>5 DEF Next

-----------------------------------------------------------------------------
(* A task at the end of a list leaves it in order if those of its client are *)
(* no younger.                                                               *)
LEMMA AppendOrdered ==
    ASSUME NEW tasks \in Seq(Task), NEW task \in Task, InOrder(tasks),
           PostedBefore(Tasks(tasks), {task})
    PROVE  InOrder(Append(tasks, task))
<1>1. PICK n : n = Len(tasks)
  OBVIOUS
<1>2. PICK s : s = Append(tasks, task)
  OBVIOUS
<1>3. /\ n \in Nat /\ DOMAIN tasks = 1..n /\ DOMAIN s = 1..n + 1
      /\ \A i \in 1..n : s[i] = tasks[i] /\ tasks[i] \in Tasks(tasks)
      /\ s[n + 1] = task
  BY <1>1, <1>2, LenProperties, AppendProperties DEF Tasks
<1>4. ASSUME NEW i \in 1..n + 1, NEW j \in 1..n + 1, i < j,
             s[i].delay = 0, s[j].delay = 0, s[i].id[1] = s[j].id[1]
      PROVE  s[i].when <= s[j].when
  <2>1. i \in 1..n
    BY <1>3, <1>4
  <2>2. CASE j = n + 1
    BY <1>3, <1>4, <2>1, <2>2 DEF PostedBefore
  <2>3. CASE j # n + 1
    <3>1. j \in 1..n
      BY <1>3, <2>3
    <3> QED
      BY <1>3, <1>4, <2>1, <3>1 DEF InOrder
  <2> QED
    BY <2>2, <2>3
<1> QED
  BY <1>2, <1>3, <1>4 DEF InOrder

(* The first of a list in order is no younger than the others of its client. *)
LEMMA TailOrdered ==
    ASSUME NEW tasks \in Seq(Task), tasks # <<>>, InOrder(tasks)
    PROVE  InOrder(Tail(tasks)) /\ PostedBefore({Head(tasks)}, Tasks(Tail(tasks)))
<1>1. PICK n : n = Len(tasks)
  OBVIOUS
<1>2. PICK s : s = Tail(tasks)
  OBVIOUS
<1>3. /\ n \in Nat \ {0} /\ DOMAIN tasks = 1..n /\ DOMAIN s = 1..n - 1
      /\ \A i \in 1..n - 1 : s[i] = tasks[i + 1] /\ i + 1 \in 1..n
      /\ Head(tasks) = tasks[1]
  <2>1. s \in Seq(Task) /\ Len(s) = n - 1 /\ n \in Nat \ {0} /\ Head(tasks) = tasks[1]
    BY <1>1, <1>2, TailFacts
  <2>2. \A i \in 1..n - 1 : s[i] = tasks[i + 1]
    BY <1>1, <1>2, <2>1, HeadTailProperties
  <2> QED
    BY <1>1, <2>1, <2>2, LenProperties
<1>4. InOrder(s)
  <2> SUFFICES ASSUME NEW i \in 1..n - 1, NEW j \in 1..n - 1, i < j,
                      s[i].delay = 0, s[j].delay = 0, s[i].id[1] = s[j].id[1]
               PROVE  s[i].when <= s[j].when
    BY <1>3 DEF InOrder
  <2>1. i + 1 \in DOMAIN tasks /\ j + 1 \in DOMAIN tasks /\ i + 1 < j + 1
    BY <1>3
  <2>2. s[i] = tasks[i + 1] /\ s[j] = tasks[j + 1]
    BY <1>3
  <2>3. /\ tasks[i + 1].delay = 0 /\ tasks[j + 1].delay = 0
        /\ tasks[i + 1].id[1] = tasks[j + 1].id[1]
    BY <2>2
  <2>4. tasks[i + 1].when <= tasks[j + 1].when
    BY <2>1, <2>3 DEF InOrder
  <2> QED
    BY <2>2, <2>4
<1>5. PostedBefore({tasks[1]}, Tasks(s))
  <2> SUFFICES ASSUME NEW i \in 1..n - 1,
                      tasks[1].delay = 0, s[i].delay = 0, tasks[1].id[1] = s[i].id[1]
               PROVE  tasks[1].when <= s[i].when
    BY <1>3 DEF PostedBefore, Tasks
  <2>1. 1 \in 1..n /\ i + 1 \in 1..n /\ 1 < i + 1
    BY <1>3
  <2> QED
    BY <1>3, <2>1 DEF InOrder
<1> QED
  BY <1>2, <1>3, <1>4, <1>5

(* A step that takes no task without a delay to another place. *)
LEMMA OrderFrame ==
    ASSUME TypeOK, OrderInv, ran' = ran, RunningTask' \subseteq RunningTask,
           RunningTask \subseteq Task, now' \in Int, now <= now',
           Tasks(mTasks') \subseteq Tasks(mTasks), InOrder(mTasks'),
           \A t \in Tasks(mTimedTasks') : t.delay = 0 => t \in Tasks(mTimedTasks),
           taskLock' = None => IsSortedByTime(mTimedTasks')
    PROVE  OrderInv' /\ Kept
<1>1. \A t \in Tasks(mTasks') \cup Tasks(mTimedTasks') \cup RunningTask' \cup Tasks(ran) :
         t.delay = 0 => t.when <= now'
  <2> SUFFICES ASSUME NEW t \in Tasks(mTasks') \cup Tasks(mTimedTasks') \cup RunningTask'
                              \cup Tasks(ran),
                      t.delay = 0
               PROVE  t.when <= now'
    OBVIOUS
  <2>1. t \in Tasks(mTasks) \cup Tasks(mTimedTasks) \cup RunningTask \cup Tasks(ran)
    OBVIOUS
  <2>2. t \in Task
    BY <2>1 DEF TypeOK, Tasks
  <2>3. t.when \in Int /\ now \in Int
    BY <2>2, TaskFacts DEF TypeOK
  <2>4. t.when <= now
    BY <2>1 DEF OrderInv
  <2> QED
    BY <2>3, <2>4
<1>2. /\ PostedBefore(Tasks(mTimedTasks'), Tasks(mTasks'))
      /\ PostedBefore(RunningTask', Tasks(mTasks') \cup Tasks(mTimedTasks'))
      /\ PostedBefore(Tasks(ran), RunningTask' \cup Tasks(mTasks') \cup Tasks(mTimedTasks'))
  BY DEF OrderInv, PostedBefore
<1>3. Kept
  BY DEF Kept, AllTasks
<1> QED
  BY <1>1, <1>2, <1>3 DEF OrderInv

(* Every step keeps the jobs posted without a delay in the order of their *)
(* times.                                                                 *)
LEMMA OrderStep ==
    ASSUME LooperInv, [Next]_vars
    PROVE  OrderInv' /\ Kept
<1>0. /\ TypeOK /\ CallsInv /\ OrderInv /\ MadeInv /\ now \in Int /\ now <= now
      /\ mTasks \in Seq(Task) /\ mTimedTasks \in Seq(Task) /\ ran \in Seq(Task)
      /\ InOrder(mTasks)
      /\ taskLock = None => IsSortedByTime(mTimedTasks)
  BY TaskFacts DEF LooperInv, TypeOK, OrderInv
<1>c. None \notin Client
  BY ClientAssumption
<1>t. \A t \in Task : t.when \in Int
  BY TaskFacts
<1>r. RunningTask \subseteq Task
  BY <1>0 DEF RunningTask, CallsInv
<1> USE DEF lists, flags, looperVars, clientVars, context, history
<1>1. ASSUME NEW c \in Client, Begin(c) \/ Continue(c)
      PROVE  OrderInv' /\ Kept
  <2>1. CASE PostPush(c)
    <3>1. PICK task : task = arg[c]
      OBVIOUS
    <3>2. /\ task \in Task /\ task.delay = 0 /\ task.when <= now /\ task.id[1] = c
          /\ PostedBefore(AllTasks, {task})
      BY <2>1, <1>0, <3>1 DEF PostPush, Goto, MadeInv, Making, PostedBefore
    <3>3. mTasks' = Append(mTasks, task)
      BY <2>1, <3>1 DEF PostPush
    <3>4. Tasks(mTasks') = Tasks(mTasks) \cup {task}
      BY <1>0, <3>2, <3>3, AppendFacts
    <3>5. InOrder(mTasks')
      <4>1. PostedBefore(Tasks(mTasks), {task})
        BY <3>2 DEF PostedBefore, AllTasks
      <4> QED
        BY <1>0, <3>2, <3>3, <4>1, AppendOrdered
    <3>6. /\ UNCHANGED <<ran, mTimedTasks, taskLock, now>> /\ RunningTask' = RunningTask
      BY <2>1 DEF PostPush, RunningTask
    <3>7. /\ PostedBefore(Tasks(mTimedTasks), Tasks(mTasks) \cup {task})
          /\ PostedBefore(RunningTask, Tasks(mTasks) \cup {task} \cup Tasks(mTimedTasks))
          /\ PostedBefore(Tasks(ran), RunningTask \cup (Tasks(mTasks) \cup {task}) \cup Tasks(mTimedTasks))
      BY <1>0, <3>2 DEF OrderInv, PostedBefore, AllTasks
    <3>8. Kept
      BY <2>1, <3>1, <3>4, <3>6 DEF Kept, AllTasks
    <3> QED
      BY <1>0, <3>2, <3>4, <3>5, <3>6, <3>7, <3>8 DEF OrderInv
  <2>2. CASE PostSize(c)
    <3>1. /\ UNCHANGED <<ran, mTasks, mTimedTasks, now>>
          /\ taskLock' = None => taskLock = None
      BY <2>2, <1>c DEF PostSize
    <3>2. RunningTask' \subseteq RunningTask
      BY <2>2 DEF PostSize, RunningTask
    <3> QED
      BY <1>0, <1>r, <3>1, <3>2, OrderFrame
  <2>3. CASE PostDelayed(c)
    <3>2. PICK task : task = arg[c]
      OBVIOUS
    <3>3. task \in Task /\ task.delay # 0
      BY <2>3, <1>0, <3>2 DEF PostDelayed, Goto, MadeInv, Making
    <3>4. mTimedTasks' = InsertTimed(mTimedTasks, task)
      BY <2>3, <3>2 DEF PostDelayed
    <3>5. /\ Tasks(mTimedTasks') = Tasks(mTimedTasks) \cup {task}
          /\ IsSortedByTime(mTimedTasks) => IsSortedByTime(mTimedTasks')
      BY <1>0, <1>t, <3>3, <3>4, InsertFacts, ZenonT(30)
    <3>6. UNCHANGED <<ran, mTasks, taskLock, now>> /\ taskLock = None
      BY <2>3 DEF PostDelayed
    <3>7. RunningTask' \subseteq RunningTask
      BY <2>3 DEF PostDelayed, RunningTask
    <3> QED
      BY <1>0, <1>r, <3>3, <3>5, <3>6, <3>7, OrderFrame
  <2>4. CASE Signal(c)
    <3>1. /\ UNCHANGED <<ran, mTasks, mTimedTasks, now>>
          /\ taskLock' = None => taskLock = None
      BY <2>4, <1>c DEF Signal
    <3>2. RunningTask' \subseteq RunningTask
      BY <2>4 DEF Signal, RunningTask
    <3> QED
      BY <1>0, <1>r, <3>1, <3>2, OrderFrame
  <2>5. CASE BeginRemove(c)
    <3>1. /\ UNCHANGED <<ran, mTasks, mTimedTasks, now>>
          /\ taskLock' = None => taskLock = None
      BY <2>5, <1>c DEF BeginRemove, BeginMerge, Call
    <3>2. RunningTask' \subseteq RunningTask
      BY <2>5 DEF BeginRemove, BeginMerge, Call, RunningTask
    <3> QED
      BY <1>0, <1>r, <3>1, <3>2, OrderFrame
  <2>6. CASE BeginExists(c)
    <3>1. /\ UNCHANGED <<ran, mTasks, mTimedTasks, now>>
          /\ taskLock' = None => taskLock = None
      BY <2>6, <1>c DEF BeginExists, BeginMerge, Call
    <3>2. RunningTask' \subseteq RunningTask
      BY <2>6 DEF BeginExists, BeginMerge, Call, RunningTask
    <3> QED
      BY <1>0, <1>r, <3>1, <3>2, OrderFrame
  <2>7. CASE MergeOne(c)
    <3>1. PICK task : task = Head(mTasks)
      OBVIOUS
    <3>2. PICK rest : rest = Tail(mTasks)
      OBVIOUS
    <3>3. /\ task \in Task /\ rest \in Seq(Task)
          /\ Tasks(mTasks) = Tasks(rest) \cup {task}
          /\ InOrder(rest) /\ PostedBefore({task}, Tasks(rest))
      BY <2>7, <1>0, <3>1, <3>2, TailFacts, TailOrdered DEF MergeOne
    <3>4. Tasks(mTimedTasks') = Tasks(mTimedTasks) \cup {task}
      <4>1. PICK front : front = <<task>>
        OBVIOUS
      <4>2. front \in Seq(Task) /\ Tasks(front) = {task}
        BY <3>3, <4>1 DEF Tasks
      <4>3. mTimedTasks' = front \o mTimedTasks
        BY <2>7, <3>1, <4>1 DEF MergeOne
      <4>4. Tasks(front \o mTimedTasks) = Tasks(front) \cup Tasks(mTimedTasks)
        BY <1>0, <4>2, ConcatFacts
      <4> QED
        BY <4>2, <4>3, <4>4
    <3>5. mTasks' = rest /\ UNCHANGED <<ran, taskLock, now>> /\ RunningTask' = RunningTask
      BY <2>7, <3>2 DEF MergeOne, RunningTask
    <3>6. taskLock # None
      BY <2>7, <1>0, <1>c DEF MergeOne, CallsInv, Merging
    <3>7. /\ PostedBefore(Tasks(mTimedTasks) \cup {task}, Tasks(rest))
          /\ PostedBefore(RunningTask, Tasks(rest) \cup (Tasks(mTimedTasks) \cup {task}))
          /\ PostedBefore(Tasks(ran), RunningTask \cup Tasks(rest) \cup (Tasks(mTimedTasks) \cup {task}))
      BY <1>0, <3>3 DEF OrderInv, PostedBefore
    <3>8. Kept
      BY <3>3, <3>4, <3>5 DEF Kept, AllTasks
    <3> QED
      BY <1>0, <3>3, <3>4, <3>5, <3>6, <3>7, <3>8 DEF OrderInv
  <2>8. CASE EndRemove(c)
    <3>1. Tasks(mTimedTasks') \subseteq Tasks(mTimedTasks) /\ IsSortedByTime(mTimedTasks')
      <4>1. PICK sorted : sorted = SortByTime(mTimedTasks)
        OBVIOUS
      <4>2. /\ sorted \in Seq(Task) /\ Tasks(sorted) = Tasks(mTimedTasks)
            /\ IsSortedByTime(sorted)
        BY <1>0, <1>t, <4>1, SortFacts
      <4>3. mTimedTasks' = WithoutJob(sorted, arg[c])
        BY <2>8, <4>1 DEF EndRemove
      <4> QED
        BY <4>2, <4>3, WithoutFacts

    <3>2. UNCHANGED <<ran, mTasks, now>>
      BY <2>8 DEF EndRemove
    <3>3. RunningTask' \subseteq RunningTask
      BY <2>8 DEF EndRemove, RunningTask
    <3> QED
      BY <1>0, <1>r, <3>1, <3>2, <3>3, OrderFrame
  <2>9. CASE EndExists(c)
    <3>1. Tasks(mTimedTasks') \subseteq Tasks(mTimedTasks) /\ IsSortedByTime(mTimedTasks')
      BY <2>9, <1>0, <1>t, SortFacts DEF EndExists

    <3>2. UNCHANGED <<ran, mTasks, now>>
      BY <2>9 DEF EndExists
    <3>3. RunningTask' \subseteq RunningTask
      BY <2>9 DEF EndExists, RunningTask
    <3> QED
      BY <1>0, <1>r, <3>1, <3>2, <3>3, OrderFrame
  <2>10. CASE Flush(c)
    <3>1. mTasks' = <<>> /\ mTimedTasks' = <<>> /\ UNCHANGED <<ran, now>>
      BY <2>10 DEF Flush
    <3>2. RunningTask' \subseteq RunningTask
      BY <2>10 DEF Flush, RunningTask
    <3>3. InOrder(<<>>)
      BY DEF InOrder
    <3> QED
      BY <1>0, <1>r, <3>1, <3>2, <3>3, EmptyFacts, OrderFrame
  <2>11. CASE Release(c)
    <3>1. /\ UNCHANGED <<ran, mTasks, mTimedTasks, now>>
          /\ taskLock' = None => taskLock = None
      BY <2>11, <1>c DEF Release
    <3>2. RunningTask' \subseteq RunningTask
      BY <2>11 DEF Release, RunningTask
    <3> QED
      BY <1>0, <1>r, <3>1, <3>2, OrderFrame
  <2>12. CASE RequestExit(c)
    <3>1. /\ UNCHANGED <<ran, mTasks, mTimedTasks, now>>
          /\ taskLock' = None => taskLock = None
      BY <2>12, <1>c DEF RequestExit
    <3>2. RunningTask' \subseteq RunningTask
      BY <2>12 DEF RequestExit, RunningTask
    <3> QED
      BY <1>0, <1>r, <3>1, <3>2, OrderFrame
  <2>13. CASE AwaitExit(c)
    <3>1. /\ UNCHANGED <<ran, mTasks, mTimedTasks, now>>
          /\ taskLock' = None => taskLock = None
      BY <2>13, <1>c DEF AwaitExit
    <3>2. RunningTask' \subseteq RunningTask
      BY <2>13 DEF AwaitExit, RunningTask
    <3> QED
      BY <1>0, <1>r, <3>1, <3>2, OrderFrame
  <2>14. CASE MakePost(c) \/ MakeDelayed(c)
    <3>1. UNCHANGED <<ran, mTasks, mTimedTasks, now, taskLock, lpc, current>>
      BY <2>14, MakeFacts
    <3>2. RunningTask' \subseteq RunningTask
      BY <3>1 DEF RunningTask
    <3> QED
      BY <1>0, <1>r, <3>1, <3>2, OrderFrame
  <2> QED
    BY <1>1, <2>1, <2>2, <2>3, <2>4, <2>5, <2>6, <2>7, <2>8, <2>9, <2>10, <2>11, <2>12, <2>13, <2>14 DEF Begin, Continue
<1>2. CASE LooperNext
  <2>1. CASE PopTimed
    <3>1. PICK task : task = Head(mTimedTasks)
      OBVIOUS
    <3>2. PICK rest : rest = Tail(mTimedTasks)
      OBVIOUS
    <3>3. /\ task \in Task /\ Tasks(mTimedTasks) = Tasks(rest) \cup {task}
          /\ IsSortedByTime(rest) /\ \A t \in Tasks(rest) : task.when <= t.when
      BY <2>1, <1>0, <3>1, <3>2, TailFacts DEF PopTimed, IsDue, Awake
    <3>4. /\ mTimedTasks' = rest /\ UNCHANGED <<mTasks, taskLock, ran, now>>
          /\ RunningTask = {} /\ RunningTask' = {task}
      BY <2>1, <3>1, <3>2 DEF PopTimed, Awake, RunningTask
    <3>5. /\ PostedBefore(Tasks(rest), Tasks(mTasks))
          /\ PostedBefore({task}, Tasks(mTasks) \cup Tasks(rest))
          /\ PostedBefore(Tasks(ran), {task} \cup Tasks(mTasks) \cup Tasks(rest))
      BY <1>0, <3>3 DEF OrderInv, PostedBefore
    <3>6. Kept
      BY <3>3, <3>4 DEF Kept, AllTasks
    <3> QED
      BY <1>0, <3>3, <3>4, <3>5, <3>6 DEF OrderInv
  <2>2. CASE PopImmediate
    <3>1. PICK task : task = Head(mTasks)
      OBVIOUS
    <3>2. PICK rest : rest = Tail(mTasks)
      OBVIOUS
    <3>3. /\ task \in Task /\ Tasks(mTasks) = Tasks(rest) \cup {task}
          /\ InOrder(rest) /\ PostedBefore({task}, Tasks(rest))
      BY <2>2, <1>0, <3>1, <3>2, TailFacts, TailOrdered DEF PopImmediate
    <3>4. /\ mTasks' = rest /\ UNCHANGED <<mTimedTasks, taskLock, ran, now>>
          /\ RunningTask = {} /\ RunningTask' = {task}
      BY <2>2, <3>1, <3>2 DEF PopImmediate, Awake, RunningTask
    <3>5. \A t \in Tasks(mTimedTasks) : t.delay # 0
      <4> SUFFICES ASSUME NEW t \in Tasks(mTimedTasks), t.delay = 0
                   PROVE  FALSE
        OBVIOUS
      <4>1. t.when <= now /\ mTimedTasks # <<>>
        BY <1>0, EmptyFacts DEF OrderInv
      <4>2. PICK first : first = Head(mTimedTasks)
        OBVIOUS
      <4>3. IsSortedByTime(mTimedTasks)
        BY <2>2, <1>0 DEF PopImmediate, Awake
      <4>4. first \in Task /\ (t = first \/ first.when <= t.when)
        BY <1>0, <4>1, <4>2, <4>3, TailFacts
      <4>5. t \in Task
        BY <1>0 DEF Tasks
      <4>6. first.when \in Int /\ t.when \in Int
        BY <1>t, <4>4, <4>5
      <4>7. first.when <= t.when
        BY <4>4, <4>6
      <4>8. first.when <= now + Jitter
        BY <1>0, <4>1, <4>6, <4>7, JitterAssumption
      <4> QED
        BY <2>2, <4>1, <4>2, <4>8 DEF PopImmediate, IsDue
    <3>6. /\ PostedBefore(Tasks(mTimedTasks), Tasks(rest))
          /\ PostedBefore({task}, Tasks(rest) \cup Tasks(mTimedTasks))
          /\ PostedBefore(Tasks(ran), {task} \cup Tasks(rest) \cup Tasks(mTimedTasks))
      BY <1>0, <3>3, <3>5 DEF OrderInv, PostedBefore
    <3>7. Kept
      BY <3>3, <3>4 DEF Kept, AllTasks
    <3> QED
      BY <1>0, <3>3, <3>4, <3>6, <3>7 DEF OrderInv
  <2>3. CASE SleepUntilDue
    <3>1. /\ UNCHANGED <<ran, mTasks, mTimedTasks, now>>
          /\ taskLock' = None => taskLock = None
      BY <2>3, <1>c DEF SleepUntilDue, Awake
    <3>2. RunningTask' \subseteq RunningTask
      BY <2>3 DEF SleepUntilDue, Awake, RunningTask
    <3> QED
      BY <1>0, <1>r, <3>1, <3>2, OrderFrame
  <2>4. CASE SleepIdle
    <3>1. /\ UNCHANGED <<ran, mTasks, mTimedTasks, now>>
          /\ taskLock' = None => taskLock = None
      BY <2>4, <1>c DEF SleepIdle, Awake
    <3>2. RunningTask' \subseteq RunningTask
      BY <2>4 DEF SleepIdle, Awake, RunningTask
    <3> QED
      BY <1>0, <1>r, <3>1, <3>2, OrderFrame
  <2>5. CASE LeaveLoop
    <3>1. /\ UNCHANGED <<ran, mTasks, mTimedTasks, now>>
          /\ taskLock' = None => taskLock = None
      BY <2>5, <1>c DEF LeaveLoop, Awake
    <3>2. RunningTask' \subseteq RunningTask
      BY <2>5 DEF LeaveLoop, Awake, RunningTask
    <3> QED
      BY <1>0, <1>r, <3>1, <3>2, OrderFrame
  <2>6. CASE Timeout
    <3>1. /\ UNCHANGED <<ran, mTasks, mTimedTasks, now>>
          /\ taskLock' = None => taskLock = None
      BY <2>6, <1>c DEF Timeout
    <3>2. RunningTask' \subseteq RunningTask
      BY <2>6 DEF Timeout, RunningTask
    <3> QED
      BY <1>0, <1>r, <3>1, <3>2, OrderFrame
  <2>7. CASE RunJob
    <3>1. PICK task : task = current
      OBVIOUS
    <3>2. task \in Task /\ RunningTask = {task} /\ RunningTask' = {}
      BY <2>7, <1>0, <3>1 DEF RunJob, CallsInv, RunningTask
    <3>3. ran' = Append(ran, task) /\ UNCHANGED <<mTasks, mTimedTasks, taskLock, now>>
      BY <2>7, <3>1 DEF RunJob
    <3>4. Tasks(ran') = Tasks(ran) \cup {task}
      BY <1>0, <3>2, <3>3, AppendFacts
    <3>5. /\ PostedBefore({}, Tasks(mTasks) \cup Tasks(mTimedTasks))
          /\ PostedBefore(Tasks(ran) \cup {task}, {} \cup Tasks(mTasks) \cup Tasks(mTimedTasks))
      BY <1>0, <3>2 DEF OrderInv, PostedBefore
    <3>6. InOrder(ran')
      <4>1. PostedBefore(Tasks(ran), {task}) /\ InOrder(ran)
        BY <1>0, <3>2 DEF OrderInv, PostedBefore
      <4> QED
        BY <1>0, <3>2, <3>3, <4>1, AppendOrdered
    <3>7. Kept
      BY <3>2, <3>3, <3>4 DEF Kept, AllTasks
    <3> QED
      BY <1>0, <3>2, <3>3, <3>4, <3>5, <3>6, <3>7 DEF OrderInv
  <2>8. CASE DropTask
    <3>1. /\ UNCHANGED <<ran, mTasks, mTimedTasks, now>>
          /\ taskLock' = None => taskLock = None
      BY <2>8, <1>c DEF DropTask
    <3>2. RunningTask' \subseteq RunningTask
      BY <2>8 DEF DropTask, RunningTask
    <3> QED
      BY <1>0, <1>r, <3>1, <3>2, OrderFrame
  <2>9. CASE Terminate
    <3>1. /\ UNCHANGED <<ran, mTasks, mTimedTasks, now>>
          /\ taskLock' = None => taskLock = None
      BY <2>9, <1>c DEF Terminate
    <3>2. RunningTask' \subseteq RunningTask
      BY <2>9 DEF Terminate, RunningTask
    <3> QED
      BY <1>0, <1>r, <3>1, <3>2, OrderFrame
  <2> QED
    BY <1>2, <2>1, <2>2, <2>3, <2>4, <2>5, <2>6, <2>7, <2>8, <2>9 DEF LooperNext
<1>3. CASE SpuriousWakeup
  <2>1. /\ UNCHANGED <<ran, mTasks, mTimedTasks, now>>
        /\ taskLock' = None => taskLock = None
    BY <1>3, <1>c DEF SpuriousWakeup
  <2>2. RunningTask' \subseteq RunningTask
    BY <1>3 DEF SpuriousWakeup, RunningTask
  <2> QED
    BY <1>0, <1>r, <2>1, <2>2, OrderFrame
<1>4. CASE Tick
  <2>1. /\ UNCHANGED <<ran, mTasks, mTimedTasks, taskLock>>
        /\ now' \in Int /\ now <= now'
    BY <1>4, <1>0 DEF Tick
  <2>2. RunningTask' \subseteq RunningTask
    BY <1>4 DEF Tick, RunningTask
  <2> QED
    BY <1>0, <1>r, <2>1, <2>2, OrderFrame
<1>5. CASE UNCHANGED vars
  <2>1. /\ UNCHANGED <<ran, mTasks, mTimedTasks, now>>
        /\ taskLock' = None => taskLock = None
    BY <1>5, <1>c DEF vars
  <2>2. RunningTask' \subseteq RunningTask
    BY <1>5 DEF vars, RunningTask
  <2> QED
    BY <1>0, <1>r, <2>1, <2>2, OrderFrame
<1> QED
  BY <1>1, <1>2, <1>3, <1>4, <1>5 DEF Next

(* A step in which nobody but e posts, and nobody makes a task. *)
LEMMA MadeFrame ==
    ASSUME TypeOK, MadeInv, NEW e, now <= now', now' \in Int, role' = role,
           \A c \in Client : Making(c)' =>
               c # e /\ Making(c) /\ pc'[c] = pc[c] /\ arg'[c] = arg[c] /\ calls'[c] = calls[c],
           \A id \in posted' : id \in posted \/ id[1] = e,
           \A t \in AllTasks' : t.delay = 0 => t \in AllTasks \/ t.id[1] = e
    PROVE  MadeInv'
<1> SUFFICES ASSUME NEW c \in Client, Making(c)'
             PROVE  /\ arg'[c] \in Task /\ arg'[c].id = <<c, calls'[c]>>
                    /\ arg'[c].id \notin posted'
                    /\ pc'[c] = "insert" => arg'[c].delay # 0
                    /\ pc'[c] = "push" =>
                          /\ arg'[c].delay = 0 /\ arg'[c].when <= now'
                          /\ "post" \in role'[c].verbs
                          /\ \A t \in AllTasks' :
                                t.delay = 0 /\ t.id[1] = c => t.when <= arg'[c].when
  BY DEF MadeInv
<1>1. c # e /\ Making(c) /\ pc'[c] = pc[c] /\ arg'[c] = arg[c] /\ calls'[c] = calls[c]
  OBVIOUS
<1>2. /\ arg[c] \in Task /\ arg[c].id = <<c, calls[c]>> /\ arg[c].id \notin posted
      /\ pc[c] = "insert" => arg[c].delay # 0
  BY <1>1 DEF MadeInv
<1>3. arg[c].id[1] = c
  BY <1>2
<1>4. ASSUME pc[c] = "push"
      PROVE  /\ arg[c].delay = 0 /\ arg[c].when <= now'
             /\ "post" \in role[c].verbs
             /\ \A t \in AllTasks' :
                   t.delay = 0 /\ t.id[1] = c => t.when <= arg[c].when
  <2>1. /\ arg[c].delay = 0 /\ arg[c].when <= now /\ "post" \in role[c].verbs
        /\ \A t \in AllTasks : t.delay = 0 /\ t.id[1] = c => t.when <= arg[c].when
    BY <1>1, <1>4 DEF MadeInv
  <2>2. arg[c].when \in Int /\ now \in Int
    BY <1>2, TaskFacts DEF TypeOK
  <2> QED
    BY <1>1, <2>1, <2>2
<1> QED
  BY <1>1, <1>2, <1>3, <1>4

(* Every step keeps what a task on its way to a list is. *)
LEMMA MadeStep ==
    ASSUME LooperInv, [Next]_vars
    PROVE  MadeInv'
<1>0. TypeOK /\ MadeInv /\ OrderInv /\ PlacesInv /\ pc \in [Client -> ClientPC] /\ now \in Int /\ now <= now
  BY TaskFacts DEF LooperInv, TypeOK
<1>1. Kept /\ looper \notin Client
  BY OrderStep, ClientAssumption
<1>2. ASSUME NEW c \in Client, MakePost(c) \/ MakeDelayed(c)
      PROVE  MadeInv'
  <2>1. PICK task \in Task :
           /\ arg' = [arg EXCEPT ![c] = task]
           /\ task.id = <<c, calls[c] + 1>> /\ task.id \notin posted
           /\ \/ /\ pc' = [pc EXCEPT ![c] = "push"]
                 /\ task.delay = 0 /\ task.when = now /\ "post" \in role[c].verbs
              \/ pc' = [pc EXCEPT ![c] = "insert"] /\ task.delay # 0
    BY <1>2, MakeFacts
  <2>2. /\ calls' = [calls EXCEPT ![c] = calls[c] + 1] /\ now' = now /\ role' = role
        /\ posted' = posted /\ UNCHANGED <<mTasks, mTimedTasks, ran, lpc, current>>
    BY <1>2, MakeFacts DEF lists, looperVars, context, history
  <2>3. AllTasks' = AllTasks
    BY <2>2 DEF AllTasks, RunningTask
  <2>4. \A t \in AllTasks : t.delay = 0 => t.when <= now
    BY <1>0 DEF OrderInv, AllTasks
  <2>5. arg \in [Client -> Job \cup Task \cup {None}] /\ calls \in [Client -> 0..MaxCalls]
    BY <1>0 DEF TypeOK
  <2>6. arg'[c] = task /\ calls'[c] = calls[c] + 1 /\ pc'[c] \in {"push", "insert"}
    BY <1>0, <2>1, <2>2, <2>5
  <2>7. ASSUME NEW d \in Client, d # c
        PROVE  arg'[d] = arg[d] /\ calls'[d] = calls[d] /\ pc'[d] = pc[d]
    BY <1>0, <2>1, <2>2, <2>5, <2>7
  <2>8. ASSUME NEW d \in Client, Making(d)'
        PROVE  /\ arg'[d] \in Task /\ arg'[d].id = <<d, calls'[d]>>
               /\ arg'[d].id \notin posted'
               /\ pc'[d] = "insert" => arg'[d].delay # 0
               /\ pc'[d] = "push" =>
                     /\ arg'[d].delay = 0 /\ arg'[d].when <= now'
                     /\ "post" \in role'[d].verbs
                     /\ \A t \in AllTasks' :
                           t.delay = 0 /\ t.id[1] = d => t.when <= arg'[d].when
    <3>1. CASE d = c
      <4>1. pc'[c] = "push" => task.delay = 0 /\ task.when = now /\ "post" \in role[c].verbs
        BY <1>0, <2>1
      <4>2. pc'[c] = "insert" => task.delay # 0
        BY <1>0, <2>1
      <4> QED
        BY <1>0, <2>1, <2>2, <2>3, <2>4, <2>6, <3>1, <4>1, <4>2
    <3>2. CASE d # c
      <4>1. Making(d) /\ arg'[d] = arg[d] /\ calls'[d] = calls[d] /\ pc'[d] = pc[d]
        BY <2>7, <2>8, <3>2 DEF Making
      <4> QED
        BY <1>0, <2>2, <2>3, <4>1 DEF MadeInv
    <3> QED
      BY <3>1, <3>2
  <2> QED
    BY <2>8 DEF MadeInv
<1>3. ASSUME NEW c \in Client, PostPush(c) \/ PostDelayed(c)
      PROVE  MadeInv'
  <2>1. /\ pc[c] \in {"push", "insert"} /\ pc'[c] \notin {"push", "insert"}
        /\ \A d \in Client : d # c => pc'[d] = pc[d] /\ arg'[d] = arg[d]
        /\ UNCHANGED <<calls, role, now>> /\ posted' = posted \cup {arg[c].id}
    BY <1>0, <1>3 DEF PostPush, PostDelayed, Posted, Goto, context, TypeOK
  <2>2. arg[c].id[1] = c
    BY <1>0, <2>1 DEF MadeInv, Making
  <2>3. \A d \in Client : Making(d)' =>
            d # c /\ Making(d) /\ pc'[d] = pc[d] /\ arg'[d] = arg[d] /\ calls'[d] = calls[d]
    BY <2>1 DEF Making
  <2>4. \A t \in AllTasks' : t.delay = 0 => t \in AllTasks \/ t.id[1] = c
    <3>1. \A d \in Client : PostPush(d) => d = c
      BY <1>0, <2>1 DEF PostPush, Goto
    <3> QED
      BY <1>1, <2>2, <3>1 DEF Kept
  <2> QED
    BY <1>0, <2>1, <2>2, <2>3, <2>4, MadeFrame
<1>4. ASSUME now' \in Int, now <= now', role' = role, posted' = posted,
             \A c \in Client : ~ PostPush(c),
             \A c \in Client : Making(c)' =>
                 Making(c) /\ pc'[c] = pc[c] /\ arg'[c] = arg[c] /\ calls'[c] = calls[c]
      PROVE  MadeInv'
  <2>1. \A c \in Client : Making(c)' =>
            c # looper /\ Making(c) /\ pc'[c] = pc[c] /\ arg'[c] = arg[c] /\ calls'[c] = calls[c]
    BY <1>1, <1>4
  <2>2. \A t \in AllTasks' : t.delay = 0 => t \in AllTasks \/ t.id[1] = looper
    BY <1>1, <1>4 DEF Kept
  <2> QED
    BY <1>0, <1>4, <2>1, <2>2, MadeFrame
<1>5. ASSUME NEW c \in Client, Begin(c) \/ Continue(c),
             ~ MakePost(c), ~ MakeDelayed(c), ~ PostPush(c), ~ PostDelayed(c)
      PROVE  MadeInv'
  <2>1. /\ UNCHANGED <<now, role, posted>>
        /\ pc[c] \notin {"push", "insert"} /\ pc'[c] \notin {"push", "insert"}
        /\ \A d \in Client : d # c => pc'[d] = pc[d] /\ arg'[d] = arg[d] /\ calls'[d] = calls[d]
    BY <1>0, <1>5 DEF Begin, Continue, PostSize, Signal, BeginRemove, BeginExists, BeginMerge,
       MergeOne, EndRemove, EndExists, Flush, Release, RequestExit, AwaitExit, Call, Goto,
       context, history, clientVars, TypeOK
  <2>2. \A d \in Client : ~ PostPush(d)
    BY <1>0, <2>1 DEF PostPush, Goto
  <2> QED
    BY <1>0, <1>4, <2>1, <2>2 DEF Making
<1>6. ASSUME UNCHANGED <<clientVars, role, posted>>, now' \in Int, now <= now'
      PROVE  MadeInv'
  <2>1. \A c \in Client : ~ PostPush(c)
    BY <1>0, <1>6 DEF PostPush, Goto, clientVars
  <2> QED
    BY <1>4, <1>6, <2>1 DEF Making, clientVars
<1>7. CASE LooperNext
  <2>1. UNCHANGED <<clientVars, role, posted, now>>
    BY <1>7 DEF LooperNext, PopTimed, PopImmediate, SleepUntilDue, SleepIdle, LeaveLoop,
       Timeout, RunJob, DropTask, Terminate, context, history
  <2> QED
    BY <1>0, <1>6, <2>1
<1>8. CASE SpuriousWakeup
  BY <1>0, <1>6, <1>8 DEF SpuriousWakeup, context, history
<1>9. CASE Tick
  BY <1>0, <1>6, <1>9 DEF Tick, history
<1>10. CASE UNCHANGED vars
  BY <1>0, <1>6, <1>10 DEF vars, context, history
<1> QED
  BY <1>2, <1>3, <1>5, <1>7, <1>8, <1>9, <1>10 DEF Next

-----------------------------------------------------------------------------
(* The first state: nothing posted, and a reference for each client. *)
LEMMA LooperInit ==
    ASSUME Init
    PROVE  LooperInv
<1> USE DEF Init
<1>1. TypeOK
  <2>1. Cardinality(Client) \in Nat
    BY ClientAssumption, FS_CardinalityType
  <2>2. <<>> \in Seq(Task)
    BY EmptyFacts
  <2>3. 0 \in 0..MaxTime /\ 0 \in 0..MaxCalls
    BY BoundAssumption
  <2> QED
    BY <2>1, <2>2, <2>3 DEF TypeOK, Never, ClientPC
<1>2. CallsInv
  BY ClientAssumption DEF CallsInv, Merging
<1>3. RefsInv
  <2>1. Holders = Client
    BY DEF Holders
  <2>2. Cardinality(Client) \in Nat
    BY ClientAssumption, FS_CardinalityType
  <2>3. Held(Len(mTasks) + Len(mTimedTasks)) = 0 /\ Taken = 0
    BY EmptyFacts DEF Held, Taken
  <2> QED
    BY <2>1, <2>2, <2>3 DEF RefsInv
<1>4. ExitInv
  BY DEF ExitInv, Holders
<1>5. PlacesInv
  BY EmptyFacts DEF PlacesInv, Running, Finished
<1>6. OrderInv
  BY EmptyFacts DEF OrderInv, PostedBefore, RunningTask, InOrder
<1>7. NoticeInv
  BY DEF NoticeInv
<1>8. MadeInv
  BY DEF MadeInv, Making
<1> QED
  BY <1>1, <1>2, <1>3, <1>4, <1>5, <1>6, <1>7, <1>8 DEF LooperInv

(* The inductive invariant: what the tasks, the references and the calls in *)
(* progress say of each other holds in every reachable state.               *)
THEOREM LooperSafe == Spec => []LooperInv
<1>1. Init => LooperInv
  BY LooperInit
<1>2. LooperInv /\ [Next]_vars => LooperInv'
  <2> SUFFICES ASSUME LooperInv, [Next]_vars
               PROVE  LooperInv'
    OBVIOUS
  <2> QED
    BY TypeStep, CallsStep, RefsStep, ExitStep, PlacesStep, MadeStep, OrderStep, NoticeStep
       DEF LooperInv
<1> QED
  BY <1>1, <1>2, PTL DEF Spec

-----------------------------------------------------------------------------
(* Ids of calls are a finite set if those of the clients are counted. *)
LEMMA CancelledIsFinite ==
    ASSUME TypeOK
    PROVE  IsFiniteSet(cancelled) /\ Cardinality(cancelled) \in Nat
<1>1. IsFiniteSet(1..MaxCalls)
  BY BoundAssumption, FS_Interval
<1>2. IsFiniteSet(Id)
  BY <1>1, ClientAssumption, FS_Product DEF Id
<1> QED
  BY <1>2, FS_Subset, FS_CardinalityType DEF TypeOK

(* In a state where each id has one place the ids are as many as the tasks. *)
LEMMA PlacesCounted ==
    ASSUME TypeOK, PlacesInv
    PROVE  TasksConserved
<1>1. /\ mTasks \in Seq(Task) /\ mTimedTasks \in Seq(Task) /\ ran \in Seq(Task)
      /\ Distinct(mTasks) /\ Distinct(mTimedTasks) /\ Distinct(ran)
  BY DEF TypeOK, PlacesInv
<1>2. PICK Q : Q = Ids(mTasks)
  OBVIOUS
<1>3. PICK L : L = Ids(mTimedTasks)
  OBVIOUS
<1>4. PICK D : D = Ids(ran)
  OBVIOUS
<1>5. PICK X : X = cancelled
  OBVIOUS
<1>6. PICK R : R = Running
  OBVIOUS
<1>7. IsFiniteSet(Q) /\ Cardinality(Q) = Len(mTasks)
  BY <1>1, <1>2, CountIds
<1>8. IsFiniteSet(L) /\ Cardinality(L) = Len(mTimedTasks)
  BY <1>1, <1>3, CountIds
<1>9. IsFiniteSet(D) /\ Cardinality(D) = Len(ran)
  BY <1>1, <1>4, CountIds
<1>10. IsFiniteSet(X)
  BY <1>5, CancelledIsFinite
<1>11. IsFiniteSet(R)
  BY <1>6, FS_EmptySet, FS_Singleton DEF Running
<1>12. /\ posted = Q \cup L \cup R \cup (D \cup X)
       /\ Q \cap L = {} /\ R \cap (Q \cup L) = {} /\ D \cap X = {}
       /\ (D \cup X) \cap (Q \cup L \cup R) = {}
  BY <1>2, <1>3, <1>4, <1>5, <1>6 DEF PlacesInv, Finished
<1>13. /\ IsFiniteSet(Q \cup L) /\ Cardinality(Q \cup L) = Cardinality(Q) + Cardinality(L)
       /\ Cardinality(Q) \in Nat /\ Cardinality(L) \in Nat
  BY <1>7, <1>8, <1>12, CountBoth
<1>14. /\ IsFiniteSet(D \cup X) /\ Cardinality(D \cup X) = Cardinality(D) + Cardinality(X)
       /\ Cardinality(D) \in Nat /\ Cardinality(X) \in Nat
  BY <1>9, <1>10, <1>12, CountBoth
<1>15. /\ IsFiniteSet(Q \cup L \cup R)
       /\ Cardinality(Q \cup L \cup R) = Cardinality(Q \cup L) + Cardinality(R)
       /\ Cardinality(R) \in Nat
  <2>1. (Q \cup L) \cap R = {}
    BY <1>12
  <2> QED
    BY <1>11, <1>13, <2>1, CountBoth
<1>16. Cardinality(posted) = Cardinality(Q \cup L \cup R) + Cardinality(D \cup X)
  <2>1. (Q \cup L \cup R) \cap (D \cup X) = {}
    BY <1>12
  <2> QED
    BY <1>12, <1>14, <1>15, <2>1, CountBoth
<1>17. Cardinality(posted) = Len(mTasks) + Len(mTimedTasks) + Cardinality(Running)
                             + Len(ran) + Cardinality(cancelled)
  <2>1. Cardinality(posted) = (Cardinality(Q) + Cardinality(L)) + Cardinality(R)
                              + (Cardinality(D) + Cardinality(X))
    BY <1>13, <1>14, <1>15, <1>16
  <2> QED
    BY <1>5, <1>6, <1>7, <1>8, <1>9, <1>13, <1>14, <1>15, <2>1
<1> QED
  BY <1>17 DEF TasksConserved, PlacesInv

(* Every variable has its type; the count of references is never negative,  *)
(* that is, no Release and no task drops a reference that is not there.     *)
THEOREM TypeCorrect == Spec => []TypeOK
<1>1. LooperInv => TypeOK
  BY DEF LooperInv
<1> QED
  BY <1>1, LooperSafe, PTL

(* A task that JobDispatcher took in is queued, listed, running, run or     *)
(* cancelled, once: merge_l, sort, the pops, remove and flush lose none and *)
(* double none.                                                             *)
THEOREM TasksAreConserved == Spec => []TasksConserved
<1>1. LooperInv => TasksConserved
  BY PlacesCounted DEF LooperInv
<1> QED
  BY <1>1, LooperSafe, PTL

(* The looper does not wait past work that nobody will wake it for, if no   *)
(* client moves tasks while another one posts.                              *)
THEOREM WorkNoticed == Spec => []WorkIsNoticed
<1>1. LooperInv => WorkIsNoticed
  <2> SUFFICES ASSUME LooperInv, OneMover, looper \in waiting, mTasks = <<>>,
                      mTimedTasks # <<>>, deadline # Never,
                      \A t \in Tasks(mTimedTasks) : deadline <= t.when
               PROVE  deadline <= Head(mTimedTasks).when
    BY DEF WorkIsNoticed, LooperInv, NoticeInv
  <2>1. mTimedTasks \in Seq(Task)
    BY DEF LooperInv, TypeOK
  <2>2. Head(mTimedTasks) \in Tasks(mTimedTasks)
    BY <2>1, TailFacts
  <2> QED
    BY <2>2
<1> QED
  BY <1>1, LooperSafe, PTL

(* The list is in the order of the times outside a merge, and the jobs that *)
(* a client posts without a delay run in the order of their times, whether  *)
(* they come from the queue or through the list, and whatever other clients *)
(* post or merge meanwhile.                                                 *)
THEOREM JobsAreInOrder == Spec => []JobsInOrder
<1>1. LooperInv => JobsInOrder
  BY DEF LooperInv, OrderInv, JobsInOrder
<1> QED
  BY <1>1, LooperSafe, PTL

(* A looper that has terminated has run every job that was not cancelled.   *)
THEOREM ExitRunsAll == Spec => []ExitDrains
<1>1. LooperInv => ExitDrains
  BY EmptyFacts DEF LooperInv, ExitInv, PlacesInv, ExitDrains, Running
<1> QED
  BY <1>1, LooperSafe, PTL
=============================================================================
