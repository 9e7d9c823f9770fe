----------------------------- MODULE MainLooper -----------------------------
(***************************************************************************)
(* The main looper (core/Looper.cpp): a looper without a thread, which     *)
(* loop() runs in the main thread.  Any thread may fetch it with           *)
(* Looper::Main(), post to it and terminate it; SIGINT's handler           *)
(* terminates it from inside whatever thread it interrupts.  The handler   *)
(* is there before the looper is complete and after it has gone.           *)
(*                                                                         *)
(* A thread's stack holds the calls it is in, the handler's on top of what *)
(* it interrupts.  The two locks are explicit, since a handler may find    *)
(* them held by its own thread; they check for that and abort (Mutex.cpp). *)
(* A delayed task is due when Elapse says so.                              *)
(*                                                                         *)
(* Names differ from those of Thread.tla, so that one module may extend    *)
(* both: a behaviour of the library is one of a thread or one of this.     *)
(*                                                                         *)
(* Bounds: one signal; a main looper that has terminated is not created or *)
(* looped again; each thread has one reference at a time; jobs post and    *)
(* terminate, and do not fetch or release.                                 *)
(***************************************************************************)
EXTENDS Naturals, Sequences

CONSTANTS
    Threads, main,
    NoOne,
    Budgets     \* the scenarios: which threads there are, and a bound on how
                \* often each may fetch, post and terminate

ASSUME MainAssumption == main \in Threads /\ NoOne \notin Threads
ASSUME BudgetsAssumption ==
    \A b \in Budgets : DOMAIN b \subseteq Threads /\ b \in [DOMAIN b -> Nat]

(* A task is named after the thread that posts it and the calls it has left. *)
Task == Threads \X Nat

ASSUME NoOneAssumption == NoOne \notin Task

VARIABLES
    lpMain,             \* "none", "looper", or "gone" after the loop
    mJobDisp,           \* the looper has its dispatcher
    refs,               \* the threads with an sp<Looper>
    mLock, mTaskLock,   \* who holds them
    waiters,            \* calls blocked in mWait: their thread and depth
    mTasks,             \* tasks to run at once, in order
    timed, due,         \* delayed tasks, and those of them whose time has come
    current,
    mRequestExit, mTerminated,
    stack,
    calls,              \* calls that each thread has left
    interrupted,        \* the thread that SIGINT went to
    fate,               \* "running", "aborted" by a CHECK, or "crashed"
    early,              \* tasks posted before anyone asked for the exit
    ran, flushed,       \* tasks that ran, and tasks that terminate dropped
    unlucky             \* a signal or a call of Main() came at a wrong time

looperVars == <<lpMain, mJobDisp, refs>>
locks == <<mLock, mTaskLock>>
tasks == <<mTasks, timed, due, current>>
flags == <<mRequestExit, mTerminated>>
history == <<early, ran, flushed>>
omens == <<interrupted, unlucky>>
mainVars == <<looperVars, locks, waiters, tasks, flags, stack, calls, fate, history, omens>>

MainInit ==
    /\ lpMain = "none" /\ mJobDisp = FALSE /\ refs = {}
    /\ mLock = NoOne /\ mTaskLock = NoOne /\ waiters = {}
    /\ mTasks = <<>> /\ timed = {} /\ due = {} /\ current = NoOne
    /\ mRequestExit = FALSE /\ mTerminated = FALSE
    /\ stack = [t \in Threads |-> <<>>]
    /\ calls \in Budgets
    /\ interrupted = NoOne /\ fate = "running"
    /\ early = {} /\ ran = {} /\ flushed = {} /\ unlucky = FALSE

Top(t) == IF stack[t] = <<>> THEN "user" ELSE Head(stack[t])
In(t, call) == \E i \in DOMAIN stack[t] : stack[t][i] = call
Push(t, call) == stack' = [stack EXCEPT ![t] = <<call>> \o @]
Proceed(t, call) == stack' = [stack EXCEPT ![t] = <<call>> \o Tail(@)]
Return(t) == stack' = [stack EXCEPT ![t] = Tail(@)]

Waiter(t) == <<t, Len(stack[t])>>
At(t, call) == fate = "running" /\ Top(t) = call /\ Waiter(t) \notin waiters

Fail(what) ==
    /\ fate' = what
    /\ UNCHANGED <<looperVars, locks, waiters, tasks, flags, stack, history, interrupted>>

WakeOne ==
    IF waiters = {} THEN UNCHANGED waiters ELSE \E w \in waiters : waiters' = waiters \ {w}

-----------------------------------------------------------------------------
(* Calls.  A job that the main thread runs makes calls as well. *)

BeginCall(t) ==
    /\ fate = "running" /\ Top(t) \in {"user", "run"}
    /\ calls[t] > 0
    /\ calls' = [calls EXCEPT ![t] = @ - 1]

\* Main(): another thread that finds no looper makes one, and the CHECK of its
\* constructor fails.
Main(t) ==
    /\ BeginCall(t) /\ Top(t) = "user" /\ t \notin refs
    /\ unlucky' = (unlucky \/ (t # main /\ ~mJobDisp) \/ lpMain = "gone")
    /\ \/ /\ lpMain = "looper"
          /\ Push(t, "return")
          /\ UNCHANGED <<looperVars, locks, waiters, tasks, flags, history, fate, interrupted>>
       \/ /\ lpMain = "none" /\ t = main
          /\ lpMain' = "looper"
          /\ Push(t, "create")
          /\ UNCHANGED <<mJobDisp, refs, locks, waiters, tasks, flags, history, fate, interrupted>>
       \/ lpMain # "looper" /\ t # main /\ Fail("aborted")

\* The dispatcher's constructor ends with sigaction; the looper gets the
\* dispatcher when the constructor has returned.
InstallHandler ==
    /\ At(main, "create")
    /\ Proceed(main, "assign")
    /\ UNCHANGED <<looperVars, locks, waiters, tasks, flags, calls, fate, history, omens>>

AssignDispatcher ==
    /\ At(main, "assign")
    /\ mJobDisp' = TRUE
    /\ Proceed(main, "return")
    /\ UNCHANGED <<lpMain, refs, locks, waiters, tasks, flags, calls, fate, history, omens>>

HandlerInstalled == mJobDisp \/ lpMain = "gone" \/ In(main, "assign")

\* lpMain is read again, and it is no reference: the looper may be gone, or its
\* last reference may be in the middle of its release.
Releasing ==
    \E t \in Threads : \E i \in DOMAIN stack[t] :
        stack[t][i] \in {"exit", "exiting", "await_exit"}

ReturnMain(t) ==
    /\ At(t, "return")
    /\ UNCHANGED calls
    /\ IF lpMain = "looper" /\ Releasing
       THEN unlucky' = TRUE /\ Fail("crashed")
       ELSE /\ refs' = IF lpMain = "looper" THEN refs \cup {t} ELSE refs
            /\ unlucky' = (unlucky \/ lpMain # "looper")
            /\ Return(t)
            /\ UNCHANGED <<lpMain, mJobDisp, locks, waiters, tasks, flags, fate, history,
                           interrupted>>

Use(t) == BeginCall(t) /\ t \in refs /\ mJobDisp
NewId(t) == <<t, calls[t]>>
NoteEarly(id) == early' = IF mRequestExit THEN early ELSE early \cup {id}

\* The looper has no dispatcher yet: a null pointer is dereferenced.
UseUnready(t) ==
    /\ BeginCall(t) /\ t \in refs /\ ~mJobDisp
    /\ Fail("crashed")
    /\ UNCHANGED unlucky

\* post(job): push, then compare the size with one.
Post(t) ==
    /\ Use(t)
    /\ mTasks' = Append(mTasks, NewId(t))
    /\ NoteEarly(NewId(t))
    /\ Push(t, "size")
    /\ UNCHANGED <<looperVars, locks, waiters, timed, due, current, flags, fate, ran, flushed, omens>>

PostSize(t) ==
    /\ At(t, "size")
    /\ IF Len(mTasks) = 1 THEN Proceed(t, "notify") ELSE Return(t)
    /\ UNCHANGED <<looperVars, locks, waiters, tasks, flags, calls, fate, history, omens>>

\* post(job, delay): behind mTaskLock.
PostTimed(t) ==
    /\ Use(t) /\ mTaskLock = NoOne
    /\ mTaskLock' = t
    /\ Push(t, "insert")
    /\ UNCHANGED <<looperVars, mLock, waiters, tasks, flags, fate, history, omens>>

\* The first in the list, when there is no task to run at once?
Firsts == IF mTasks # <<>> THEN {FALSE}
          ELSE IF timed \cup due = {} THEN {TRUE} ELSE BOOLEAN

Insert(t) ==
    LET id == <<t, calls[t] + 1>> IN
    /\ At(t, "insert")
    /\ timed' = timed \cup {id}
    /\ NoteEarly(id)
    /\ mTaskLock' = NoOne
    /\ \E first \in Firsts : IF first THEN Proceed(t, "notify") ELSE Return(t)
    /\ UNCHANGED <<looperVars, mLock, waiters, mTasks, due, current, flags, calls, fate,
                   ran, flushed, omens>>

Terminate(t) ==
    /\ Use(t)
    /\ Push(t, "terminate")
    /\ UNCHANGED <<looperVars, locks, waiters, tasks, flags, fate, history, omens>>

\* SIGINT, once the handler is installed: it reads lpMain.
Interrupt(t) ==
    /\ fate = "running" /\ interrupted = NoOne
    /\ HandlerInstalled
    /\ interrupted' = t
    /\ unlucky' = (unlucky \/ ~mJobDisp \/ t \in {mLock, mTaskLock} \/ lpMain = "gone")
    /\ IF lpMain = "gone"
       THEN fate' = "crashed" /\ UNCHANGED stack
       ELSE Push(t, "handler") /\ UNCHANGED fate
    /\ UNCHANGED <<looperVars, locks, waiters, tasks, flags, calls, history>>

\* Then it reads the dispatcher of that looper, to which it has no reference:
\* it may have none yet, or be gone by now.
HandlerTerminates(t) ==
    /\ At(t, "handler")
    /\ unlucky' = (unlucky \/ lpMain = "gone")
    /\ UNCHANGED calls
    /\ IF ~mJobDisp THEN Fail("crashed")
       ELSE /\ Proceed(t, "terminate")
            /\ UNCHANGED <<looperVars, locks, waiters, tasks, flags, fate, history, interrupted>>

\* An sp<Looper> goes away; the last one asks for the exit.
Release(t) ==
    /\ fate = "running" /\ Top(t) = "user" /\ t \in refs /\ mJobDisp
    /\ refs' = refs \ {t}
    /\ IF refs = {t} THEN Push(t, "exit") ELSE UNCHANGED stack
    /\ UNCHANGED <<lpMain, mJobDisp, locks, waiters, tasks, flags, calls, fate, history, omens>>

Loop ==
    /\ fate = "running" /\ Top(main) = "user" /\ main \in refs /\ mJobDisp
    /\ ~mTerminated
    /\ Push(main, "lock")
    /\ UNCHANGED <<looperVars, locks, waiters, tasks, flags, calls, fate, history, omens>>

-----------------------------------------------------------------------------
(* Critical sections of mLock: where each begins, and what it does then. *)

Sections ==
    [notify |-> "signal", terminate |-> "terminating", exit |-> "exiting",
     lock |-> "pop", asleep |-> "pop", dozing |-> "pop", leave |-> "leaving"]

Lock(t) ==
    /\ Top(t) \in DOMAIN Sections /\ At(t, Top(t))
    /\ UNCHANGED <<calls, unlucky>>
    /\ IF mLock = t THEN Fail("aborted")
       ELSE /\ mLock = NoOne /\ mLock' = t
            /\ Proceed(t, Sections[Top(t)])
            /\ UNCHANGED <<looperVars, mTaskLock, waiters, tasks, flags, fate, history, interrupted>>

Unlock == mLock' = NoOne

Notify(t) ==
    /\ At(t, "signal")
    /\ WakeOne /\ Unlock /\ Return(t)
    /\ UNCHANGED <<looperVars, mTaskLock, tasks, flags, calls, fate, history, omens>>

\* terminate() in the main thread drops the tasks and does not wait.
TerminateHere ==
    /\ At(main, "terminating")
    /\ mRequestExit' = TRUE
    /\ Proceed(main, "flush")
    /\ UNCHANGED <<looperVars, locks, waiters, tasks, mTerminated, calls, fate, history, omens>>

Flush ==
    /\ At(main, "flush")
    /\ UNCHANGED <<calls, unlucky>>
    /\ IF mTaskLock = main THEN Fail("aborted")
       ELSE /\ mTaskLock = NoOne
            /\ flushed' = flushed \cup {mTasks[i] : i \in DOMAIN mTasks} \cup timed \cup due
            /\ mTasks' = <<>> /\ timed' = {} /\ due' = {}
            /\ WakeOne /\ Unlock /\ Return(main)
            /\ UNCHANGED <<looperVars, mTaskLock, current, flags, fate, early, ran, interrupted>>

(* Mutant: the flag is set, nobody is woken. *)
AskSilently(t, call) ==
    /\ mRequestExit' = TRUE
    /\ Unlock
    /\ IF mTerminated THEN Return(t) /\ UNCHANGED waiters
       ELSE Proceed(t, call) /\ waiters' = waiters \cup {Waiter(t)}

\* requestExit_l, a broadcast, and the wait.
AskAndWait(t, call) ==
    /\ mRequestExit' = TRUE
    /\ Unlock
    /\ IF mTerminated THEN Return(t) /\ waiters' = {}
       ELSE Proceed(t, call) /\ waiters' = {Waiter(t)}

\* terminate() in another thread waits for the main thread.
TerminateAway(t) ==
    /\ t # main /\ At(t, "terminating")
    /\ AskAndWait(t, "await")
    /\ UNCHANGED <<looperVars, mTaskLock, tasks, mTerminated, calls, fate, history, omens>>

\* Awake: test again and wait again, in one step.
CheckAgain(t) ==
    /\ At(t, "await") /\ mLock = NoOne
    /\ IF mTerminated THEN Return(t) /\ UNCHANGED waiters
       ELSE waiters' = waiters \cup {Waiter(t)} /\ UNCHANGED stack
    /\ UNCHANGED <<looperVars, locks, tasks, flags, calls, fate, history, omens>>

\* requestExit() returns at once from a looper that has terminated.  From one
\* that has not it never returns: whoever loops has a reference.
RequestExit(t) ==
    /\ At(t, "exiting")
    /\ IF mTerminated
       THEN /\ mJobDisp' = FALSE
            /\ Unlock /\ Return(t)
            /\ UNCHANGED <<mRequestExit, waiters>>
       ELSE AskAndWait(t, "await_exit") /\ UNCHANGED mJobDisp
    /\ UNCHANGED <<lpMain, refs, mTaskLock, tasks, mTerminated, calls, fate, history, omens>>

-----------------------------------------------------------------------------
(* onJob in the main thread: mLock is held from here to the end of a pop.   *)

Popping == At(main, "pop") /\ mTaskLock = NoOne

PopTimed ==
    /\ Popping
    /\ \E id \in due : current' = id /\ due' = due \ {id}
    /\ Unlock /\ Proceed(main, "run")
    /\ UNCHANGED <<looperVars, mTaskLock, waiters, mTasks, timed, flags, calls, fate, history, omens>>

PopImmediate ==
    /\ Popping
    /\ due = {} /\ mTasks # <<>>
    /\ current' = Head(mTasks) /\ mTasks' = Tail(mTasks)
    /\ Unlock /\ Proceed(main, "run")
    /\ UNCHANGED <<looperVars, mTaskLock, waiters, timed, due, flags, calls, fate, history, omens>>

Nothing == due = {} /\ mTasks = <<>>

(* Mutant: the loop is left while delayed tasks are pending. *)
NothingNow == Nothing /\ mRequestExit

Sleep(call) ==
    /\ waiters' = waiters \cup {Waiter(main)}
    /\ Unlock /\ Proceed(main, call)
    /\ UNCHANGED <<looperVars, mTaskLock, tasks, flags, calls, fate, history, omens>>

SleepUntilDue == Popping /\ Nothing /\ timed # {} /\ Sleep("dozing")
SleepIdle == Popping /\ Nothing /\ timed = {} /\ ~mRequestExit /\ Sleep("asleep")

\* next < 0 and an exit has been asked for.
NoMoreJobs == Nothing /\ timed = {} /\ mRequestExit

LeaveLoop ==
    /\ Popping /\ NoMoreJobs
    /\ Unlock /\ Proceed(main, "leave")
    /\ UNCHANGED <<looperVars, mTaskLock, waiters, tasks, flags, calls, fate, history, omens>>

Leave ==
    /\ At(main, "leaving")
    /\ mTerminated' = TRUE /\ waiters' = {}
    /\ lpMain' = "gone"
    /\ Unlock /\ Return(main)
    /\ UNCHANGED <<mJobDisp, refs, mTaskLock, tasks, mRequestExit, calls, fate, history, omens>>

RunTask ==
    /\ At(main, "run")
    /\ ran' = ran \cup {current} /\ current' = NoOne
    /\ Proceed(main, "lock")
    /\ UNCHANGED <<looperVars, locks, waiters, mTasks, timed, due, flags, calls, fate,
                   early, flushed, omens>>

-----------------------------------------------------------------------------
(* The environment. *)

Elapse ==
    /\ fate = "running"
    /\ \E id \in timed : timed' = timed \ {id} /\ due' = due \cup {id}
    /\ UNCHANGED <<looperVars, locks, waiters, mTasks, current, flags, stack, calls, fate,
                   history, omens>>

\* A loop is the outermost call of the main thread.
Wake(w) ==
    /\ fate = "running"
    /\ waiters' = waiters \ {w}
    /\ UNCHANGED <<looperVars, locks, tasks, flags, stack, calls, fate, history, omens>>

Timeout == <<main, 1>> \in waiters /\ stack[main][Len(stack[main])] = "dozing" /\ Wake(<<main, 1>>)
WakeForNothing == \E w \in waiters : Wake(w)

MakeCall(t) ==
    Main(t) \/ UseUnready(t) \/ Post(t) \/ PostTimed(t) \/ Terminate(t) \/ Release(t)

GoOn(t) ==
    \/ ReturnMain(t) \/ PostSize(t) \/ Insert(t) \/ HandlerTerminates(t)
    \/ Lock(t) \/ Notify(t) \/ TerminateAway(t) \/ CheckAgain(t) \/ RequestExit(t)

MainThread ==
    \/ InstallHandler \/ AssignDispatcher \/ TerminateHere \/ Flush
    \/ PopTimed \/ PopImmediate \/ SleepUntilDue \/ SleepIdle \/ LeaveLoop \/ Leave \/ RunTask
    \/ Timeout

MainNext ==
    \/ \E t \in DOMAIN calls : MakeCall(t) \/ GoOn(t) \/ Interrupt(t)
    \/ Loop \/ MainThread
    \/ Elapse \/ WakeForNothing

\* Threads that are not blocked go on, delays and timeouts come.  Nobody has to
\* call anything, and no signal has to come.
MainFairness ==
    /\ \A t \in Threads : WF_mainVars(GoOn(t))
    /\ WF_mainVars(MainThread)
    /\ WF_mainVars(Elapse)

MainSpec == MainInit /\ [][MainNext]_mainVars /\ MainFairness

-----------------------------------------------------------------------------

\* Nothing fails unless SIGINT interrupts a thread that holds a lock, comes
\* before the looper has its dispatcher or after the loop, or the loop ends
\* under its handler, or a thread calls Main() while there is no complete main
\* looper or its last reference is going: calls of any threads and of jobs,
\* and signals at any other time once the handler is installed, are safe.
FailsOnlyByBadLuck == fate # "running" => unlucky

\* Every task posted before the exit was asked for has run when the loop ends,
\* the delayed ones included, or was dropped by a terminate in the main thread.
LoopDrains == mTerminated => early \subseteq ran \cup flushed

\* The main looper fails only by bad luck, and drains before it ends.
MainLooperIsSafe == FailsOnlyByBadLuck /\ LoopDrains

\* The loop is the outermost call of the main thread.
LoopCalls == {"lock", "pop", "run", "asleep", "dozing", "leave", "leaving"}
Bottom(t) == stack[t][Len(stack[t])]
Looping == stack[main] # <<>> /\ Bottom(main) \in LoopCalls

\* A main looper that is asked to end does so, SIGINT included, and those who
\* wait for it return.
MainLoopEnds ==
    /\ mRequestExit /\ Looping ~> mTerminated \/ unlucky
    /\ mTerminated ~> unlucky \/ \A t \in Threads : ~In(t, "await")

-----------------------------------------------------------------------------
(***************************************************************************)
(* The inductive invariant behind MainLooperIsSafe.                        *)
(***************************************************************************)
MainCall ==
    LoopCalls \cup DOMAIN Sections \cup {Sections[c] : c \in DOMAIN Sections} \cup
    {"create", "assign", "return", "handler", "size", "insert", "await", "await_exit", "flush"}

MainTypeOK ==
    /\ lpMain \in {"none", "looper", "gone"} /\ mJobDisp \in BOOLEAN
    /\ refs \subseteq Threads
    /\ mLock \in Threads \cup {NoOne} /\ mTaskLock \in Threads \cup {NoOne}
    /\ mTasks \in Seq(Task) /\ timed \subseteq Task /\ due \subseteq Task
    /\ current \in Task \cup {NoOne}
    /\ mRequestExit \in BOOLEAN /\ mTerminated \in BOOLEAN
    /\ stack \in [Threads -> Seq(MainCall)]
    /\ DOMAIN calls \subseteq Threads /\ calls \in [DOMAIN calls -> Nat]
    /\ early \subseteq Task /\ unlucky \in BOOLEAN

\* The looper is there before its dispatcher, while the main thread creates it
\* and no signal interrupts that, and is gone for good when the loop has ended.
Creating == {"create", "assign"}
CreationInv ==
    /\ lpMain = "none" => ~mJobDisp
    /\ lpMain = "looper" /\ ~mJobDisp => unlucky \/ Top(main) \in Creating
    /\ \A c \in Creating : In(main, c) => lpMain # "none"
    /\ mTerminated => lpMain = "gone"

\* Who has a reference, or is about to have one or to use the looper without
\* one, finds a complete looper.
ReferenceInv ==
    /\ Releasing => refs = {}
    /\ ~unlucky /\ refs # {} => mJobDisp
    /\ \A t \in Threads : \A c \in {"return", "handler"} :
           ~unlucky /\ In(t, c) => mJobDisp \/ lpMain = "gone"

\* Who holds a lock is in its critical section, and in nothing above it.
Held == {Sections[c] : c \in DOMAIN Sections} \cup {"flush"}
LocksInv ==
    ~unlucky =>
        /\ mLock # NoOne => Top(mLock) \in Held
        /\ mTaskLock # NoOne => Top(mTaskLock) = "insert"

\* No task is lost, the one that runs included, and the main thread leaves its
\* loop only when none is pending.
Pending == {mTasks[i] : i \in DOMAIN mTasks} \cup timed \cup due \cup ({current} \ {NoOne})
Outermost ==
    \A i \in DOMAIN stack[main] : stack[main][i] \in LoopCalls => i = Len(stack[main])
InRun == stack[main] # <<>> /\ Bottom(main) = "run"
DrainInv ==
    /\ Outermost
    /\ current # NoOne => InRun
    /\ early \subseteq ran \cup flushed \cup Pending
    /\ In(main, "leave") \/ In(main, "leaving") \/ mTerminated =>
          mRequestExit /\ early \subseteq ran \cup flushed

MainLooperInv ==
    /\ MainTypeOK
    /\ FailsOnlyByBadLuck
    /\ CreationInv
    /\ ReferenceInv
    /\ LocksInv
    /\ DrainInv
=============================================================================
