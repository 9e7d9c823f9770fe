---------------------------- MODULE Thread_proofs ----------------------------
(***************************************************************************)
(* Theorems about Thread for every set of clients and every script of      *)
(* calls, and below them about MainLooper, the thread that main runs in,   *)
(* for every set of threads and every scenario: it fails only by bad luck  *)
(* and drains before it ends.                                              *)
(***************************************************************************)
EXTENDS Thread, MainLooper, FiniteSetTheorems, TLAPS

USE DEF kThreadNew, kThreadReady, kThreadReadyToRun, kThreadRunning,
        kThreadTerminating, kThreadTerminated, native_vars, client_vars

-----------------------------------------------------------------------------
(* A signal adds nobody to those that wait. *)
LEMMA SignalTyped ==
    ASSUME TypeOK, NEW t \in Client \cup {native},
           Signal \/ SignalAndBlock(t) \/ Block(t)
    PROVE  waiting' \subseteq Client \cup {native}
<1>1. \A left \in Signalled : left \subseteq Client \cup {native}
  BY DEF TypeOK, Signalled
<1> QED
  BY <1>1 DEF TypeOK, Signal, SignalAndBlock, Block

-----------------------------------------------------------------------------
(* Every step keeps the types. *)
LEMMA TypeStep ==
    ASSUME TypeOK, [Next]_vars
    PROVE  TypeOK'
<1> USE CreatorAssumption, CallsAssumption, JobJoinsAssumption
    DEF TypeOK, Awake, Goto, GotoNative
<1>1. ASSUME NEW c \in Client, Begin(c) \/ Continue(c)
      PROVE  TypeOK'
  <2> USE DEF ClientPC
  <2>1. CASE Start(c)
    BY SignalTyped, <1>1, <2>1 DEF Start, NativePC
  <2>2. CASE Started(c)
    BY SignalTyped, <1>1, <2>2 DEF Started
  <2>3. CASE Run(c)
    BY SignalTyped, <1>1, <2>3 DEF Run, Call, CanRun
  <2>4. CASE Ran(c)
    BY SignalTyped, <1>1, <2>4 DEF Ran
  <2>5. CASE Join(c)
    BY SignalTyped, <1>1, <2>5 DEF Join, Call, CanJoin
  <2>6. CASE PthreadJoined(c)
    BY <1>1, <2>6 DEF PthreadJoined
  <2>7. CASE Joined(c)
    BY SignalTyped, <1>1, <2>7 DEF Joined
  <2>8. CASE RunFails(c)
    BY <1>1, <2>8 DEF RunFails, Call, CheckFails
  <2>9. CASE JoinFails(c)
    BY <1>1, <2>9 DEF JoinFails, Call, CheckFails
  <2> QED
    BY <1>1, <2>1, <2>2, <2>3, <2>4, <2>5, <2>6, <2>7, <2>8, <2>9 DEF Begin, Continue
<1>2. CASE NativeNext
  <2> USE DEF NativePC
  <2>1. CASE Entry
    BY SignalTyped, <2>1 DEF Entry
  <2>2. CASE StillReady
    BY SignalTyped, <2>2 DEF StillReady
  <2>3. CASE GoRunning
    BY SignalTyped, <2>3 DEF GoRunning
  <2>4. CASE SkipJob
    BY <2>4 DEF SkipJob
  <2>5. CASE RunJob
    BY <2>5 DEF RunJob
  <2>6. CASE JobBeginsJoin
    BY SignalTyped, <2>6 DEF JobBeginsJoin, CanJoin
  <2>7. CASE JobJoinFails
    BY <2>7 DEF JobJoinFails
  <2>8. CASE SelfJoin
    BY SignalTyped, <2>8 DEF SelfJoin
  <2>9. CASE AwaitTerminating
    BY SignalTyped, <2>9 DEF AwaitTerminating
  <2>10. CASE Exit
    BY SignalTyped, <2>10 DEF Exit
  <2> QED
    BY <1>2, <2>1, <2>2, <2>3, <2>4, <2>5, <2>6, <2>7, <2>8, <2>9, <2>10 DEF NativeNext
<1>3. CASE SpuriousWakeup
  BY <1>3 DEF SpuriousWakeup
<1>4. CASE UNCHANGED vars
  BY <1>4 DEF vars
<1> QED
  BY <1>1, <1>2, <1>3, <1>4 DEF Next

-----------------------------------------------------------------------------
(* No client calls anything before the constructor has returned. *)
LEMMA ConstructionStep ==
    ASSUME ThreadInv, [Next]_vars
    PROVE  ConstructionInv'
<1> USE CreatorAssumption, CallsAssumption, JobJoinsAssumption
    DEF ThreadInv, TypeOK, Constructed, Awake, Goto, GotoNative,
        ConstructionInv, StateInv
<1>1. ASSUME NEW c \in Client, Begin(c) \/ Continue(c)
      PROVE  ConstructionInv'
  <2>1. CASE Start(c)
    BY <1>1, <2>1 DEF Start
  <2>2. CASE Started(c)
    BY <1>1, <2>2 DEF Started
  <2>3. CASE Run(c)
    BY <1>1, <2>3 DEF Run, Call, CanRun
  <2>4. CASE Ran(c)
    BY <1>1, <2>4 DEF Ran
  <2>5. CASE Join(c)
    BY <1>1, <2>5 DEF Join, Call, CanJoin
  <2>6. CASE PthreadJoined(c)
    BY <1>1, <2>6 DEF PthreadJoined
  <2>7. CASE Joined(c)
    BY <1>1, <2>7 DEF Joined
  <2>8. CASE RunFails(c)
    BY <1>1, <2>8 DEF RunFails, Call, CheckFails
  <2>9. CASE JoinFails(c)
    BY <1>1, <2>9 DEF JoinFails, Call, CheckFails
  <2> QED
    BY <1>1, <2>1, <2>2, <2>3, <2>4, <2>5, <2>6, <2>7, <2>8, <2>9 DEF Begin, Continue
<1>2. CASE NativeNext
  <2>1. CASE Entry
    BY <2>1 DEF Entry
  <2>2. CASE StillReady
    BY <2>2 DEF StillReady
  <2>3. CASE GoRunning
    BY <2>3 DEF GoRunning
  <2>4. CASE SkipJob
    BY <2>4 DEF SkipJob
  <2>5. CASE RunJob
    BY <2>5 DEF RunJob
  <2>6. CASE JobBeginsJoin
    BY <2>6 DEF JobBeginsJoin, CanJoin
  <2>7. CASE JobJoinFails
    BY <2>7 DEF JobJoinFails
  <2>8. CASE SelfJoin
    BY <2>8 DEF SelfJoin
  <2>9. CASE AwaitTerminating
    BY <2>9 DEF AwaitTerminating
  <2>10. CASE Exit
    BY <2>10 DEF Exit
  <2> QED
    BY <1>2, <2>1, <2>2, <2>3, <2>4, <2>5, <2>6, <2>7, <2>8, <2>9, <2>10 DEF NativeNext
<1>3. CASE SpuriousWakeup
  BY <1>3 DEF SpuriousWakeup
<1>4. CASE UNCHANGED vars
  BY <1>4 DEF vars
<1> QED
  BY <1>1, <1>2, <1>3, <1>4 DEF Next

-----------------------------------------------------------------------------
(* Every step keeps the state and the native thread in line. *)
LEMMA StateStep ==
    ASSUME ThreadInv, [Next]_vars
    PROVE  StateInv'
<1> USE CreatorAssumption, CallsAssumption, JobJoinsAssumption
    DEF ThreadInv, TypeOK, Constructed, Awake, Goto, GotoNative,
        ConstructionInv, StateInv
<1>1. ASSUME NEW c \in Client, Begin(c) \/ Continue(c)
      PROVE  StateInv'
  <2>1. CASE Start(c)
    BY <1>1, <2>1 DEF Start
  <2>2. CASE Started(c)
    BY <1>1, <2>2 DEF Started
  <2>3. CASE Run(c)
    BY <1>1, <2>3 DEF Run, Call, CanRun
  <2>4. CASE Ran(c)
    BY <1>1, <2>4 DEF Ran
  <2>5. CASE Join(c)
    BY <1>1, <2>5 DEF Join, Call, CanJoin
  <2>6. CASE PthreadJoined(c)
    BY <1>1, <2>6 DEF PthreadJoined
  <2>7. CASE Joined(c)
    BY <1>1, <2>7 DEF Joined
  <2>8. CASE RunFails(c)
    BY <1>1, <2>8 DEF RunFails, Call, CheckFails
  <2>9. CASE JoinFails(c)
    BY <1>1, <2>9 DEF JoinFails, Call, CheckFails
  <2> QED
    BY <1>1, <2>1, <2>2, <2>3, <2>4, <2>5, <2>6, <2>7, <2>8, <2>9 DEF Begin, Continue
<1>2. CASE NativeNext
  <2>1. CASE Entry
    BY <2>1 DEF Entry
  <2>2. CASE StillReady
    BY <2>2 DEF StillReady
  <2>3. CASE GoRunning
    BY <2>3 DEF GoRunning
  <2>4. CASE SkipJob
    BY <2>4 DEF SkipJob
  <2>5. CASE RunJob
    BY <2>5 DEF RunJob
  <2>6. CASE JobBeginsJoin
    BY <2>6 DEF JobBeginsJoin, CanJoin
  <2>7. CASE JobJoinFails
    BY <2>7 DEF JobJoinFails
  <2>8. CASE SelfJoin
    BY <2>8 DEF SelfJoin
  <2>9. CASE AwaitTerminating
    BY <2>9 DEF AwaitTerminating
  <2>10. CASE Exit
    BY <2>10 DEF Exit
  <2> QED
    BY <1>2, <2>1, <2>2, <2>3, <2>4, <2>5, <2>6, <2>7, <2>8, <2>9, <2>10 DEF NativeNext
<1>3. CASE SpuriousWakeup
  BY <1>3 DEF SpuriousWakeup
<1>4. CASE UNCHANGED vars
  BY <1>4 DEF vars
<1> QED
  BY <1>1, <1>2, <1>3, <1>4 DEF Next

-----------------------------------------------------------------------------
(* Every step keeps what is known of the job. *)
LEMMA ExecutedStep ==
    ASSUME ThreadInv, [Next]_vars
    PROVE  ExecutedInv'
<1> USE CreatorAssumption, CallsAssumption, JobJoinsAssumption
    DEF ThreadInv, TypeOK, Constructed, Awake, Goto, GotoNative,
        ConstructionInv, StateInv, ExecutedInv
<1>1. ASSUME NEW c \in Client, Begin(c) \/ Continue(c)
      PROVE  ExecutedInv'
  <2>1. CASE Start(c)
    BY <1>1, <2>1 DEF Start
  <2>2. CASE Started(c)
    BY <1>1, <2>2 DEF Started
  <2>3. CASE Run(c)
    BY <1>1, <2>3 DEF Run, Call, CanRun
  <2>4. CASE Ran(c)
    BY <1>1, <2>4 DEF Ran
  <2>5. CASE Join(c)
    BY <1>1, <2>5 DEF Join, Call, CanJoin
  <2>6. CASE PthreadJoined(c)
    BY <1>1, <2>6 DEF PthreadJoined
  <2>7. CASE Joined(c)
    BY <1>1, <2>7 DEF Joined
  <2>8. CASE RunFails(c)
    BY <1>1, <2>8 DEF RunFails, Call, CheckFails
  <2>9. CASE JoinFails(c)
    BY <1>1, <2>9 DEF JoinFails, Call, CheckFails
  <2> QED
    BY <1>1, <2>1, <2>2, <2>3, <2>4, <2>5, <2>6, <2>7, <2>8, <2>9 DEF Begin, Continue
<1>2. CASE NativeNext
  <2>1. CASE Entry
    BY <2>1 DEF Entry
  <2>2. CASE StillReady
    BY <2>2 DEF StillReady
  <2>3. CASE GoRunning
    BY <2>3 DEF GoRunning
  <2>4. CASE SkipJob
    BY <2>4 DEF SkipJob
  <2>5. CASE RunJob
    BY <2>5 DEF RunJob
  <2>6. CASE JobBeginsJoin
    BY <2>6 DEF JobBeginsJoin, CanJoin
  <2>7. CASE JobJoinFails
    BY <2>7 DEF JobJoinFails
  <2>8. CASE SelfJoin
    BY <2>8 DEF SelfJoin
  <2>9. CASE AwaitTerminating
    BY <2>9 DEF AwaitTerminating
  <2>10. CASE Exit
    BY <2>10 DEF Exit
  <2> QED
    BY <1>2, <2>1, <2>2, <2>3, <2>4, <2>5, <2>6, <2>7, <2>8, <2>9, <2>10 DEF NativeNext
<1>3. CASE SpuriousWakeup
  BY <1>3 DEF SpuriousWakeup
<1>4. CASE UNCHANGED vars
  BY <1>4 DEF vars
<1> QED
  BY <1>1, <1>2, <1>3, <1>4 DEF Next

-----------------------------------------------------------------------------
(* A thread runs its job only for a client that called run. *)
LEMMA RunCalledStep ==
    ASSUME ThreadInv, [Next]_vars
    PROVE  RunCalledInv'
<1> USE CreatorAssumption, CallsAssumption, JobJoinsAssumption
    DEF ThreadInv, TypeOK, Constructed, Awake, Goto, GotoNative,
        StateInv, ExecutedInv, RunCalledInv, Called
<1>1. ASSUME NEW c \in Client, Begin(c) \/ Continue(c)
      PROVE  RunCalledInv'
  <2>1. CASE Start(c)
    BY <1>1, <2>1 DEF Start
  <2>2. CASE Started(c)
    BY <1>1, <2>2 DEF Started
  <2>3. CASE Run(c)
    <3>1. "run" \in Calls[c] \ todo'[c]
      BY <2>3 DEF Run, Call, ConstructionInv
    <3> QED
      BY <3>1
  <2>4. CASE Ran(c)
    BY <1>1, <2>4 DEF Ran
  <2>5. CASE Join(c)
    BY <1>1, <2>5 DEF Join, Call, CanJoin
  <2>6. CASE PthreadJoined(c)
    BY <1>1, <2>6 DEF PthreadJoined
  <2>7. CASE Joined(c)
    BY <1>1, <2>7 DEF Joined
  <2>8. CASE RunFails(c)
    BY <1>1, <2>8 DEF RunFails, Call, CheckFails
  <2>9. CASE JoinFails(c)
    BY <1>1, <2>9 DEF JoinFails, Call, CheckFails
  <2> QED
    BY <1>1, <2>1, <2>2, <2>3, <2>4, <2>5, <2>6, <2>7, <2>8, <2>9 DEF Begin, Continue
<1>2. CASE NativeNext
  <2>1. CASE Entry
    BY <2>1 DEF Entry
  <2>2. CASE StillReady
    BY <2>2 DEF StillReady
  <2>3. CASE GoRunning
    BY <2>3 DEF GoRunning
  <2>4. CASE SkipJob
    BY <2>4 DEF SkipJob
  <2>5. CASE RunJob
    BY <2>5 DEF RunJob
  <2>6. CASE JobBeginsJoin
    BY <2>6 DEF JobBeginsJoin, CanJoin
  <2>7. CASE JobJoinFails
    BY <2>7 DEF JobJoinFails
  <2>8. CASE SelfJoin
    BY <2>8 DEF SelfJoin
  <2>9. CASE AwaitTerminating
    BY <2>9 DEF AwaitTerminating
  <2>10. CASE Exit
    BY <2>10 DEF Exit
  <2> QED
    BY <1>2, <2>1, <2>2, <2>3, <2>4, <2>5, <2>6, <2>7, <2>8, <2>9, <2>10 DEF NativeNext
<1>3. CASE SpuriousWakeup
  BY <1>3 DEF SpuriousWakeup
<1>4. CASE UNCHANGED vars
  BY <1>4 DEF vars
<1> QED
  BY <1>1, <1>2, <1>3, <1>4 DEF Next

-----------------------------------------------------------------------------
(* A client that called join waits until the native thread is gone. *)
LEMMA JoinCalledStep ==
    ASSUME ThreadInv, [Next]_vars
    PROVE  JoinCalledInv'
<1> USE CreatorAssumption, CallsAssumption, JobJoinsAssumption
    DEF ThreadInv, TypeOK, Constructed, Awake, Goto, GotoNative,
        ConstructionInv, StateInv, JoinCalledInv, Called
<1>1. ASSUME NEW c \in Client, Begin(c) \/ Continue(c)
      PROVE  JoinCalledInv'
  <2>1. CASE Start(c)
    BY <1>1, <2>1 DEF Start
  <2>2. CASE Started(c)
    BY <1>1, <2>2 DEF Started
  <2>3. CASE Run(c)
    BY <1>1, <2>3 DEF Run, Call, CanRun
  <2>4. CASE Ran(c)
    BY <1>1, <2>4 DEF Ran
  <2>5. CASE Join(c)
    BY <1>1, <2>5 DEF Join, Call, CanJoin
  <2>6. CASE PthreadJoined(c)
    BY <1>1, <2>6 DEF PthreadJoined
  <2>7. CASE Joined(c)
    BY <1>1, <2>7 DEF Joined
  <2>8. CASE RunFails(c)
    BY <1>1, <2>8 DEF RunFails, Call, CheckFails
  <2>9. CASE JoinFails(c)
    BY <1>1, <2>9 DEF JoinFails, Call, CheckFails
  <2> QED
    BY <1>1, <2>1, <2>2, <2>3, <2>4, <2>5, <2>6, <2>7, <2>8, <2>9 DEF Begin, Continue
<1>2. CASE NativeNext
  <2>1. CASE Entry
    BY <2>1 DEF Entry
  <2>2. CASE StillReady
    BY <2>2 DEF StillReady
  <2>3. CASE GoRunning
    BY <2>3 DEF GoRunning
  <2>4. CASE SkipJob
    BY <2>4 DEF SkipJob
  <2>5. CASE RunJob
    BY <2>5 DEF RunJob
  <2>6. CASE JobBeginsJoin
    BY <2>6 DEF JobBeginsJoin, CanJoin
  <2>7. CASE JobJoinFails
    BY <2>7 DEF JobJoinFails
  <2>8. CASE SelfJoin
    BY <2>8 DEF SelfJoin
  <2>9. CASE AwaitTerminating
    BY <2>9 DEF AwaitTerminating
  <2>10. CASE Exit
    BY <2>10 DEF Exit
  <2> QED
    BY <1>2, <2>1, <2>2, <2>3, <2>4, <2>5, <2>6, <2>7, <2>8, <2>9, <2>10 DEF NativeNext
<1>3. CASE SpuriousWakeup
  BY <1>3 DEF SpuriousWakeup
<1>4. CASE UNCHANGED vars
  BY <1>4 DEF vars
<1> QED
  BY <1>1, <1>2, <1>3, <1>4 DEF Next

-----------------------------------------------------------------------------
(* Whoever joined a thread that ran did so after a run. *)
LEMMA JoinedStep ==
    ASSUME ThreadInv, [Next]_vars
    PROVE  JoinedInv'
<1> USE CreatorAssumption, CallsAssumption, JobJoinsAssumption
    DEF ThreadInv, TypeOK, Constructed, Awake, Goto, GotoNative,
        StateInv, RunCalledInv, JoinedInv, Called
<1>1. ASSUME NEW c \in Client, Begin(c) \/ Continue(c)
      PROVE  JoinedInv'
  <2>1. CASE Start(c)
    BY <1>1, <2>1 DEF Start
  <2>2. CASE Started(c)
    BY <1>1, <2>2 DEF Started
  <2>3. CASE Run(c)
    BY <1>1, <2>3 DEF Run, Call, CanRun
  <2>4. CASE Ran(c)
    BY <1>1, <2>4 DEF Ran
  <2>5. CASE Join(c)
    <3>1. "join" \in Calls[c] \ todo'[c]
      BY <2>5 DEF Join, Call, ConstructionInv
    <3> QED
      BY <3>1, <2>5 DEF Join, Call, CanJoin
  <2>6. CASE PthreadJoined(c)
    BY <1>1, <2>6 DEF PthreadJoined
  <2>7. CASE Joined(c)
    BY <1>1, <2>7 DEF Joined
  <2>8. CASE RunFails(c)
    BY <1>1, <2>8 DEF RunFails, Call, CheckFails
  <2>9. CASE JoinFails(c)
    BY <1>1, <2>9 DEF JoinFails, Call, CheckFails
  <2> QED
    BY <1>1, <2>1, <2>2, <2>3, <2>4, <2>5, <2>6, <2>7, <2>8, <2>9 DEF Begin, Continue
<1>2. CASE NativeNext
  <2>1. CASE Entry
    BY <2>1 DEF Entry
  <2>2. CASE StillReady
    BY <2>2 DEF StillReady
  <2>3. CASE GoRunning
    BY <2>3 DEF GoRunning
  <2>4. CASE SkipJob
    BY <2>4 DEF SkipJob
  <2>5. CASE RunJob
    BY <2>5 DEF RunJob
  <2>6. CASE JobBeginsJoin
    BY <2>6 DEF JobBeginsJoin, CanJoin
  <2>7. CASE JobJoinFails
    BY <2>7 DEF JobJoinFails
  <2>8. CASE SelfJoin
    BY <2>8 DEF SelfJoin
  <2>9. CASE AwaitTerminating
    BY <2>9 DEF AwaitTerminating
  <2>10. CASE Exit
    BY <2>10 DEF Exit
  <2> QED
    BY <1>2, <2>1, <2>2, <2>3, <2>4, <2>5, <2>6, <2>7, <2>8, <2>9, <2>10 DEF NativeNext
<1>3. CASE SpuriousWakeup
  BY <1>3 DEF SpuriousWakeup
<1>4. CASE UNCHANGED vars
  BY <1>4 DEF vars
<1> QED
  BY <1>1, <1>2, <1>3, <1>4 DEF Next

-----------------------------------------------------------------------------
LEMMA InvInit == Init => ThreadInv
<1> SUFFICES ASSUME Init PROVE ThreadInv
  OBVIOUS
<1> USE CreatorAssumption, CallsAssumption DEF Init
<1>1. TypeOK
  <2>1. pc \in [Client -> ClientPC]
    BY DEF ClientPC
  <2>2. npc \in NativePC
    BY DEF NativePC
  <2>3. todo \in [Client -> SUBSET {"run", "join"}]
    OBVIOUS
  <2>4. mState \in 0..5 /\ waiting = {} /\ executed \in Nat
    OBVIOUS
  <2> QED
    BY <2>1, <2>2, <2>3, <2>4 DEF TypeOK
<1>2. ConstructionInv
  BY DEF ConstructionInv, Constructed
<1>3. StateInv /\ ExecutedInv
  BY DEF StateInv, ExecutedInv
<1>4. RunCalledInv /\ JoinCalledInv /\ JoinedInv
  BY DEF RunCalledInv, JoinCalledInv, JoinedInv, Called
<1> QED
  BY <1>1, <1>2, <1>3, <1>4 DEF ThreadInv

LEMMA InvStep == ThreadInv /\ [Next]_vars => ThreadInv'
<1> SUFFICES ASSUME ThreadInv, [Next]_vars PROVE ThreadInv'
  OBVIOUS
<1>1. TypeOK'
  BY TypeStep DEF ThreadInv
<1> QED
  BY <1>1, ConstructionStep, StateStep, ExecutedStep, RunCalledStep, JoinCalledStep, JoinedStep
     DEF ThreadInv

(* Where the native thread and the clients stand determines the state, what *)
(* was called and whether the job has run.                                  *)
THEOREM ThreadInvariance == Spec => []ThreadInv
BY InvInit, InvStep, PTL DEF Spec

(* Every variable keeps its type. *)
THEOREM TypeCorrect == Spec => []TypeOK
<1>1. ThreadInv => TypeOK
  BY DEF ThreadInv
<1> QED
  BY <1>1, ThreadInvariance, PTL

(* The job runs at most once and only for a client that called run; a join  *)
(* returns when the native thread is gone, after the job unless a join came *)
(* before the thread was running.                                           *)
THEOREM JoinIsDone == Spec => []JoinMeansDone
<1>1. ThreadInv => JoinMeansDone
  <2> SUFFICES ASSUME ThreadInv PROVE JoinMeansDone
    OBVIOUS
  <2>1. executed = 1 => Called("run") # {}
    BY DEF ThreadInv, RunCalledInv
  <2>2. executed <= 1
    BY DEF ThreadInv, ExecutedInv
  <2>3. ASSUME NEW c \in Returned("join")
        PROVE  npc = "exited" /\ (executed = 1 \/ joined = "early")
    BY <2>3 DEF Returned, Called, ThreadInv, JoinCalledInv, ExecutedInv
  <2> QED
    BY <2>1, <2>2, <2>3 DEF JoinMeansDone
<1> QED
  BY <1>1, ThreadInvariance, PTL

(* The state of the thread only advances. *)
THEOREM StateOnlyAdvances == Spec => StateAdvances
<1>1. ThreadInv /\ [Next]_vars => [mState' >= mState]_vars
  <2> SUFFICES ASSUME ThreadInv, [Next]_vars PROVE mState' >= mState
    OBVIOUS
  <2> USE DEF ThreadInv, TypeOK, Goto, GotoNative
  <2>1. ASSUME NEW c \in Client, Begin(c) \/ Continue(c)
        PROVE  mState' >= mState
    <3>1. CASE Run(c)
      BY <3>1 DEF Run, CanRun
    <3>2. CASE Join(c)
      BY <3>2 DEF Join, CanJoin
    <3>3. CASE RunFails(c) \/ JoinFails(c)
      BY <3>3 DEF RunFails, JoinFails, CheckFails
    <3>4. CASE Start(c) \/ Continue(c)
      BY <3>4 DEF Start, Continue, Started, Ran, PthreadJoined, Joined
    <3> QED
      BY <2>1, <3>1, <3>2, <3>3, <3>4 DEF Begin
  <2>2. CASE NativeNext
    <3>1. CASE Entry
      BY <3>1 DEF Entry, StateInv
    <3>2. CASE GoRunning
      BY <3>2 DEF GoRunning
    <3>3. CASE JobBeginsJoin
      BY <3>3 DEF JobBeginsJoin, CanJoin
    <3>4. CASE Exit
      BY <3>4 DEF Exit
    <3>5. CASE StillReady \/ SkipJob \/ RunJob \/ JobJoinFails \/ SelfJoin \/ AwaitTerminating
      BY <3>5 DEF StillReady, SkipJob, RunJob, JobJoinFails, SelfJoin, AwaitTerminating
    <3> QED
      BY <2>2, <3>1, <3>2, <3>3, <3>4, <3>5 DEF NativeNext
  <2>3. CASE SpuriousWakeup
    BY <2>3 DEF SpuriousWakeup
  <2>4. CASE UNCHANGED vars
    BY <2>4 DEF vars
  <2> QED
    BY <2>1, <2>2, <2>3, <2>4 DEF Next
<1> QED
  BY <1>1, ThreadInvariance, PTL DEF Spec, StateAdvances

-----------------------------------------------------------------------------
(* Two clients, or one. *)
LEMMA OneOrTwo ==
    ASSUME NEW S \in SUBSET Client
    PROVE  /\ Cardinality(S) \in Nat
           /\ \A c \in S : Cardinality(S) >= 1
           /\ \A c, d \in S : c # d => Cardinality(S) > 1
<1>1. IsFiniteSet(S) /\ Cardinality(S) \in Nat
  BY FS_Subset, FS_CardinalityType, ClientAssumption
<1>2. ASSUME NEW c \in S
      PROVE  Cardinality(S) # 0
  BY <1>1, FS_EmptySet
<1>3. ASSUME NEW c \in S, NEW d \in S, c # d
      PROVE  Cardinality(S) # 1
  <2>1. IsFiniteSet(S \ {c}) /\ Cardinality(S \ {c}) = Cardinality(S) - 1
    BY <1>1, FS_RemoveElement
  <2>2. d \in S \ {c}
    BY <1>3
  <2>3. Cardinality(S \ {c}) # 0
    BY <2>1, <2>2, FS_EmptySet
  <2> QED
    BY <1>1, <2>1, <2>3
<1> QED
  BY <1>1, <1>2, <1>3

LEMMA CalledTwice ==
    ASSUME NEW call
    PROVE  /\ Cardinality(Called(call)') \in Nat
           /\ \A c \in Called(call)' : Cardinality(Called(call)') >= 1
           /\ \A c, d \in Called(call)' : c # d => Cardinality(Called(call)') > 1
<1>1. Called(call)' \in SUBSET Client
  BY DEF Called
<1> QED
  BY <1>1, OneOrTwo, Zenon

(* A client that calls, and those that called before. *)
LEMMA CallsOnce ==
    ASSUME ThreadInv, NEW c \in Client, NEW call \in {"run", "join"}, Call(c, call)
    PROVE  /\ c \notin Called(call) /\ c \in Called(call)'
           /\ \A d \in Called(call) : d \in Called(call)'
           /\ Constructed /\ ~aborted
  BY CallsAssumption DEF ThreadInv, TypeOK, ConstructionInv, Call, Called, Awake

LEMMA MisuseStep ==
    ASSUME ThreadInv, AbortsOnMisuse, [Next]_vars
    PROVE  AbortsOnMisuse'
<1> USE DEF kThreadNew, kThreadReady, kThreadReadyToRun, kThreadTerminating
<1>1. CASE UNCHANGED vars
  BY <1>1 DEF vars, AbortsOnMisuse, Called, SelfJoins
<1>2. CASE Next /\ aborted' = FALSE
  BY <1>2 DEF AbortsOnMisuse
<1>3. ASSUME NEW c \in Client, RunFails(c)
      PROVE  AbortsOnMisuse'
  <2>1. /\ c \notin Called("run") /\ c \in Called("run")'
        /\ \A d \in Called("run") : d \in Called("run")'
    BY <1>3, CallsOnce DEF RunFails
  <2>2. mState > kThreadReady /\ ~aborted /\ joined' = joined
    BY <1>3, CallsOnce DEF RunFails, CanRun, CheckFails, ThreadInv, TypeOK
  <2>3. Called("run") # {} \/ joined = "early"
    BY <2>2 DEF ThreadInv, TypeOK, RunCalledInv, JoinedInv
  <2>4. CASE joined = "early"
    BY <2>1, <2>2, <2>4 DEF AbortsOnMisuse
  <2>5. CASE Called("run") # {}
    <3>1. PICK d \in Called("run") : TRUE
      BY <2>5
    <3>2. c \in Called("run")' /\ d \in Called("run")' /\ c # d
      BY <2>1, <3>1
    <3>3. Cardinality(Called("run")') > 1
      BY <3>2, CalledTwice
    <3> QED
      BY <3>3 DEF AbortsOnMisuse
  <2> QED
    BY <2>3, <2>4, <2>5
<1>4. ASSUME NEW c \in Client, JoinFails(c)
      PROVE  AbortsOnMisuse'
  <2>1. /\ c \notin Called("join") /\ c \in Called("join")'
        /\ \A d \in Called("join") : d \in Called("join")'
        /\ Constructed /\ ~aborted
    BY <1>4, CallsOnce DEF JoinFails
  <2>2. mState >= kThreadTerminating /\ joined' = joined
    BY <1>4, <2>1 DEF JoinFails, CanJoin, CheckFails, ThreadInv, TypeOK, ConstructionInv
  <2>3. Called("join") # {} \/ joined = "inside"
    BY <2>1, <2>2 DEF ThreadInv, TypeOK, JoinedInv
  <2>4. CASE Called("join") # {}
    <3>1. PICK d \in Called("join") : TRUE
      BY <2>4
    <3>2. c \in Called("join")' /\ d \in Called("join")' /\ c # d
      BY <2>1, <3>1
    <3>3. Cardinality(Called("join")') \in Nat /\ Cardinality(Called("join")') > 1
      BY <3>2, CalledTwice
    <3> QED
      BY <3>3 DEF AbortsOnMisuse, SelfJoins
  <2>5. CASE joined = "inside"
    <3>1. Cardinality(Called("join")') \in Nat /\ Cardinality(Called("join")') >= 1
      BY <2>1, CalledTwice
    <3> QED
      BY <2>2, <2>5, <3>1 DEF AbortsOnMisuse, SelfJoins
  <2> QED
    BY <2>3, <2>4, <2>5
<1>5. CASE JobJoinFails
  <2>1. /\ npc = "job" /\ ~CanJoin /\ ~aborted
        /\ joined' = "inside" /\ todo' = todo
    BY <1>5 DEF JobJoinFails, Awake, GotoNative, client_vars
  <2>2. mState >= kThreadTerminating
    BY <2>1 DEF CanJoin, ThreadInv, TypeOK, StateInv
  <2>3. Called("join") # {} /\ Called("join")' = Called("join")
    BY <2>1, <2>2 DEF ThreadInv, TypeOK, JoinedInv, Called
  <2>4. Cardinality(Called("join")') \in Nat /\ Cardinality(Called("join")') >= 1
    BY <2>3, CalledTwice
  <2> QED
    BY <2>1, <2>4 DEF AbortsOnMisuse, SelfJoins
<1>6. CASE Next /\ aborted' # FALSE
  <2>1. CASE \E c \in Client : Begin(c) \/ Continue(c)
    BY <1>3, <1>4, <1>6, <2>1 DEF Begin, Continue, Start, Started, Run, Ran, Join, PthreadJoined,
        Joined, Call, Awake, ThreadInv, TypeOK
  <2>2. CASE NativeNext
    BY <1>5, <1>6, <2>2 DEF NativeNext, Entry, StillReady, GoRunning, SkipJob, RunJob,
        JobBeginsJoin, SelfJoin, AwaitTerminating, Exit, Awake, ThreadInv, TypeOK
  <2>3. CASE SpuriousWakeup
    BY <1>6, <2>3 DEF SpuriousWakeup, ThreadInv, TypeOK
  <2> QED
    BY <1>6, <2>1, <2>2, <2>3 DEF Next
<1> QED
  BY <1>1, <1>2, <1>6

(* A CHECK of run or join fails only when somebody runs or joins twice, or *)
(* joins before the thread was running and runs it too.                    *)
THEOREM AbortsOnlyOnMisuse == Spec => []AbortsOnMisuse
<1>1. Init => AbortsOnMisuse
  BY DEF Init, AbortsOnMisuse
<1>2. ThreadInv /\ AbortsOnMisuse /\ [Next]_vars => AbortsOnMisuse'
  BY MisuseStep
<1> QED
  BY <1>1, <1>2, ThreadInvariance, PTL DEF Spec
-----------------------------------------------------------------------------
(* The main looper. *)
USE DEF looperVars, locks, tasks, flags, history, omens, Creating

-----------------------------------------------------------------------------
(* What the three ways to change a stack do to it. *)
LEMMA PushSeq ==
    ASSUME NEW S, NEW s \in Seq(S), NEW x \in S, NEW r, r = <<x>> \o s
    PROVE  /\ r \in Seq(S) /\ r # <<>> /\ Head(r) = x /\ Len(r) = Len(s) + 1
           /\ r[1] = x /\ \A i \in 2..Len(r) : r[i] = s[i - 1]
<1>1. <<x>> \in Seq(S) /\ Len(<<x>>) = 1 /\ <<x>>[1] = x
  OBVIOUS
<1>2. r \in Seq(S) /\ Len(r) = Len(s) + 1 /\ r[1] = x
  BY <1>1
<1>3. \A i \in 2..Len(r) : r[i] = s[i - 1]
  BY <1>1, <1>2
<1>4. r # <<>>
  BY <1>2
<1> QED
  BY <1>2, <1>3, <1>4

LEMMA ProceedSeq ==
    ASSUME NEW S, NEW s \in Seq(S), s # <<>>, NEW x \in S, NEW r, r = <<x>> \o Tail(s)
    PROVE  /\ r \in Seq(S) /\ r # <<>> /\ Head(r) = x /\ Len(r) = Len(s)
           /\ r[1] = x /\ \A i \in 2..Len(r) : r[i] = s[i]
<1>1. /\ Tail(s) \in Seq(S) /\ Len(Tail(s)) = Len(s) - 1
      /\ \A i \in 1..(Len(s) - 1) : Tail(s)[i] = s[i + 1]
  OBVIOUS
<1>2. /\ r \in Seq(S) /\ r # <<>> /\ Head(r) = x /\ Len(r) = Len(s) /\ r[1] = x
      /\ \A i \in 2..Len(r) : r[i] = Tail(s)[i - 1]
  BY <1>1, PushSeq
<1> QED
  BY <1>1, <1>2

LEMMA ReturnSeq ==
    ASSUME NEW S, NEW s \in Seq(S), s # <<>>, NEW r, r = Tail(s)
    PROVE  /\ r \in Seq(S) /\ Len(r) = Len(s) - 1
           /\ \A i \in 1..Len(r) : r[i] = s[i + 1]
  OBVIOUS

(* What a step of thread t does to its stack: nothing but call is new, the  *)
(* loop stays outermost, and the job that runs stays below what it calls.   *)
Effects(t, call) ==
    /\ stack' \in [Threads -> Seq(MainCall)]
    /\ \A u \in Threads : u # t => stack'[u] = stack[u]
    /\ \A c : In(t, c)' => c = call \/ In(t, c)
    /\ Outermost => Outermost'
    /\ InRun /\ Top(t) # "run" => InRun'

LEMMA TopFacts ==
    ASSUME MainTypeOK, NEW t \in Threads
    PROVE  /\ Top(t) = "user" <=> stack[t] = <<>>
           /\ Top(t) # "user" => /\ stack[t] # <<>> /\ Top(t) = stack[t][1]
                                 /\ 1 \in DOMAIN stack[t] /\ In(t, Top(t))
                                 /\ Top(t) \in MainCall
<1>1. stack[t] \in Seq(MainCall)
  BY DEF MainTypeOK
<1>2. "user" \notin MainCall
  BY DEF MainCall, LoopCalls, Sections
<1>3. CASE stack[t] = <<>>
  BY <1>3 DEF Top
<1>4. CASE stack[t] # <<>>
  <2>1. /\ Head(stack[t]) = stack[t][1] /\ 1 \in DOMAIN stack[t]
        /\ stack[t][1] \in MainCall
    BY <1>1, <1>4
  <2> QED
    BY <1>2, <1>4, <2>1 DEF Top, In
<1> QED
  BY <1>3, <1>4

LEMMA PushFacts ==
    ASSUME MainTypeOK, MainAssumption, NEW t \in Threads, NEW call \in MainCall,
           Push(t, call), call \in LoopCalls => stack[t] = <<>>
    PROVE  Effects(t, call) /\ Top(t)' = call /\ (InRun => InRun')
<1> DEFINE s == stack[t]
           r == stack'[t]
<1>1. /\ s \in Seq(MainCall) /\ r = <<call>> \o s
      /\ stack' = [stack EXCEPT ![t] = r]
      /\ \A u \in Threads : u # t => stack'[u] = stack[u]
  BY DEF MainTypeOK, Push
<1>2. /\ r \in Seq(MainCall) /\ r # <<>> /\ Head(r) = call /\ Len(r) = Len(s) + 1
      /\ r[1] = call /\ \A i \in 2..Len(r) : r[i] = s[i - 1]
  BY <1>1, PushSeq
<1>3. stack' \in [Threads -> Seq(MainCall)]
  BY <1>1, <1>2 DEF MainTypeOK
<1>4. Top(t)' = call
  BY <1>2 DEF Top
<1>5. ASSUME NEW c, In(t, c)' PROVE c = call \/ In(t, c)
  <2>1. PICK i \in 1..Len(r) : r[i] = c
    BY <1>2, <1>5 DEF In
  <2>2. CASE i = 1
    BY <1>2, <2>1, <2>2
  <2>3. CASE i # 1
    <3>1. i \in 2..Len(r) /\ i - 1 \in 1..Len(s)
      BY <1>1, <1>2, <2>1, <2>3
    <3> QED
      BY <1>1, <1>2, <2>1, <3>1 DEF In
  <2> QED
    BY <2>2, <2>3
<1>6. Outermost => Outermost'
  <2>1. CASE t = main
    <3> SUFFICES ASSUME Outermost, NEW i \in 1..Len(r), r[i] \in LoopCalls
                 PROVE  i = Len(r)
      BY <1>2, <2>1 DEF Outermost
    <3>1. CASE i = 1
      BY <1>1, <1>2, <3>1
    <3>2. CASE i # 1
      <4>1. i \in 2..Len(r) /\ i - 1 \in 1..Len(s)
        BY <1>1, <1>2, <3>2
      <4>2. i - 1 = Len(s)
        BY <1>1, <1>2, <2>1, <4>1 DEF Outermost
      <4> QED
        BY <1>1, <1>2, <4>2
    <3> QED
      BY <3>1, <3>2
  <2>2. CASE t # main
    BY <1>1, <2>2, MainAssumption DEF Outermost
  <2> QED
    BY <2>1, <2>2
<1>7. InRun => InRun'
  <2>1. CASE t = main
    <3> SUFFICES ASSUME InRun PROVE InRun'
      OBVIOUS
    <3>1. s # <<>> /\ s[Len(s)] = "run"
      BY <2>1 DEF InRun, Bottom
    <3>2. Len(r) \in 2..Len(r) /\ Len(r) - 1 = Len(s)
      BY <1>1, <1>2, <3>1
    <3>3. r[Len(r)] = s[Len(s)]
      BY <1>2, <3>2
    <3> QED
      BY <1>2, <2>1, <3>1, <3>3 DEF InRun, Bottom
  <2>2. CASE t # main
    BY <1>1, <2>2, MainAssumption DEF InRun, Bottom
  <2> QED
    BY <2>1, <2>2
<1> QED
  BY <1>1, <1>3, <1>4, <1>5, <1>6, <1>7 DEF Effects

LEMMA ProceedFacts ==
    ASSUME MainTypeOK, MainAssumption, NEW t \in Threads, NEW call \in MainCall,
           Proceed(t, call), Top(t) # "user",
           call \in LoopCalls => Top(t) \in LoopCalls
    PROVE  Effects(t, call) /\ Top(t)' = call
<1> DEFINE s == stack[t]
           r == stack'[t]
<1>1. /\ s \in Seq(MainCall) /\ s # <<>> /\ r = <<call>> \o Tail(s)
      /\ stack' = [stack EXCEPT ![t] = r] /\ Top(t) = s[1]
      /\ \A u \in Threads : u # t => stack'[u] = stack[u]
  BY TopFacts DEF MainTypeOK, Proceed
<1>2. /\ r \in Seq(MainCall) /\ r # <<>> /\ Head(r) = call /\ Len(r) = Len(s)
      /\ r[1] = call /\ \A i \in 2..Len(r) : r[i] = s[i]
  BY <1>1, ProceedSeq
<1>3. stack' \in [Threads -> Seq(MainCall)]
  <2>1. stack \in [Threads -> Seq(MainCall)]
    BY DEF MainTypeOK
  <2> QED
    BY <1>1, <1>2, <2>1, ZenonT(30)
<1>4. Top(t)' = call
  BY <1>2 DEF Top
<1>5. ASSUME NEW c, In(t, c)' PROVE c = call \/ In(t, c)
  <2>1. PICK i \in 1..Len(r) : r[i] = c
    BY <1>2, <1>5 DEF In
  <2>2. CASE i = 1
    BY <1>2, <2>1, <2>2
  <2>3. CASE i # 1
    <3>1. i \in 2..Len(r) /\ i \in 1..Len(s)
      BY <1>1, <1>2, <2>1, <2>3
    <3> QED
      BY <1>1, <1>2, <2>1, <3>1 DEF In
  <2> QED
    BY <2>2, <2>3
<1>6. Outermost => Outermost'
  <2>1. CASE t = main
    <3> SUFFICES ASSUME Outermost, NEW i \in 1..Len(r), r[i] \in LoopCalls
                 PROVE  i = Len(r)
      BY <1>2, <2>1 DEF Outermost
    <3>1. i \in 1..Len(s) /\ s[i] \in LoopCalls
      BY <1>1, <1>2
    <3> QED
      BY <1>1, <1>2, <2>1, <3>1 DEF Outermost
  <2>2. CASE t # main
    BY <1>1, <2>2, MainAssumption DEF Outermost
  <2> QED
    BY <2>1, <2>2
<1>7. InRun /\ Top(t) # "run" => InRun'
  <2>1. CASE t = main
    <3> SUFFICES ASSUME InRun, s[1] # "run" PROVE InRun'
      BY <1>1
    <3>1. s[Len(s)] = "run"
      BY <2>1 DEF InRun, Bottom
    <3>2. Len(r) \in 2..Len(r)
      BY <1>1, <1>2, <3>1
    <3>3. r[Len(r)] = "run"
      BY <1>2, <3>1, <3>2
    <3> QED
      BY <1>2, <2>1, <3>3 DEF InRun, Bottom
  <2>2. CASE t # main
    BY <1>1, <2>2, MainAssumption DEF InRun, Bottom
  <2> QED
    BY <2>1, <2>2
<1> QED
  BY <1>1, <1>3, <1>4, <1>5, <1>6, <1>7 DEF Effects

LEMMA ReturnFacts ==
    ASSUME MainTypeOK, MainAssumption, NEW t \in Threads, Return(t), Top(t) # "user"
    PROVE  Effects(t, Top(t))
<1> DEFINE s == stack[t]
           r == stack'[t]
<1>1. /\ s \in Seq(MainCall) /\ s # <<>> /\ r = Tail(s)
      /\ stack' = [stack EXCEPT ![t] = r] /\ Top(t) = s[1]
      /\ \A u \in Threads : u # t => stack'[u] = stack[u]
  BY TopFacts DEF MainTypeOK, Return
<1>2. /\ r \in Seq(MainCall) /\ Len(r) = Len(s) - 1
      /\ \A i \in 1..Len(r) : r[i] = s[i + 1]
  BY <1>1, ReturnSeq
<1>3. stack' \in [Threads -> Seq(MainCall)]
  <2>1. stack \in [Threads -> Seq(MainCall)]
    BY DEF MainTypeOK
  <2> QED
    BY <1>1, <1>2, <2>1, ZenonT(30)
<1>5. ASSUME NEW c, In(t, c)' PROVE In(t, c)
  <2>1. PICK i \in 1..Len(r) : r[i] = c
    BY <1>2, <1>5 DEF In
  <2>2. i + 1 \in 1..Len(s)
    BY <1>1, <1>2, <2>1
  <2> QED
    BY <1>1, <1>2, <2>1, <2>2 DEF In
<1>6. Outermost => Outermost'
  <2>1. CASE t = main
    <3> SUFFICES ASSUME Outermost, NEW i \in 1..Len(r), r[i] \in LoopCalls
                 PROVE  i = Len(r)
      BY <1>2, <2>1 DEF Outermost
    <3>1. i + 1 \in 1..Len(s) /\ s[i + 1] \in LoopCalls
      BY <1>1, <1>2
    <3>2. i + 1 = Len(s)
      BY <1>1, <2>1, <3>1 DEF Outermost
    <3> QED
      BY <1>1, <1>2, <3>2
  <2>2. CASE t # main
    BY <1>1, <2>2, MainAssumption DEF Outermost
  <2> QED
    BY <2>1, <2>2
<1>7. InRun /\ Top(t) # "run" => InRun'
  <2>1. CASE t = main
    <3> SUFFICES ASSUME InRun, s[1] # "run" PROVE InRun'
      BY <1>1
    <3>1. s[Len(s)] = "run"
      BY <2>1 DEF InRun, Bottom
    <3>2. Len(s) # 1
      BY <3>1
    <3>3. Len(s) \in Nat /\ Len(r) \in Nat /\ Len(s) = Len(r) + 1
      BY <1>1, <1>2
    <3>4. Len(r) \in 1..Len(r)
      <4>1. Len(r) # 0
        BY <3>2, <3>3
      <4> QED
        BY <3>3, <4>1
    <3>5. r[Len(r)] = "run"
      BY <1>2, <3>1, <3>3, <3>4
    <3>6. r # <<>>
      BY <1>2, <3>4
    <3> QED
      BY <2>1, <3>5, <3>6 DEF InRun, Bottom
  <2>2. CASE t # main
    BY <1>1, <2>2, MainAssumption DEF InRun, Bottom
  <2> QED
    BY <2>1, <2>2
<1> QED
  BY <1>1, <1>3, <1>5, <1>6, <1>7 DEF Effects

-----------------------------------------------------------------------------
(* The conditions under which a step keeps each part of the invariant.      *)
LEMMA TopIn ==
    ASSUME MainTypeOK, NEW t \in Threads, NEW c \in MainCall, Top(t) = c
    PROVE  In(t, c)
<1>1. c # "user"
  BY DEF MainCall, LoopCalls, Sections
<1> QED
  BY <1>1, TopFacts

LEMMA CreationKept ==
    ASSUME MainAssumption, CreationInv, NEW t \in Threads, NEW call, Effects(t, call),
           UNCHANGED <<lpMain, mJobDisp, mTerminated>>, unlucky => unlucky',
           call \in Creating => lpMain # "none",
           t = main /\ Top(main) \in Creating =>
               mJobDisp \/ lpMain # "looper" \/ unlucky' \/ Top(main)' \in Creating
    PROVE  CreationInv'
<1>1. \A c \in Creating : In(main, c)' => In(main, c) \/ lpMain # "none"
  <2>1. CASE t = main
    BY <2>1 DEF Effects
  <2>2. CASE t # main
    BY <2>2, MainAssumption DEF Effects, In
  <2> QED
    BY <2>1, <2>2
<1>2. lpMain = "looper" /\ ~mJobDisp => unlucky' \/ Top(main)' \in Creating
  <2>1. CASE t = main
    BY <2>1 DEF CreationInv
  <2>2. CASE t # main
    BY <2>2, MainAssumption DEF CreationInv, Effects, Top
  <2> QED
    BY <2>1, <2>2
<1> QED
  BY <1>1, <1>2 DEF CreationInv

ReleaseCalls == {"exit", "exiting", "await_exit"}

LEMMA ReleasingIn == Releasing <=> \E t \in Threads : \E c \in ReleaseCalls : In(t, c)
  BY DEF Releasing, ReleaseCalls, In

LEMMA NoNewRelease ==
    ASSUME NEW t \in Threads, NEW call, Effects(t, call),
           call \in ReleaseCalls => Releasing, Releasing'
    PROVE  Releasing
<1>1. PICK u \in Threads, c \in ReleaseCalls : \E i \in DOMAIN stack'[u] : stack'[u][i] = c
  BY DEF Releasing, ReleaseCalls
<1>2. CASE u = t
  <2>1. In(t, c)'
    BY <1>1, <1>2 DEF In
  <2>2. c = call \/ In(t, c)
    BY <2>1 DEF Effects
  <2> QED
    BY <2>2, ReleasingIn
<1>3. CASE u # t
  <2>1. In(u, c)
    BY <1>1, <1>3 DEF In, Effects
  <2> QED
    BY <2>1, ReleasingIn
<1> QED
  BY <1>2, <1>3

LEMMA ReferenceKept ==
    ASSUME ReferenceInv, NEW t \in Threads, NEW call, Effects(t, call),
           refs' = refs, mJobDisp' = mJobDisp, lpMain' \in {lpMain, "gone"},
           unlucky => unlucky',
           call \in ReleaseCalls => Releasing,
           call \in {"return", "handler"} => mJobDisp \/ lpMain = "gone" \/ unlucky'
    PROVE  ReferenceInv'
<1>1. Releasing' => refs' = {}
  BY NoNewRelease DEF ReferenceInv
<1>2. ASSUME NEW u \in Threads, NEW c \in {"return", "handler"}, ~unlucky', In(u, c)'
      PROVE  mJobDisp' \/ lpMain' = "gone"
  <2>1. CASE u = t
    <3>1. call = c \/ In(t, c)
      BY <1>2, <2>1 DEF Effects
    <3> QED
      BY <1>2, <3>1 DEF ReferenceInv
  <2>2. CASE u # t
    <3>1. In(u, c)
      BY <1>2, <2>2 DEF Effects, In
    <3> QED
      BY <1>2, <3>1 DEF ReferenceInv
  <2> QED
    BY <2>1, <2>2
<1> QED
  BY <1>1, <1>2 DEF ReferenceInv

LEMMA LocksKept ==
    ASSUME MainTypeOK, LocksInv, NEW t \in Threads,
           \A u \in Threads : u # t => stack'[u] = stack[u],
           unlucky => unlucky',
           mLock' \in {mLock, t, NoOne}, mTaskLock' \in {mTaskLock, t, NoOne},
           mLock' = t => unlucky' \/ Top(t)' \in Held,
           mTaskLock' = t => unlucky' \/ Top(t)' = "insert"
    PROVE  LocksInv'
<1> SUFFICES ASSUME ~unlucky'
             PROVE  /\ mLock' # NoOne => Top(mLock)' \in Held
                    /\ mTaskLock' # NoOne => Top(mTaskLock)' = "insert"
  BY DEF LocksInv
<1>1. /\ mLock # NoOne => Top(mLock) \in Held
      /\ mTaskLock # NoOne => Top(mTaskLock) = "insert"
  BY DEF LocksInv
<1>2. \A u \in Threads : u # t => Top(u)' = Top(u)
  BY DEF Top
<1>3. mLock \in Threads \cup {NoOne} /\ mTaskLock \in Threads \cup {NoOne}
  BY DEF MainTypeOK
<1>4. mLock' # NoOne => Top(mLock)' \in Held
  <2>1. CASE mLock' = t
    BY <2>1
  <2>2. CASE mLock' # t /\ mLock' # NoOne
    <3>1. mLock' = mLock /\ mLock \in Threads
      BY <1>3, <2>2
    <3> QED
      BY <1>1, <2>2, <3>1 DEF Top
  <2> QED
    BY <2>1, <2>2
<1>5. mTaskLock' # NoOne => Top(mTaskLock)' = "insert"
  <2>1. CASE mTaskLock' = t
    BY <2>1
  <2>2. CASE mTaskLock' # t /\ mTaskLock' # NoOne
    <3>1. mTaskLock' = mTaskLock /\ mTaskLock \in Threads
      BY <1>3, <2>2
    <3> QED
      BY <1>1, <2>2, <3>1 DEF Top
  <2> QED
    BY <2>1, <2>2
<1> QED
  BY <1>4, <1>5

Done == ran \cup flushed

LEMMA DrainKept ==
    ASSUME MainTypeOK, MainAssumption, DrainInv, NEW t \in Threads, NEW call, Effects(t, call),
           current' = current \/ current' = NoOne,
           current' # NoOne => (InRun => InRun'),
           call = "leave" => t # main, call = "leaving" => t # main \/ In(main, "leave"),
           mTerminated' = mTerminated,
           mRequestExit => mRequestExit' /\ early' = early,
           early' \subseteq early \cup Pending',
           Done \subseteq Done', Pending \subseteq Pending' \cup Done'
    PROVE  DrainInv'
<1>1. Outermost'
  BY DEF DrainInv, Effects
<1>2. current' # NoOne => InRun'
  BY DEF DrainInv
<1>3. early' \subseteq ran' \cup flushed' \cup Pending'
  BY DEF DrainInv, Done
<1>4. \A c : c \in {"leave", "leaving"} /\ In(main, c)' =>
          In(main, "leave") \/ In(main, "leaving")
  <2>1. CASE t = main
    BY <2>1 DEF Effects
  <2>2. CASE t # main
    BY <2>2, MainAssumption DEF Effects, In
  <2> QED
    BY <2>1, <2>2
<1>5. In(main, "leave")' \/ In(main, "leaving")' \/ mTerminated' =>
          mRequestExit' /\ early' \subseteq ran' \cup flushed'
  BY <1>4 DEF DrainInv, Done
<1> QED
  BY <1>1, <1>2, <1>3, <1>5 DEF DrainInv

LEMMA FailKept ==
    ASSUME MainLooperInv, NEW what, Fail(what), unlucky' = TRUE,
           DOMAIN calls' \subseteq Threads, calls' \in [DOMAIN calls' -> Nat]
    PROVE  MainLooperInv'
<1> USE DEF MainLooperInv, Fail
<1>1. MainTypeOK' /\ FailsOnlyByBadLuck'
  BY DEF MainTypeOK, FailsOnlyByBadLuck
<1>2. CreationInv' /\ LocksInv'
  BY DEF CreationInv, LocksInv, Top, In
<1>3. ReferenceInv'
  BY DEF ReferenceInv, Releasing, In
<1>4. DrainInv'
  BY DEF DrainInv, Outermost, InRun, Bottom, In, Pending
<1> QED
  BY <1>1, <1>2, <1>3, <1>4

(* A step that moves one thread and touches no task. *)
LEMMA PlainStep ==
    ASSUME MainAssumption, MainLooperInv, NEW t \in Threads, NEW call, Effects(t, call),
           UNCHANGED <<looperVars, tasks, mTerminated, fate, history, unlucky>>,
           DOMAIN calls' \subseteq Threads, calls' \in [DOMAIN calls' -> Nat],
           mRequestExit' \in {mRequestExit, TRUE},
           call \notin {"return", "handler", "leave"},
           call \in Creating => lpMain # "none",
           Top(t) \in Creating => t # main \/ Top(t)' \in Creating,
           call = "leaving" => t # main \/ In(main, "leave"),
           call \in ReleaseCalls => Releasing,
           InRun => InRun',
           mLock' \in {mLock, t, NoOne}, mTaskLock' \in {mTaskLock, t, NoOne},
           mLock' = t => unlucky \/ Top(t)' \in Held,
           mTaskLock' = t => unlucky \/ Top(t)' = "insert"
    PROVE  MainLooperInv'
<1> USE DEF MainLooperInv
<1>1. MainTypeOK'
  BY DEF MainTypeOK, Effects
<1>2. FailsOnlyByBadLuck'
  BY DEF FailsOnlyByBadLuck
<1>3. CreationInv'
  BY CreationKept
<1>4. ReferenceInv'
  BY ReferenceKept
<1>5. LocksInv'
  BY LocksKept DEF Effects
<1>6. DrainInv'
  <2>1. Pending' = Pending /\ Done' = Done
    BY DEF Pending, Done
  <2>2. mRequestExit => mRequestExit'
    OBVIOUS
  <2> QED
    BY <2>1, <2>2, DrainKept
<1> QED
  BY <1>1, <1>2, <1>3, <1>4, <1>5, <1>6

LEMMA Begun ==
    ASSUME MainTypeOK, NEW t \in DOMAIN calls, BeginCall(t)
    PROVE  /\ t \in Threads /\ fate = "running"
           /\ DOMAIN calls' \subseteq Threads /\ calls' \in [DOMAIN calls' -> Nat]
           /\ calls[t] \in Nat /\ calls'[t] \in Nat
           /\ Top(t) \in {"user", "run"} /\ Top(t) \notin Held /\ Top(t) # "insert"
  BY DEF MainTypeOK, BeginCall, Held, Sections

(* Who is in no critical section holds no lock, but for bad luck. *)
LEMMA NotHolding ==
    ASSUME MainAssumption, LocksInv, NEW t \in Threads
    PROVE  /\ Top(t) \notin Held => unlucky \/ mLock # t
           /\ Top(t) # "insert" => unlucky \/ mTaskLock # t
  BY MainAssumption DEF LocksInv

-----------------------------------------------------------------------------
(* Calls. *)
LEMMA MainStep ==
    ASSUME MainAssumption, MainLooperInv, NEW t \in DOMAIN calls, Main(t)
    PROVE  MainLooperInv'
<1> USE DEF MainLooperInv
<1>1. /\ t \in Threads /\ fate = "running" /\ Top(t) = "user"
      /\ DOMAIN calls' \subseteq Threads /\ calls' \in [DOMAIN calls' -> Nat]
      /\ stack[t] = <<>>
  BY Begun, TopFacts DEF Main
<1>2. /\ unlucky' = (unlucky \/ (t # main /\ ~mJobDisp) \/ lpMain = "gone")
      /\ unlucky' \in BOOLEAN
  BY DEF Main, MainTypeOK
<1>3. CASE lpMain # "looper" /\ t # main /\ Fail("aborted")
  <2>1. unlucky' = TRUE
    BY <1>2, <1>3 DEF CreationInv, MainTypeOK
  <2> QED
    BY <1>1, <1>3, <2>1, FailKept
<1>4. CASE /\ lpMain = "looper" /\ Push(t, "return")
           /\ UNCHANGED <<looperVars, locks, waiters, tasks, flags, history, fate, interrupted>>
  <2>1. Effects(t, "return") /\ Top(t)' = "return" /\ (InRun => InRun')
    BY <1>1, <1>4, PushFacts DEF MainCall, LoopCalls
  <2>2. MainTypeOK' /\ FailsOnlyByBadLuck'
    BY <1>1, <1>2, <1>4, <2>1 DEF MainTypeOK, FailsOnlyByBadLuck, Effects
  <2>3. CreationInv'
    BY <1>1, <1>2, <1>4, <2>1, CreationKept
  <2>4. mJobDisp \/ unlucky'
    BY <1>1, <1>2, <1>4 DEF CreationInv
  <2>5. ReferenceInv'
    BY <1>1, <1>2, <1>4, <2>1, <2>4, ReferenceKept DEF ReleaseCalls
  <2>6. LocksInv'
    <3>1. unlucky \/ (mLock # t /\ mTaskLock # t)
      BY <1>1, NotHolding DEF Held, Sections
    <3> QED
      BY <1>1, <1>2, <1>4, <2>1, <3>1, LocksKept DEF Effects
  <2>7. DrainInv'
    <3>1. Pending' = Pending /\ Done' = Done
      BY <1>4 DEF Pending, Done
    <3> QED
      BY <1>1, <1>4, <2>1, <3>1, DrainKept
  <2> QED
    BY <2>2, <2>3, <2>5, <2>6, <2>7
<1>5. CASE /\ lpMain = "none" /\ t = main /\ lpMain' = "looper" /\ Push(t, "create")
           /\ UNCHANGED <<mJobDisp, refs, locks, waiters, tasks, flags, history, fate,
                          interrupted>>
  <2>1. Effects(t, "create") /\ Top(t)' = "create" /\ (InRun => InRun')
    BY <1>1, <1>5, PushFacts DEF MainCall, LoopCalls
  <2>2. MainTypeOK' /\ FailsOnlyByBadLuck'
    BY <1>1, <1>2, <1>5, <2>1 DEF MainTypeOK, FailsOnlyByBadLuck, Effects
  <2>3. CreationInv'
    BY <1>5, <2>1 DEF CreationInv
  <2>4. unlucky => unlucky'
    BY <1>2
  <2>5. ReferenceInv'
    <3>1. Releasing' => Releasing
      BY <1>1, <2>1, NoNewRelease DEF ReleaseCalls
    <3>2. \A u \in Threads : \A c \in {"return", "handler"} : In(u, c)' => In(u, c)
      BY <1>1, <2>1 DEF Effects, In
    <3>3. \A u \in Threads : \A c \in {"return", "handler"} : unlucky \/ ~In(u, c)
      BY <1>5 DEF ReferenceInv, CreationInv
    <3> QED
      BY <1>5, <2>4, <3>1, <3>2, <3>3 DEF ReferenceInv
  <2>6. LocksInv'
    <3>1. unlucky \/ (mLock # t /\ mTaskLock # t)
      BY <1>1, NotHolding DEF Held, Sections
    <3> QED
      BY <1>1, <1>5, <2>1, <2>4, <3>1, LocksKept DEF Effects
  <2>7. DrainInv'
    <3>1. Pending' = Pending /\ Done' = Done
      BY <1>5 DEF Pending, Done
    <3> QED
      BY <1>1, <1>5, <2>1, <3>1, DrainKept
  <2> QED
    BY <2>2, <2>3, <2>5, <2>6, <2>7
<1> QED
  BY <1>3, <1>4, <1>5 DEF Main

LEMMA InstallHandlerStep ==
    ASSUME MainAssumption, MainLooperInv, InstallHandler
    PROVE  MainLooperInv'
<1> USE DEF MainLooperInv
<1>1. Top(main) = "create" /\ main \in Threads
  BY MainAssumption DEF InstallHandler, At
<1>2. Effects(main, "assign") /\ Top(main)' = "assign"
  BY <1>1, ProceedFacts DEF InstallHandler, MainCall, LoopCalls
<1>3. lpMain # "none"
  BY <1>1, TopIn DEF CreationInv, MainCall
<1>4. unlucky \/ (mLock # main /\ mTaskLock # main)
  BY <1>1, NotHolding DEF Held, Sections
<1>5. InRun => InRun'
  BY <1>1, <1>2 DEF Effects
<1> QED
  BY <1>1, <1>2, <1>3, <1>4, <1>5, PlainStep DEF InstallHandler, ReleaseCalls, MainTypeOK

LEMMA AssignDispatcherStep ==
    ASSUME MainAssumption, MainLooperInv, AssignDispatcher
    PROVE  MainLooperInv'
<1> USE DEF MainLooperInv
<1>1. Top(main) = "assign" /\ main \in Threads
  BY MainAssumption DEF AssignDispatcher, At
<1>2. Effects(main, "return") /\ Top(main)' = "return"
  BY <1>1, ProceedFacts DEF AssignDispatcher, MainCall, LoopCalls
<1>3. MainTypeOK' /\ FailsOnlyByBadLuck'
  BY <1>2 DEF AssignDispatcher, MainTypeOK, FailsOnlyByBadLuck, Effects
<1>4. CreationInv'
  <2>1. lpMain # "none"
    BY <1>1, TopIn DEF CreationInv, MainCall
  <2> QED
    BY <1>1, <2>1 DEF AssignDispatcher, CreationInv
<1>5. ReferenceInv'
  <2>1. Releasing' => Releasing
    BY <1>1, <1>2, NoNewRelease DEF ReleaseCalls
  <2> QED
    BY <2>1 DEF AssignDispatcher, ReferenceInv
<1>6. LocksInv'
  <2>1. unlucky \/ (mLock # main /\ mTaskLock # main)
    BY <1>1, NotHolding DEF Held, Sections
  <2> QED
    BY <1>1, <1>2, <2>1, LocksKept DEF Effects, AssignDispatcher
<1>7. DrainInv'
  <2>1. Pending' = Pending /\ Done' = Done
    BY DEF AssignDispatcher, Pending, Done
  <2> QED
    BY <1>1, <1>2, <2>1, DrainKept DEF AssignDispatcher, Effects
<1> QED
  BY <1>3, <1>4, <1>5, <1>6, <1>7

LEMMA ReturnMainStep ==
    ASSUME MainAssumption, MainLooperInv, NEW t \in Threads, ReturnMain(t)
    PROVE  MainLooperInv'
<1> USE DEF MainLooperInv
<1>1. Top(t) = "return" /\ fate = "running" /\ calls' = calls
  BY DEF ReturnMain, At
<1>2. CASE lpMain = "looper" /\ Releasing
  BY <1>1, <1>2, FailKept DEF ReturnMain, MainTypeOK
<1>3. CASE ~(lpMain = "looper" /\ Releasing)
  <2>1. /\ refs' = IF lpMain = "looper" THEN refs \cup {t} ELSE refs
        /\ unlucky' = (unlucky \/ lpMain # "looper") /\ Return(t)
        /\ UNCHANGED <<lpMain, mJobDisp, locks, tasks, flags, fate, history>>
    BY <1>3 DEF ReturnMain
  <2>2. Effects(t, "return")
    BY <1>1, <2>1, ReturnFacts
  <2>3. MainTypeOK' /\ FailsOnlyByBadLuck'
    BY <1>1, <2>1, <2>2 DEF MainTypeOK, FailsOnlyByBadLuck, Effects
  <2>4. CreationInv'
    BY <1>1, <2>1, <2>2, CreationKept
  <2>5. In(t, "return")
    BY <1>1, TopIn DEF MainCall
  <2>6. ReferenceInv'
    <3>1. Releasing' => Releasing
      BY <2>2, NoNewRelease DEF ReleaseCalls
    <3>2. \A u \in Threads : \A c \in {"return", "handler"} : In(u, c)' => In(u, c)
      BY <2>2, <2>5 DEF Effects, In
    <3>3. Releasing' => refs' = {}
      BY <1>3, <2>1, <3>1 DEF ReferenceInv
    <3>4. ~unlucky' /\ refs' # {} => mJobDisp'
      BY <2>1, <2>5 DEF ReferenceInv
    <3> QED
      BY <2>1, <3>2, <3>3, <3>4 DEF ReferenceInv
  <2>7. LocksInv'
    <3>1. unlucky \/ (mLock # t /\ mTaskLock # t)
      BY <1>1, NotHolding DEF Held, Sections
    <3> QED
      BY <1>1, <2>1, <2>2, <3>1, LocksKept DEF Effects
  <2>8. DrainInv'
    <3>1. Pending' = Pending /\ Done' = Done
      BY <2>1 DEF Pending, Done
    <3> QED
      BY <1>1, <2>1, <2>2, <3>1, DrainKept DEF Effects
  <2> QED
    BY <2>3, <2>4, <2>6, <2>7, <2>8
<1> QED
  BY <1>2, <1>3

LEMMA UseUnreadyStep ==
    ASSUME MainAssumption, MainLooperInv, NEW t \in DOMAIN calls, UseUnready(t)
    PROVE  MainLooperInv'
<1>1. unlucky' = TRUE
  BY DEF UseUnready, MainLooperInv, ReferenceInv, MainTypeOK
<1>2. MainTypeOK
  BY DEF MainLooperInv
<1> QED
  BY <1>1, <1>2, Begun, FailKept DEF UseUnready

LEMMA PostStep ==
    ASSUME MainAssumption, MainLooperInv, NEW t \in DOMAIN calls, Post(t)
    PROVE  MainLooperInv'
<1> USE DEF MainLooperInv
<1>1. /\ t \in Threads /\ fate = "running" /\ Top(t) \in {"user", "run"}
      /\ DOMAIN calls' \subseteq Threads /\ calls' \in [DOMAIN calls' -> Nat]
      /\ calls[t] \in Nat
  BY Begun DEF Post, Use
<1>2. Effects(t, "size") /\ Top(t)' = "size" /\ (InRun => InRun')
  BY <1>1, PushFacts DEF Post, MainCall, LoopCalls
<1>3. /\ NewId(t) \in Task /\ mTasks \in Seq(Task) /\ mTasks' \in Seq(Task)
      /\ {mTasks'[i] : i \in DOMAIN mTasks'} = {mTasks[i] : i \in DOMAIN mTasks} \cup {NewId(t)}
  <2>1. NewId(t) \in Task /\ mTasks \in Seq(Task) /\ mTasks' = Append(mTasks, NewId(t))
    BY <1>1 DEF Post, NewId, Task, MainTypeOK
  <2>2. /\ mTasks' \in Seq(Task) /\ Len(mTasks') = Len(mTasks) + 1
        /\ mTasks'[Len(mTasks) + 1] = NewId(t)
        /\ \A i \in 1..Len(mTasks) : mTasks'[i] = mTasks[i]
        /\ DOMAIN mTasks = 1..Len(mTasks) /\ DOMAIN mTasks' = 1..(Len(mTasks) + 1)
        /\ Len(mTasks) \in Nat
    BY <2>1
  <2>3. \A i \in DOMAIN mTasks' : i \in DOMAIN mTasks \/ i = Len(mTasks) + 1
    BY <2>2
  <2>4. DOMAIN mTasks \subseteq DOMAIN mTasks' /\ Len(mTasks) + 1 \in DOMAIN mTasks'
    BY <2>2
  <2> QED
    BY <2>1, <2>2, <2>3, <2>4
<1>4. early' \in {early, early \cup {NewId(t)}} /\ (mRequestExit => early' = early)
  BY DEF Post, NoteEarly
<1>5. MainTypeOK' /\ FailsOnlyByBadLuck'
  BY <1>1, <1>2, <1>3, <1>4 DEF Post, MainTypeOK, FailsOnlyByBadLuck, Effects
<1>6. CreationInv'
  BY <1>1, <1>2, CreationKept DEF Post
<1>7. ReferenceInv'
  BY <1>1, <1>2, ReferenceKept DEF Post, ReleaseCalls
<1>8. LocksInv'
  <2>1. unlucky \/ (mLock # t /\ mTaskLock # t)
    BY <1>1, NotHolding DEF Held, Sections
  <2> QED
    BY <1>1, <1>2, <2>1, LocksKept DEF Effects, Post
<1>9. DrainInv'
  <2>1. Pending' = Pending \cup ({NewId(t)}) /\ Done' = Done
    BY <1>3 DEF Post, Pending, Done
  <2> QED
    BY <1>1, <1>2, <1>4, <2>1, DrainKept DEF Post
<1> QED
  BY <1>5, <1>6, <1>7, <1>8, <1>9

LEMMA PostSizeStep ==
    ASSUME MainAssumption, MainLooperInv, NEW t \in Threads, PostSize(t)
    PROVE  MainLooperInv'
<1> USE DEF MainLooperInv
<1>1. Top(t) = "size"
  BY DEF PostSize, At
<1>2. Effects(t, "notify") \/ Effects(t, "size")
  BY <1>1, ProceedFacts, ReturnFacts DEF PostSize, MainCall, LoopCalls, Sections
<1>3. unlucky \/ (mLock # t /\ mTaskLock # t)
  BY <1>1, NotHolding DEF Held, Sections
<1>4. PICK call \in {"notify", "size"} : Effects(t, call)
  BY <1>2
<1> QED
  BY <1>1, <1>3, <1>4, PlainStep DEF PostSize, ReleaseCalls, MainTypeOK, Effects

LEMMA PostTimedStep ==
    ASSUME MainAssumption, MainLooperInv, NEW t \in DOMAIN calls, PostTimed(t)
    PROVE  MainLooperInv'
<1> USE DEF MainLooperInv
<1>1. /\ t \in Threads /\ Top(t) \in {"user", "run"}
      /\ DOMAIN calls' \subseteq Threads /\ calls' \in [DOMAIN calls' -> Nat]
  BY Begun DEF PostTimed, Use
<1>2. Effects(t, "insert") /\ Top(t)' = "insert" /\ (InRun => InRun')
  BY <1>1, PushFacts DEF PostTimed, MainCall, LoopCalls
<1>3. unlucky \/ (mLock # t /\ mTaskLock # t)
  BY <1>1, NotHolding DEF Held, Sections
<1> QED
  BY <1>1, <1>2, <1>3, PlainStep DEF PostTimed, ReleaseCalls, MainTypeOK

LEMMA InsertStep ==
    ASSUME MainAssumption, MainLooperInv, NEW t \in DOMAIN calls, Insert(t)
    PROVE  MainLooperInv'
<1> USE DEF MainLooperInv
<1> DEFINE id == <<t, calls[t] + 1>>
<1>1. /\ t \in Threads /\ Top(t) = "insert" /\ id \in Task
  BY DEF Insert, At, MainTypeOK, Task
<1>2. Effects(t, "notify") \/ Effects(t, "insert")
  BY <1>1, ProceedFacts, ReturnFacts DEF Insert, MainCall, LoopCalls, Sections
<1>3. PICK call \in {"notify", "insert"} : Effects(t, call)
  BY <1>2
<1>4. /\ early' \in {early, early \cup {id}} /\ (mRequestExit => early' = early)
      /\ timed' = timed \cup {id}
  BY DEF Insert, NoteEarly
<1> HIDE DEF id
<1>5. MainTypeOK' /\ FailsOnlyByBadLuck'
  BY <1>1, <1>3, <1>4 DEF Insert, MainTypeOK, FailsOnlyByBadLuck, Effects
<1>6. CreationInv'
  BY <1>1, <1>3, CreationKept DEF Insert
<1>7. ReferenceInv'
  BY <1>1, <1>3, ReferenceKept DEF Insert, ReleaseCalls
<1>8. LocksInv'
  <2>1. unlucky \/ mLock # t
    BY <1>1, NotHolding DEF Held, Sections
  <2> QED
    BY <1>1, <1>3, <2>1, MainAssumption, LocksKept DEF Effects, Insert
<1>9. DrainInv'
  <2>1. Pending' = Pending \cup {id} /\ Done' = Done
    BY <1>4 DEF Insert, Pending, Done
  <2>2. InRun => InRun'
    BY <1>1, <1>3 DEF Effects
  <2> QED
    BY <1>1, <1>3, <1>4, <2>1, <2>2, DrainKept DEF Insert
<1> QED
  BY <1>5, <1>6, <1>7, <1>8, <1>9

LEMMA TerminateStep ==
    ASSUME MainAssumption, MainLooperInv, NEW t \in DOMAIN calls, Terminate(t)
    PROVE  MainLooperInv'
<1> USE DEF MainLooperInv
<1>1. /\ t \in Threads /\ Top(t) \in {"user", "run"}
      /\ DOMAIN calls' \subseteq Threads /\ calls' \in [DOMAIN calls' -> Nat]
  BY Begun DEF Terminate, Use
<1>2. Effects(t, "terminate") /\ (InRun => InRun')
  BY <1>1, PushFacts DEF Terminate, MainCall, LoopCalls, Sections
<1>3. unlucky \/ (mLock # t /\ mTaskLock # t)
  BY <1>1, NotHolding DEF Held, Sections
<1> QED
  BY <1>1, <1>2, <1>3, PlainStep DEF Terminate, ReleaseCalls, MainTypeOK

(* SIGINT may push its handler on any call; that this is in a critical     *)
(* section, or after the loop, is the bad luck that unlucky records.       *)
LEMMA InterruptStep ==
    ASSUME MainAssumption, MainLooperInv, NEW t \in DOMAIN calls, Interrupt(t)
    PROVE  MainLooperInv'
<1> USE DEF MainLooperInv
<1>1. /\ t \in Threads
      /\ DOMAIN calls' \subseteq Threads /\ calls' \in [DOMAIN calls' -> Nat]
      /\ unlucky' = (unlucky \/ ~mJobDisp \/ t \in {mLock, mTaskLock} \/ lpMain = "gone")
  BY DEF Interrupt, MainTypeOK
<1>2. CASE lpMain = "gone"
  <2>1. /\ UNCHANGED <<looperVars, locks, tasks, flags, stack, calls, history>>
        /\ unlucky' = TRUE
    BY <1>1, <1>2 DEF Interrupt
  <2>2. MainTypeOK' /\ FailsOnlyByBadLuck'
    BY <2>1 DEF MainTypeOK, FailsOnlyByBadLuck
  <2>3. CreationInv' /\ LocksInv'
    BY <2>1 DEF CreationInv, LocksInv, Top, In
  <2>4. ReferenceInv'
    BY <2>1 DEF ReferenceInv, Releasing, In
  <2>5. DrainInv'
    BY <2>1 DEF DrainInv, Outermost, InRun, Bottom, In, Pending
  <2> QED
    BY <2>2, <2>3, <2>4, <2>5
<1>3. CASE lpMain # "gone"
  <2>1. /\ UNCHANGED <<looperVars, locks, tasks, flags, fate, history>>
        /\ Push(t, "handler")
    BY <1>3 DEF Interrupt
  <2>2. Effects(t, "handler") /\ (InRun => InRun')
    BY <1>1, <2>1, PushFacts DEF MainCall, LoopCalls, Sections
  <2>3. unlucky' \in BOOLEAN /\ (unlucky => unlucky') /\ (mJobDisp \/ unlucky')
    BY <1>1 DEF MainTypeOK
  <2>4. MainTypeOK' /\ FailsOnlyByBadLuck'
    BY <1>1, <2>1, <2>2, <2>3 DEF MainTypeOK, FailsOnlyByBadLuck, Effects
  <2>5. CreationInv'
    BY <1>1, <2>1, <2>2, <2>3, CreationKept
  <2>6. ReferenceInv'
    BY <1>1, <2>1, <2>2, <2>3, ReferenceKept DEF ReleaseCalls
  <2>7. LocksInv'
    BY <1>1, <2>1, <2>2, <2>3, LocksKept DEF Effects
  <2>8. DrainInv'
    <3>1. Pending' = Pending /\ Done' = Done
      BY <2>1 DEF Pending, Done
    <3> QED
      BY <1>1, <2>1, <2>2, <3>1, DrainKept
  <2> QED
    BY <2>4, <2>5, <2>6, <2>7, <2>8
<1> QED
  BY <1>2, <1>3

LEMMA HandlerStep ==
    ASSUME MainAssumption, MainLooperInv, NEW t \in Threads, HandlerTerminates(t)
    PROVE  MainLooperInv'
<1> USE DEF MainLooperInv
<1>1. /\ Top(t) = "handler" /\ fate = "running"
      /\ DOMAIN calls' \subseteq Threads /\ calls' \in [DOMAIN calls' -> Nat]
      /\ unlucky' = (unlucky \/ lpMain = "gone")
  BY DEF HandlerTerminates, At, MainTypeOK
<1>2. In(t, "handler")
  BY <1>1, TopIn DEF MainCall
<1>3. CASE ~mJobDisp
  <2>1. unlucky \/ lpMain = "gone"
    BY <1>2, <1>3 DEF ReferenceInv
  <2>2. unlucky' = TRUE
    BY <1>1, <2>1 DEF MainTypeOK
  <2> QED
    BY <1>1, <1>3, <2>2, FailKept DEF HandlerTerminates
<1>4. CASE mJobDisp
  <2>1. /\ UNCHANGED <<looperVars, locks, tasks, flags, fate, history>>
        /\ Proceed(t, "terminate")
    BY <1>4 DEF HandlerTerminates
  <2>2. Effects(t, "terminate")
    BY <1>1, <2>1, ProceedFacts DEF MainCall, LoopCalls, Sections
  <2>3. unlucky' \in BOOLEAN /\ (unlucky => unlucky')
    BY <1>1 DEF MainTypeOK
  <2>4. MainTypeOK' /\ FailsOnlyByBadLuck'
    BY <1>1, <2>1, <2>2, <2>3 DEF MainTypeOK, FailsOnlyByBadLuck, Effects
  <2>5. CreationInv'
    BY <1>1, <2>1, <2>2, <2>3, CreationKept
  <2>6. ReferenceInv'
    BY <1>1, <2>1, <2>2, <2>3, ReferenceKept DEF ReleaseCalls
  <2>7. LocksInv'
    <3>1. unlucky \/ (mLock # t /\ mTaskLock # t)
      BY <1>1, NotHolding DEF Held, Sections
    <3> QED
      BY <1>1, <2>1, <2>2, <2>3, <3>1, LocksKept DEF Effects
  <2>8. DrainInv'
    <3>1. Pending' = Pending /\ Done' = Done
      BY <2>1 DEF Pending, Done
    <3>2. InRun => InRun'
      BY <1>1, <2>2 DEF Effects
    <3> QED
      BY <1>1, <2>1, <2>2, <3>1, <3>2, DrainKept
  <2> QED
    BY <2>4, <2>5, <2>6, <2>7, <2>8
<1> QED
  BY <1>3, <1>4

LEMMA ReleaseStep ==
    ASSUME MainAssumption, MainLooperInv, NEW t \in DOMAIN calls, Release(t)
    PROVE  MainLooperInv'
<1> USE DEF MainLooperInv
<1>1. /\ t \in Threads /\ Top(t) = "user" /\ t \in refs /\ refs' = refs \ {t} /\ mJobDisp
      /\ UNCHANGED <<lpMain, mJobDisp, locks, tasks, flags, calls, fate, history, unlucky>>
      /\ stack[t] = <<>>
  BY TopFacts DEF Release, MainTypeOK
<1>2. ~Releasing
  BY <1>1 DEF ReferenceInv
<1>3. CASE refs = {t}
  <2>1. Effects(t, "exit") /\ (InRun => InRun')
    BY <1>1, <1>3, PushFacts DEF Release, MainCall, LoopCalls, Sections
  <2>2. MainTypeOK' /\ FailsOnlyByBadLuck'
    BY <1>1, <2>1 DEF MainTypeOK, FailsOnlyByBadLuck, Effects
  <2>3. CreationInv'
    BY <1>1, <2>1, CreationKept
  <2>4. ReferenceInv'
    BY <1>1, <1>3 DEF ReferenceInv
  <2>5. LocksInv'
    <3>1. unlucky \/ (mLock # t /\ mTaskLock # t)
      BY <1>1, NotHolding DEF Held, Sections
    <3> QED
      BY <1>1, <2>1, <3>1, LocksKept DEF Effects
  <2>6. DrainInv'
    <3>1. Pending' = Pending /\ Done' = Done
      BY <1>1 DEF Pending, Done
    <3> QED
      BY <1>1, <2>1, <3>1, DrainKept
  <2> QED
    BY <2>2, <2>3, <2>4, <2>5, <2>6
<1>4. CASE refs # {t}
  <2>1. stack' = stack
    BY <1>4 DEF Release
  <2>2. MainTypeOK' /\ FailsOnlyByBadLuck'
    BY <1>1, <2>1 DEF MainTypeOK, FailsOnlyByBadLuck
  <2>3. CreationInv' /\ LocksInv'
    BY <1>1, <2>1 DEF CreationInv, LocksInv, Top, In
  <2>4. ReferenceInv'
    BY <1>1, <1>2, <2>1 DEF ReferenceInv, Releasing, In
  <2>5. DrainInv'
    BY <1>1, <2>1 DEF DrainInv, Outermost, InRun, Bottom, In, Pending
  <2> QED
    BY <2>2, <2>3, <2>4, <2>5
<1> QED
  BY <1>3, <1>4

LEMMA LoopStep ==
    ASSUME MainAssumption, MainLooperInv, Loop
    PROVE  MainLooperInv'
<1> USE DEF MainLooperInv
<1>1. Top(main) = "user" /\ main \in Threads /\ stack[main] = <<>>
  BY MainAssumption, TopFacts DEF Loop
<1>2. Effects(main, "lock") /\ (InRun => InRun')
  BY <1>1, PushFacts DEF Loop, MainCall, LoopCalls
<1>3. unlucky \/ (mLock # main /\ mTaskLock # main)
  BY <1>1, NotHolding DEF Held, Sections
<1> QED
  BY <1>1, <1>2, <1>3, PlainStep DEF Loop, ReleaseCalls, MainTypeOK

-----------------------------------------------------------------------------
(* Critical sections. *)
LEMMA LockStep ==
    ASSUME MainAssumption, MainLooperInv, NEW t \in Threads, Lock(t)
    PROVE  MainLooperInv'
<1> USE DEF MainLooperInv
<1>1. /\ Top(t) \in DOMAIN Sections /\ fate = "running" /\ Top(t) # "user"
      /\ UNCHANGED <<calls, unlucky>>
      /\ DOMAIN calls' \subseteq Threads /\ calls' \in [DOMAIN calls' -> Nat]
  BY DEF Lock, At, Sections, MainTypeOK
<1>2. Top(t) \notin Held
  BY <1>1 DEF Held, Sections
<1>3. CASE mLock = t
  <2>1. unlucky' = TRUE
    BY <1>1, <1>2, <1>3, NotHolding DEF MainTypeOK
  <2> QED
    BY <1>1, <1>3, <2>1, FailKept DEF Lock
<1>4. CASE mLock # t
  <2> DEFINE call == Sections[Top(t)]
  <2>1. /\ mLock' = t /\ Proceed(t, call)
        /\ UNCHANGED <<looperVars, mTaskLock, tasks, flags, fate, history>>
    BY <1>4 DEF Lock
  <2>2. /\ call \in MainCall /\ call \in Held
        /\ call \in LoopCalls => Top(t) \in LoopCalls
        /\ call \notin {"create", "assign", "return", "handler", "leave"}
        /\ call = "leaving" => Top(t) = "leave"
        /\ call \in ReleaseCalls => Top(t) = "exit"
        /\ Top(t) \in MainCall /\ Top(t) \notin {"create", "assign", "run", "insert"}
    BY <1>1 DEF MainCall, Held, LoopCalls, Sections, ReleaseCalls
  <2> HIDE DEF call
  <2>3. Effects(t, call) /\ Top(t)' = call
    BY <1>1, <2>1, <2>2, ProceedFacts
  <2>4. In(t, Top(t))
    BY <2>2, TopIn
  <2>5. /\ call = "leaving" => t # main \/ In(main, "leave")
        /\ call \in ReleaseCalls => Releasing
    BY <2>2, <2>4, ReleasingIn DEF ReleaseCalls
  <2>6. InRun => InRun'
    BY <2>2, <2>3 DEF Effects
  <2>7. unlucky \/ mTaskLock # t
    BY <2>2, NotHolding
  <2> QED
    BY <1>1, <2>1, <2>2, <2>3, <2>5, <2>6, <2>7, PlainStep DEF MainTypeOK
<1> QED
  BY <1>3, <1>4

LEMMA NotifyStep ==
    ASSUME MainAssumption, MainLooperInv, NEW t \in Threads, Notify(t)
    PROVE  MainLooperInv'
<1> USE DEF MainLooperInv
<1>1. Top(t) = "signal"
  BY DEF Notify, At
<1>2. Effects(t, "signal")
  BY <1>1, ReturnFacts DEF Notify
<1>3. unlucky \/ mTaskLock # t
  BY <1>1, NotHolding
<1>4. InRun => InRun'
  BY <1>1, <1>2 DEF Effects
<1> QED
  BY <1>1, <1>2, <1>3, <1>4, MainAssumption, PlainStep
  DEF Notify, Unlock, ReleaseCalls, MainTypeOK

LEMMA TerminateHereStep ==
    ASSUME MainAssumption, MainLooperInv, TerminateHere
    PROVE  MainLooperInv'
<1> USE DEF MainLooperInv
<1>1. Top(main) = "terminating" /\ main \in Threads
  BY MainAssumption DEF TerminateHere, At
<1>2. Effects(main, "flush") /\ Top(main)' = "flush"
  BY <1>1, ProceedFacts DEF TerminateHere, MainCall, LoopCalls
<1>3. unlucky \/ mTaskLock # main
  BY <1>1, NotHolding
<1>4. InRun => InRun'
  BY <1>1, <1>2 DEF Effects
<1>5. "flush" \in Held
  BY DEF Held
<1> QED
  BY <1>1, <1>2, <1>3, <1>4, <1>5, PlainStep
  DEF TerminateHere, ReleaseCalls, MainTypeOK

LEMMA FlushStep ==
    ASSUME MainAssumption, MainLooperInv, Flush
    PROVE  MainLooperInv'
<1> USE DEF MainLooperInv
<1>1. /\ Top(main) = "flush" /\ main \in Threads /\ UNCHANGED <<calls, unlucky>>
      /\ DOMAIN calls' \subseteq Threads /\ calls' \in [DOMAIN calls' -> Nat]
  BY MainAssumption DEF Flush, At, MainTypeOK
<1>2. unlucky \/ mTaskLock # main
  BY <1>1, NotHolding
<1>3. CASE mTaskLock = main
  <2>1. unlucky' = TRUE
    BY <1>1, <1>2, <1>3 DEF MainTypeOK
  <2> QED
    BY <1>1, <1>3, <2>1, FailKept DEF Flush
<1>4. CASE mTaskLock # main
  <2>1. /\ flushed' = flushed \cup {mTasks[i] : i \in DOMAIN mTasks} \cup timed \cup due
        /\ mTasks' = <<>> /\ timed' = {} /\ due' = {}
        /\ mLock' = NoOne /\ Return(main)
        /\ UNCHANGED <<looperVars, mTaskLock, current, flags, fate, early, ran>>
    BY <1>4 DEF Flush, Unlock
  <2>2. Effects(main, "flush")
    BY <1>1, <2>1, ReturnFacts
  <2>3. MainTypeOK' /\ FailsOnlyByBadLuck'
    BY <1>1, <2>1, <2>2 DEF MainTypeOK, FailsOnlyByBadLuck, Effects
  <2>4. CreationInv'
    BY <1>1, <2>1, <2>2, CreationKept
  <2>5. ReferenceInv'
    BY <1>1, <2>1, <2>2, ReferenceKept DEF ReleaseCalls
  <2>6. LocksInv'
    BY <1>1, <1>4, <2>1, <2>2, MainAssumption, LocksKept DEF Effects
  <2>7. DrainInv'
    <3>1. Pending \subseteq Pending' \cup Done' /\ Done \subseteq Done'
      BY <2>1 DEF Pending, Done
    <3>2. InRun => InRun'
      BY <1>1, <2>2 DEF Effects
    <3> QED
      BY <1>1, <2>1, <2>2, <3>1, <3>2, DrainKept
  <2> QED
    BY <2>3, <2>4, <2>5, <2>6, <2>7
<1> QED
  BY <1>3, <1>4

LEMMA AskFacts ==
    ASSUME MainTypeOK, MainAssumption, NEW t \in Threads, NEW call \in MainCall,
           AskAndWait(t, call), Top(t) \notin {"user", "run"}, call \notin LoopCalls
    PROVE  /\ mRequestExit' = TRUE /\ mLock' = NoOne
           /\ Effects(t, call) \/ Effects(t, Top(t))
           /\ InRun => InRun'
<1>1. Effects(t, call) \/ Effects(t, Top(t))
  BY ProceedFacts, ReturnFacts DEF AskAndWait
<1> QED
  BY <1>1 DEF AskAndWait, Unlock, Effects

LEMMA TerminateAwayStep ==
    ASSUME MainAssumption, MainLooperInv, NEW t \in Threads, TerminateAway(t)
    PROVE  MainLooperInv'
<1> USE DEF MainLooperInv
<1>1. Top(t) = "terminating"
  BY DEF TerminateAway, At
<1>2. /\ mRequestExit' = TRUE /\ mLock' = NoOne
      /\ Effects(t, "await") \/ Effects(t, "terminating")
      /\ InRun => InRun'
  BY <1>1, AskFacts DEF TerminateAway, MainCall, LoopCalls
<1>3. PICK call \in {"await", "terminating"} : Effects(t, call)
  BY <1>2
<1>4. unlucky \/ mTaskLock # t
  BY <1>1, NotHolding
<1> QED
  BY <1>1, <1>2, <1>3, <1>4, MainAssumption, PlainStep
  DEF TerminateAway, ReleaseCalls, MainTypeOK

LEMMA CheckAgainStep ==
    ASSUME MainAssumption, MainLooperInv, NEW t \in Threads, CheckAgain(t)
    PROVE  MainLooperInv'
<1> USE DEF MainLooperInv
<1>1. Top(t) = "await"
  BY DEF CheckAgain, At
<1>2. Effects(t, "await")
  <2>1. CASE Return(t)
    BY <1>1, <2>1, ReturnFacts
  <2>2. CASE stack' = stack
    BY <2>2 DEF Effects, MainTypeOK, Outermost, InRun, Bottom, In
  <2> QED
    BY <2>1, <2>2 DEF CheckAgain
<1>3. unlucky \/ (mLock # t /\ mTaskLock # t)
  BY <1>1, NotHolding DEF Held, Sections
<1>4. InRun => InRun'
  BY <1>1, <1>2 DEF Effects
<1> QED
  BY <1>1, <1>2, <1>3, <1>4, PlainStep DEF CheckAgain, ReleaseCalls, MainTypeOK

LEMMA RequestExitStep ==
    ASSUME MainAssumption, MainLooperInv, NEW t \in Threads, RequestExit(t)
    PROVE  MainLooperInv'
<1> USE DEF MainLooperInv
<1>1. /\ Top(t) = "exiting"
      /\ UNCHANGED <<lpMain, refs, mTaskLock, tasks, mTerminated, calls, fate, history, unlucky>>
  BY DEF RequestExit, At
<1>2. Releasing
  BY <1>1, TopIn, ReleasingIn DEF ReleaseCalls, MainCall, Sections
<1>3. unlucky \/ mTaskLock # t
  BY <1>1, NotHolding
<1>4. CASE mTerminated
  <2>1. /\ mJobDisp' = FALSE /\ mLock' = NoOne /\ Return(t) /\ mRequestExit' = mRequestExit
    BY <1>4 DEF RequestExit, Unlock
  <2>2. Effects(t, "exiting")
    BY <1>1, <2>1, ReturnFacts
  <2>3. lpMain = "gone" /\ refs = {}
    BY <1>2, <1>4 DEF CreationInv, ReferenceInv
  <2>4. MainTypeOK' /\ FailsOnlyByBadLuck'
    BY <1>1, <2>1, <2>2 DEF MainTypeOK, FailsOnlyByBadLuck, Effects
  <2>5. CreationInv' /\ ReferenceInv'
    BY <1>1, <2>1, <2>3 DEF CreationInv, ReferenceInv
  <2>6. LocksInv'
    BY <1>1, <1>3, <2>1, <2>2, MainAssumption, LocksKept DEF Effects
  <2>7. DrainInv'
    <3>1. Pending' = Pending /\ Done' = Done
      BY <1>1 DEF Pending, Done
    <3>2. InRun => InRun'
      BY <1>1, <2>2 DEF Effects
    <3> QED
      BY <1>1, <2>1, <2>2, <3>1, <3>2, DrainKept
  <2> QED
    BY <2>4, <2>5, <2>6, <2>7
<1>5. CASE ~mTerminated
  <2>1. AskAndWait(t, "await_exit") /\ mJobDisp' = mJobDisp
    BY <1>5 DEF RequestExit
  <2>2. /\ mRequestExit' = TRUE /\ mLock' = NoOne
        /\ Effects(t, "await_exit") \/ Effects(t, "exiting")
        /\ InRun => InRun'
    BY <1>1, <2>1, AskFacts DEF MainCall, LoopCalls
  <2>3. PICK call \in {"await_exit", "exiting"} : Effects(t, call)
    BY <2>2
  <2> QED
    BY <1>1, <1>2, <1>3, <2>1, <2>2, <2>3, MainAssumption, PlainStep
    DEF ReleaseCalls, MainTypeOK
<1> QED
  BY <1>4, <1>5

-----------------------------------------------------------------------------
(* The loop.  A call of the loop on top is the only one of the main thread. *)
LEMMA LoopOnTop ==
    ASSUME MainTypeOK, MainAssumption, DrainInv, Top(main) \in LoopCalls
    PROVE  /\ InRun <=> Top(main) = "run"
           /\ \A c : In(main, c) => c = Top(main)
<1>1. "user" \notin LoopCalls
  BY DEF LoopCalls
<1>2. /\ stack[main] # <<>> /\ Top(main) = stack[main][1] /\ 1 \in DOMAIN stack[main]
      /\ stack[main] \in Seq(MainCall)
  BY <1>1, MainAssumption, TopFacts DEF MainTypeOK
<1>3. Len(stack[main]) = 1
  BY <1>2 DEF DrainInv, Outermost
<1> QED
  BY <1>2, <1>3 DEF InRun, Bottom, In

(* A step of the loop at the end of a pop. *)
LEMMA LoopMoves ==
    ASSUME MainAssumption, MainLooperInv, NEW from \in LoopCalls, NEW call \in LoopCalls,
           At(main, from), Proceed(main, call),
           UNCHANGED <<looperVars, mTaskLock, flags, calls, fate, unlucky, early>>,
           mLock' \in {mLock, NoOne}, from = "pop" \/ mLock' = mLock,
           call \in {"pop", "leaving"} => mLock' = NoOne
    PROVE  /\ Effects(main, call) /\ Top(main)' = call /\ Top(main) = from
           /\ CreationInv' /\ ReferenceInv' /\ FailsOnlyByBadLuck'
           /\ from \notin Held \/ mLock' = NoOne => LocksInv'
<1> USE DEF MainLooperInv
<1>1. Top(main) = from /\ main \in Threads /\ from # "user" /\ from \notin Creating
  BY MainAssumption DEF At, LoopCalls
<1>2. call \in MainCall /\ call \notin {"create", "assign", "return", "handler"} /\ call \notin ReleaseCalls
  BY DEF MainCall, LoopCalls, ReleaseCalls
<1>3. Effects(main, call) /\ Top(main)' = call
  BY <1>1, <1>2, ProceedFacts
<1>4. CreationInv'
  BY <1>1, <1>2, <1>3, CreationKept
<1>5. ReferenceInv'
  BY <1>1, <1>2, <1>3, ReferenceKept
<1>6. FailsOnlyByBadLuck'
  BY DEF FailsOnlyByBadLuck
<1>7. ASSUME from \notin Held \/ mLock' = NoOne PROVE LocksInv'
  <2>1. unlucky \/ mTaskLock # main
    <3>1. from # "insert"
      BY DEF LoopCalls
    <3> QED
      BY <1>1, <3>1, NotHolding
  <2>2. unlucky \/ mLock' # main
    BY <1>1, <1>7, MainAssumption, NotHolding
  <2> QED
    BY <1>1, <1>3, <2>1, <2>2, LocksKept DEF Effects
<1> QED
  BY <1>1, <1>3, <1>4, <1>5, <1>6, <1>7

LEMMA PopStep ==
    ASSUME MainAssumption, MainLooperInv, PopTimed \/ PopImmediate
    PROVE  MainLooperInv'
<1> USE DEF MainLooperInv
<1>1. /\ At(main, "pop") /\ Proceed(main, "run") /\ mLock' = NoOne
      /\ UNCHANGED <<looperVars, mTaskLock, timed, flags, calls, fate, unlucky, history>>
  BY DEF PopTimed, PopImmediate, Popping, Unlock
<1>2. /\ Effects(main, "run") /\ Top(main)' = "run" /\ Top(main) = "pop"
      /\ CreationInv' /\ ReferenceInv' /\ FailsOnlyByBadLuck' /\ LocksInv'
  BY <1>1, LoopMoves DEF LoopCalls
<1>3. current = NoOne /\ \A c : In(main, c) => c = "pop"
  BY <1>2, LoopOnTop DEF LoopCalls, DrainInv
<1>4. /\ mTasks' \in Seq(Task) /\ due' \subseteq due /\ current' \in Task
      /\ Pending \subseteq Pending'
  <2>1. CASE PopTimed
    <3>1. /\ mTasks' = mTasks /\ timed' = timed /\ current' \in due
          /\ due' = due \ {current'}
      BY <2>1 DEF PopTimed
    <3>2. current' \in Task /\ current' # NoOne
      BY <3>1, NoOneAssumption DEF MainTypeOK
    <3> QED
      BY <1>3, <3>1, <3>2 DEF MainTypeOK, Pending
  <2>2. CASE PopImmediate
    <3>1. /\ mTasks \in Seq(Task) /\ mTasks # <<>>
          /\ current' = Head(mTasks) /\ mTasks' = Tail(mTasks)
          /\ timed' = timed /\ due' = due
      BY <2>2 DEF PopImmediate, MainTypeOK
    <3>2. /\ mTasks' \in Seq(Task) /\ current' = mTasks[1] /\ current' \in Task
          /\ Len(mTasks') = Len(mTasks) - 1
          /\ \A i \in 1..Len(mTasks') : mTasks'[i] = mTasks[i + 1]
      BY <3>1
    <3>3. ASSUME NEW i \in DOMAIN mTasks
          PROVE  mTasks[i] = current' \/ \E j \in DOMAIN mTasks' : mTasks'[j] = mTasks[i]
      <4>1. CASE i = 1
        BY <3>2, <4>1
      <4>2. CASE i # 1
        <5>1. i - 1 \in 1..Len(mTasks') /\ (i - 1) + 1 = i
          BY <3>1, <3>2, <4>2
        <5>2. i - 1 \in DOMAIN mTasks' /\ mTasks'[i - 1] = mTasks[i]
          BY <3>2, <5>1
        <5> QED
          BY <5>2
      <4> QED
        BY <4>1, <4>2
    <3>4. current' # NoOne
      BY <3>2, NoOneAssumption
    <3> QED
      BY <1>3, <3>1, <3>2, <3>3, <3>4 DEF Pending
  <2> QED
    BY <2>1, <2>2
<1>5. MainTypeOK'
  BY <1>1, <1>2, <1>4 DEF MainTypeOK, Effects
<1>6. DrainInv'
  <2>1. Outermost' /\ ~In(main, "leave") /\ ~In(main, "leaving")
    BY <1>2, <1>3 DEF DrainInv, Effects
  <2>2. ~In(main, "leave")' /\ ~In(main, "leaving")'
    BY <1>2, <2>1 DEF Effects
  <2>3. InRun'
    <3>1. /\ stack'[main] = <<"run">> \o Tail(stack[main]) /\ Len(stack[main]) = 1
          /\ stack[main] \in Seq(MainCall) /\ stack[main] # <<>>
      <4>1. /\ stack[main] # <<>> /\ Top(main) = stack[main][1] /\ 1 \in DOMAIN stack[main]
        BY <1>2, MainAssumption, TopFacts
      <4>2. Len(stack[main]) = 1
        BY <1>2, <4>1 DEF DrainInv, Outermost, LoopCalls
      <4> QED
        BY <1>1, <4>1, <4>2, MainAssumption DEF Proceed, MainTypeOK
    <3>2. "run" \in MainCall
      BY DEF MainCall, LoopCalls
    <3>3. stack'[main] # <<>> /\ Len(stack'[main]) = 1 /\ stack'[main][1] = "run"
      BY <3>1, <3>2, ProceedSeq
    <3> QED
      BY <3>3 DEF InRun, Bottom
  <2>4. early' \subseteq ran' \cup flushed' \cup Pending'
    BY <1>1, <1>4 DEF DrainInv
  <2> QED
    BY <1>1, <2>1, <2>2, <2>3, <2>4 DEF DrainInv
<1> QED
  BY <1>2, <1>5, <1>6

LEMMA SleepStep ==
    ASSUME MainAssumption, MainLooperInv, SleepUntilDue \/ SleepIdle
    PROVE  MainLooperInv'
<1> USE DEF MainLooperInv
<1>1. PICK call \in {"dozing", "asleep"} : Popping /\ Sleep(call)
  BY DEF SleepUntilDue, SleepIdle
<1>2. /\ At(main, "pop") /\ Proceed(main, call) /\ mLock' = NoOne
      /\ UNCHANGED <<looperVars, mTaskLock, tasks, flags, calls, fate, unlucky, history>>
  BY <1>1 DEF Popping, Sleep, Unlock
<1>3. /\ Effects(main, call) /\ Top(main)' = call /\ Top(main) = "pop"
      /\ CreationInv' /\ ReferenceInv' /\ FailsOnlyByBadLuck' /\ LocksInv'
  BY <1>1, <1>2, LoopMoves DEF LoopCalls
<1>4. MainTypeOK'
  BY <1>2, <1>3 DEF MainTypeOK, Effects
<1>5. DrainInv'
  <2>1. Pending' = Pending /\ Done' = Done
    BY <1>2 DEF Pending, Done
  <2>2. InRun => InRun'
    BY <1>3 DEF Effects
  <2> QED
    BY <1>1, <1>2, <1>3, <2>1, <2>2, MainAssumption, DrainKept
<1> QED
  BY <1>3, <1>4, <1>5

(* Nothing is pending when the loop is left, and nothing was lost before.   *)
LEMMA LeaveLoopStep ==
    ASSUME MainAssumption, MainLooperInv, LeaveLoop
    PROVE  MainLooperInv'
<1> USE DEF MainLooperInv
<1>1. /\ At(main, "pop") /\ Proceed(main, "leave") /\ mLock' = NoOne
      /\ UNCHANGED <<looperVars, mTaskLock, tasks, flags, calls, fate, unlucky, history>>
      /\ due = {} /\ mTasks = <<>> /\ timed = {} /\ mRequestExit
  BY DEF LeaveLoop, Popping, Unlock, NoMoreJobs, Nothing
<1>2. /\ Effects(main, "leave") /\ Top(main)' = "leave" /\ Top(main) = "pop"
      /\ CreationInv' /\ ReferenceInv' /\ FailsOnlyByBadLuck' /\ LocksInv'
  BY <1>1, LoopMoves DEF LoopCalls
<1>3. MainTypeOK'
  BY <1>1, <1>2 DEF MainTypeOK, Effects
<1>4. current = NoOne
  BY <1>2, LoopOnTop DEF LoopCalls, DrainInv
<1>5. Pending = {}
  BY <1>1, <1>4 DEF Pending
<1>6. DrainInv'
  BY <1>1, <1>2, <1>4, <1>5 DEF DrainInv, Effects
<1> QED
  BY <1>2, <1>3, <1>6

LEMMA LeaveStep ==
    ASSUME MainAssumption, MainLooperInv, Leave
    PROVE  MainLooperInv'
<1> USE DEF MainLooperInv
<1>1. /\ Top(main) = "leaving" /\ main \in Threads /\ Return(main)
      /\ mTerminated' = TRUE /\ lpMain' = "gone" /\ mLock' = NoOne
      /\ UNCHANGED <<mJobDisp, refs, mTaskLock, tasks, mRequestExit, calls, fate, history,
                     unlucky>>
  BY MainAssumption DEF Leave, At, Unlock
<1>2. Effects(main, "leaving")
  BY <1>1, ReturnFacts
<1>3. MainTypeOK' /\ FailsOnlyByBadLuck'
  BY <1>1, <1>2 DEF MainTypeOK, FailsOnlyByBadLuck, Effects
<1>4. CreationInv'
  BY <1>1 DEF CreationInv
<1>5. ReferenceInv'
  BY <1>1, <1>2, ReferenceKept DEF ReleaseCalls
<1>6. LocksInv'
  <2>1. unlucky \/ mTaskLock # main
    BY <1>1, NotHolding
  <2> QED
    BY <1>1, <1>2, <2>1, MainAssumption, LocksKept DEF Effects
<1>7. DrainInv'
  <2>1. In(main, "leaving")
    BY <1>1, TopIn DEF MainCall, LoopCalls
  <2>2. current = NoOne
    BY <1>1, LoopOnTop DEF LoopCalls, DrainInv
  <2> QED
    BY <1>1, <1>2, <2>1, <2>2 DEF DrainInv, Effects, Pending
<1> QED
  BY <1>3, <1>4, <1>5, <1>6, <1>7

LEMMA RunTaskStep ==
    ASSUME MainAssumption, MainLooperInv, RunTask
    PROVE  MainLooperInv'
<1> USE DEF MainLooperInv
<1>1. /\ At(main, "run") /\ Proceed(main, "lock")
      /\ ran' = ran \cup {current} /\ current' = NoOne
      /\ UNCHANGED <<looperVars, locks, mTasks, timed, due, flags, calls, fate, unlucky,
                     early, flushed>>
  BY DEF RunTask
<1>2. "run" \notin Held
  BY DEF Held, Sections
<1>3. /\ Effects(main, "lock") /\ Top(main) = "run"
      /\ CreationInv' /\ ReferenceInv' /\ FailsOnlyByBadLuck' /\ LocksInv'
  BY <1>1, <1>2, LoopMoves DEF LoopCalls
<1>4. MainTypeOK'
  BY <1>1, <1>3 DEF MainTypeOK, Effects
<1>5. DrainInv'
  <2>1. Pending \subseteq Pending' \cup Done' /\ Done \subseteq Done'
    BY <1>1 DEF Pending, Done
  <2> QED
    BY <1>1, <1>3, <2>1, MainAssumption, DrainKept
<1> QED
  BY <1>3, <1>4, <1>5

-----------------------------------------------------------------------------
(* The environment. *)
LEMMA EnvironmentStep ==
    ASSUME MainLooperInv, Elapse \/ \E w \in waiters : Wake(w)
    PROVE  MainLooperInv'
<1> USE DEF MainLooperInv
<1>1. /\ UNCHANGED <<looperVars, locks, mTasks, current, flags, stack, calls, fate, unlucky,
                     history>>
      /\ timed' \cup due' = timed \cup due
  BY DEF Elapse, Wake
<1>2. MainTypeOK' /\ FailsOnlyByBadLuck'
  BY <1>1 DEF MainTypeOK, FailsOnlyByBadLuck
<1>3. CreationInv' /\ LocksInv'
  BY <1>1 DEF CreationInv, LocksInv, Top, In
<1>4. ReferenceInv'
  BY <1>1 DEF ReferenceInv, Releasing, In
<1>5. DrainInv'
  <2>1. Pending' = Pending
    BY <1>1 DEF Pending
  <2> QED
    BY <1>1, <2>1 DEF DrainInv, Outermost, InRun, Bottom, In
<1> QED
  BY <1>2, <1>3, <1>4, <1>5

LEMMA StutterStep ==
    ASSUME MainLooperInv, UNCHANGED mainVars
    PROVE  MainLooperInv'
  BY DEF mainVars, MainLooperInv, MainTypeOK, FailsOnlyByBadLuck, CreationInv, LocksInv,
         ReferenceInv, Releasing, DrainInv, Outermost, InRun, Bottom, In, Top, Pending

LEMMA MainInitial ==
    ASSUME MainAssumption, BudgetsAssumption, MainInit
    PROVE  MainLooperInv
<1>1. \A t \in Threads : stack[t] = <<>>
  BY DEF MainInit
<1>2. \A t \in Threads : \A c : ~In(t, c)
  BY <1>1 DEF In
<1>3. ~Releasing
  BY <1>2, ReleasingIn
<1>4. MainTypeOK
  <2>1. stack \in [Threads -> Seq(MainCall)]
    BY DEF MainInit
  <2>2. DOMAIN calls \subseteq Threads /\ calls \in [DOMAIN calls -> Nat]
    BY BudgetsAssumption DEF MainInit
  <2>3. /\ lpMain \in {"none", "looper", "gone"} /\ mJobDisp \in BOOLEAN
        /\ refs \subseteq Threads
        /\ mLock \in Threads \cup {NoOne} /\ mTaskLock \in Threads \cup {NoOne}
        /\ timed \subseteq Task /\ due \subseteq Task /\ early \subseteq Task
        /\ current \in Task \cup {NoOne}
        /\ mRequestExit \in BOOLEAN /\ mTerminated \in BOOLEAN /\ unlucky \in BOOLEAN
    BY DEF MainInit
  <2>4. mTasks \in Seq(Task)
    BY DEF MainInit
  <2> QED
    BY <2>1, <2>2, <2>3, <2>4 DEF MainTypeOK
<1>5. FailsOnlyByBadLuck /\ CreationInv
  BY <1>2, MainAssumption DEF MainInit, FailsOnlyByBadLuck, CreationInv
<1>6. ReferenceInv /\ LocksInv
  BY <1>2, <1>3 DEF MainInit, ReferenceInv, LocksInv
<1>7. DrainInv
  BY <1>1, <1>2, MainAssumption DEF MainInit, DrainInv, Outermost, InRun
<1> QED
  BY <1>4, <1>5, <1>6, <1>7 DEF MainLooperInv

LEMMA MainLooperStep ==
    ASSUME MainAssumption, MainLooperInv, [MainNext]_mainVars
    PROVE  MainLooperInv'
<1>1. ASSUME NEW t \in DOMAIN calls, MakeCall(t) PROVE MainLooperInv'
  BY <1>1, MainStep, UseUnreadyStep, PostStep, PostTimedStep, TerminateStep, ReleaseStep
  DEF MakeCall
<1>2. ASSUME NEW t \in DOMAIN calls, GoOn(t) PROVE MainLooperInv'
  <2>1. t \in Threads
    BY DEF MainLooperInv, MainTypeOK
  <2> QED
    BY <1>2, <2>1, ReturnMainStep, PostSizeStep, HandlerStep, InsertStep, LockStep, NotifyStep,
       TerminateAwayStep, CheckAgainStep, RequestExitStep
    DEF GoOn
<1>3. CASE MainThread
  <2>1. Timeout => \E w \in waiters : Wake(w)
    BY DEF Timeout
  <2> QED
    BY <1>3, <2>1, InstallHandlerStep, AssignDispatcherStep, TerminateHereStep, FlushStep, PopStep, SleepStep,
       LeaveLoopStep, LeaveStep, RunTaskStep, EnvironmentStep
    DEF MainThread
<1>4. CASE Elapse \/ WakeForNothing
  BY <1>4, EnvironmentStep DEF WakeForNothing
<1> QED
  BY <1>1, <1>2, <1>3, <1>4, InterruptStep, LoopStep, StutterStep DEF MainNext

(* The inductive invariant of the main looper holds in every reachable      *)
(* state, whatever its threads and jobs do, and whenever SIGINT comes once  *)
(* its handler is installed, before the looper is complete included.       *)
THEOREM MainLooperInvariance == MainSpec => []MainLooperInv
<1>1. MainInit => MainLooperInv
  BY MainInitial, MainAssumption, BudgetsAssumption
<1>2. MainLooperInv /\ [MainNext]_mainVars => MainLooperInv'
  BY MainLooperStep, MainAssumption
<1> QED
  BY <1>1, <1>2, PTL DEF MainSpec

(* Nothing fails in the main looper but by a signal or a call of Main() at  *)
(* a wrong time, and a loop that has ended has run, or terminate() dropped, *)
(* every task posted before the exit was asked for.                         *)
THEOREM MainLooperSafe == MainSpec => []MainLooperIsSafe
<1>1. MainLooperInv => MainLooperIsSafe
  BY DEF MainLooperInv, MainLooperIsSafe, LoopDrains, DrainInv
<1> QED
  BY <1>1, MainLooperInvariance, PTL
=============================================================================
