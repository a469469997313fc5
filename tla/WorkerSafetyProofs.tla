------------------------- MODULE WorkerSafetyProofs -------------------------
(***************************************************************************)
(* The safety properties of Worker, for every orderly use of it, by the    *)
(* inductive invariant IInv of WorkerInvariant.                            *)
(***************************************************************************)
EXTENDS WorkerProofs, WorkerInvariant

(***************************************************************************)
(* A call writes one beep at most                                          *)
(***************************************************************************)
\* What a step may do to the callers that owe a beep, to the pipe and to the
\* number of calls: nothing that matters, let caller c pay, or let it begin a call.
Owed(c) ==
  /\ \A d \in Callers \ {c} : Owes(d)' = Owes(d)
  /\ \/ (Owes(c)' => Owes(c)) /\ beeps' <= beeps /\ calls' = calls
     \/ Owes(c) /\ ~Owes(c)' /\ beeps' <= beeps + 1 /\ calls' = calls
     \/ ~Owes(c) /\ Owes(c)' /\ beeps' <= beeps /\ calls' = calls + 1
     \/ ~Owes(c)' /\ beeps' <= beeps + 1 /\ calls' = calls + 1

\* So the beeps written and owed do not outnumber the calls.
LEMMA OwedIsCalled ==
  ASSUME TypeOK, TypeOK', BeepsAreCalled, NEW c \in Callers, Owed(c)
  PROVE  BeepsAreCalled'
<1> DEFINE After == {d \in Callers : Owes(d)'}
<1>1. IsFiniteSet(Owing) /\ IsFiniteSet(After) /\ Owing' = After
  BY CallersAreFinite, FS_Subset DEF Owing
<1>2. /\ Cardinality(Owing) \in Nat /\ Cardinality(After) \in Nat
      /\ beeps \in Nat /\ beeps' \in Nat /\ calls \in Nat /\ calls' \in Nat
      /\ beeps + Cardinality(Owing) <= calls
  BY <1>1, FS_CardinalityType, BoundsAssumption DEF BeepsAreCalled, TypeOK
<1>3. After \subseteq Owing \cup {c} /\ (~Owes(c)' => After \subseteq Owing \ {c})
  BY DEF Owed, Owing
<1>4. ASSUME NEW S, S \subseteq Owing PROVE Cardinality(S) <= Cardinality(Owing)
  BY <1>1, <1>4, FS_Subset
<1>5. Cardinality(After) <= Cardinality(Owing) + 1
  <2>1. CASE c \in After
    <3>1. Cardinality(After \ {c}) = Cardinality(After) - 1
      BY <1>1, <2>1, FS_RemoveElement
    <3>2. Cardinality(After \ {c}) <= Cardinality(Owing)
      BY <1>3, <1>4
    <3> QED BY <1>2, <3>1, <3>2
  <2>2. CASE c \notin After
    <3>1. Cardinality(After) <= Cardinality(Owing)
      BY <1>3, <1>4, <2>2
    <3> QED BY <1>2, <3>1
  <2> QED BY <2>1, <2>2
<1>6. (Owes(c)' => Owes(c)) => Cardinality(After) <= Cardinality(Owing)
  <2> SUFFICES ASSUME Owes(c)' => Owes(c) PROVE Cardinality(After) <= Cardinality(Owing)
    OBVIOUS
  <2>1. After \subseteq Owing
    BY DEF Owed, Owing
  <2> QED BY <1>4, <2>1
<1>7. Owes(c) /\ ~Owes(c)' => Cardinality(After) <= Cardinality(Owing) - 1
  <2> SUFFICES ASSUME Owes(c), ~Owes(c)'
               PROVE  Cardinality(After) <= Cardinality(Owing) - 1
    OBVIOUS
  <2>1. IsFiniteSet(Owing \ {c}) /\ Cardinality(Owing \ {c}) = Cardinality(Owing) - 1
    BY <1>1, FS_RemoveElement DEF Owing
  <2> QED BY <1>3, <2>1, FS_Subset
<1>8. beeps' + Cardinality(After) <= calls'
  BY <1>2, <1>5, <1>6, <1>7 DEF Owed
<1> QED BY <1>1, <1>8 DEF BeepsAreCalled

\* A caller that owes a beep has made a call that has written none, and so has
\* every other one.
LEMMA OwingIsCalled ==
  ASSUME TypeOK, BeepsAreCalled, NEW c \in Owing
  PROVE  beeps < calls /\ \A d \in Owing \ {c} : beeps + 1 < calls
<1>1. IsFiniteSet(Owing) /\ Cardinality(Owing) \in Nat /\ beeps \in Nat /\ calls \in Nat
  BY CallersAreFinite, FS_Subset, FS_CardinalityType, BoundsAssumption DEF Owing, TypeOK
<1>2. /\ IsFiniteSet(Owing \ {c}) /\ Cardinality(Owing \ {c}) \in Nat
      /\ Cardinality(Owing \ {c}) = Cardinality(Owing) - 1
  BY <1>1, FS_RemoveElement, FS_CardinalityType
<1>3. ASSUME NEW d \in Owing \ {c} PROVE Cardinality(Owing \ {c}) # 0
  BY <1>2, FS_EmptySet
<1> QED BY <1>1, <1>2, <1>3 DEF BeepsAreCalled

\* A step inside a call, or into one.
LEMMA CallOwed ==
  ASSUME TypeOK, NEW c \in Callers, ApiStep(c)
  PROVE  Owed(c)
<1>1. /\ W \in Callers /\ pc \in [Callers -> {"idle"} \cup CallPcs \cup LoopPcs]
      /\ beeps \in Nat /\ calls \in Nat
  BY BoundsAssumption DEF Callers, TypeOK
<1> USE <1>1 DEF Owed, Owes, Goto, Beep, counters, queue
<1>2. ASSUME NEW o, FirstStep(c, o), pc[c] \in {"idle", "frame", "terminate", "enter"}
      PROVE  /\ \A d \in Callers \ {c} : pc'[d] = pc[d]
             /\ \/ beeps' = beeps /\ pc'[c] \in {"switch", "lrh"}
                \/ beeps' = beeps /\ pc' = pc
                \/ beeps' <= beeps + 1 /\ ~Owes(c)'
  BY <1>2 DEF FirstStep, PaintRed, PingOther, PingSelf, Caller, Resume, Back
<1>3. CASE \E o \in Ops : Call(c, o)
  <2>1. PICK o \in Ops : Call(c, o)
    BY <1>3
  <2>2. pc[c] \in {"idle", "frame", "terminate"} /\ calls' = calls + 1
    BY <2>1 DEF Call, InUserCode
  <2>3. CASE entry_gap
    BY <2>1, <2>2, <2>3 DEF Call
  <2>4. CASE ~entry_gap
    BY <1>2, <2>1, <2>2, <2>4 DEF Call
  <2> QED BY <2>3, <2>4
<1>4. CASE Enter(c)
  BY <1>2, <1>4 DEF Enter
<1>5. CASE SwitchAlive(c) \/ SwitchGone(c) \/ SwitchZombieOther(c) \/ ZombieBeep(c)
           \/ SwitchZombieSelf(c) \/ PushZombieSelf(c)
  BY <1>5 DEF SwitchAlive, SwitchGone, SwitchZombieOther, ZombieBeep,
     SwitchZombieSelf, PushZombieSelf
<1>6. CASE TryLockTaken(c) \/ TryLockRefused(c) \/ StoreState(c) \/ Plan(c) \/ Unlock(c)
  BY <1>6 DEF TryLockTaken, TryLockRefused, StoreState, Plan, Unlock
<1>7. CASE Wait(c) \/ PushNoMemory(c) \/ PushSelf(c) \/ PushWish(c)
  BY <1>7 DEF Wait, PushNoMemory, PushSelf, PushWish
<1>8. CASE Join(c) \/ JoinTimeout(c) \/ PaintGreen(c)
  <2>1. /\ pc[c] \in {"join", "green", "green_join"} /\ UNCHANGED <<beeps, calls>>
        /\ pc' = [pc EXCEPT ![c] = Caller(c)] \/ pc' = [pc EXCEPT ![c] = "join"]
    BY <1>8 DEF Join, JoinTimeout, PaintGreen
  <2> QED BY <2>1 DEF Caller, Resume, Back
<1> QED BY <1>3, <1>4, <1>5, <1>6, <1>7, <1>8 DEF ApiStep, CallStep

\* The worker thread writes no beep and begins no call.
LEMMA LoopOwed ==
  ASSUME TypeOK, LoopStep \/ AppStep
  PROVE  Owed(W)
<1>1. /\ W \in Callers /\ pc \in [Callers -> {"idle"} \cup CallPcs \cup LoopPcs]
      /\ \A d \in Callers \ {W} : pc'[d] = pc[d]
      /\ beeps \in Nat
  BY LoopFrame, BoundsAssumption DEF Callers, TypeOK
<1>2. /\ UNCHANGED calls /\ beeps' <= beeps
      /\ pc'[W] \notin {"enter", "switch", "trylock", "store", "plan", "enqueue", "zombie_beep"}
         \/ pc'[W] = pc[W]
  <2> USE <1>1 DEF Goto, ReadBeep, callVars, counters, queue, Unaffected
  <2>1. CASE Launch \/ OnStartReturns \/ Install \/ MainKill
    BY <2>1 DEF Launch, OnStartReturns, Install, MainKill
  <2>2. CASE RunListener \/ TakeWishes \/ ReadPlan \/ Die \/ Rearm
    BY <2>2 DEF RunListener, TakeWishes, ReadPlan, Die, Rearm, Resume, Back
  <2>3. CASE RunShutdown
    BY <2>3 DEF RunShutdown, TypeOK
  <2>4. CASE UnattendedShutdown \/ AttendedShutdown \/ ClearWishes
    BY <2>4 DEF UnattendedShutdown, AttendedShutdown, ClearWishes
  <2>5. CASE SelfAsynch \/ SelfUnlock \/ SelfEnd \/ SelfGreen
    BY <2>5 DEF SelfAsynch, SelfUnlock, SelfEnd, SelfGreen, AfterDeath, Back
  <2>6. CASE SayBye \/ Terminate \/ Dispose \/ DisposeWait \/ Free \/ ShutdownScheduler
    BY <2>6 DEF SayBye, Terminate, Dispose, DisposeWait, Free, ShutdownScheduler,
       AfterDeath, Back
  <2>7. CASE AutoShutdown \/ RunJob \/ FrameReturns
             \/ TaskEnds("stopping") \/ SchedulerReturns
    BY <2>7 DEF AutoShutdown, RunJob, FrameReturns, TaskEnds, SchedulerReturns
  <2>8. CASE AppStep
    BY <2>8 DEF AppStep, UserShutdown, RunTask, TaskEnds
  <2> QED BY <2>1, <2>2, <2>3, <2>4, <2>5, <2>6, <2>7, <2>8 DEF LoopStep
<1> QED BY <1>1, <1>2 DEF Owed, Owes

\* A disposal that may go on finds nobody inside a call.
LEMMA NobodyIsRed ==
  ASSUME TypeOK, RefCount, disposable = 0
  PROVE  ~RedAtTheEnd /\ \A c \in Callers : ~Red(c)
<1>1. IsFiniteSet(Reds) /\ Cardinality(Reds) \in Nat
  BY CallersAreFinite, FS_Subset, FS_CardinalityType DEF Reds
<1>2. Cardinality(Reds) = 0 /\ ~RedAtTheEnd
  BY <1>1 DEF RefCount, Reds
<1> QED BY <1>1, <1>2, FS_EmptySet DEF Reds

(***************************************************************************)
(* What holds of every worker, whoever uses it                             *)
(***************************************************************************)
Known ==
  Typed /\ WishesKept /\ BeepPending /\ Late /\ RefCount /\ DeathIsNamed /\ BeepsAreCalled

\* What WorkerProofs shows of every worker ...
LEMMA KnownInit == Init => Known
<1> SUFFICES ASSUME Init PROVE Known
  OBVIOUS
<1>1. \A c \in Callers : pc[c] \in {"idle", "install", "launch"}
  BY DEF Init
<1>2. Reds = {} /\ Owing = {} /\ ~RedAtTheEnd
  BY <1>1 DEF Init, Reds, Red, RedAtTheEnd, Owing, Owes
<1>3. RefCount /\ BeepsAreCalled
  BY <1>2, FS_EmptySet DEF Init, RefCount, Reds, BeepsAreCalled
<1>4. WishesKept /\ BeepPending /\ DeathIsNamed
  BY <1>1, ThreadsAssumption DEF Init, WishesKept, BeepPending, DeathIsNamed, Callers
<1> QED BY <1>3, <1>4, TypedInit, LateInit DEF Known

\* ... and keeps, step by step.
LEMMA KnownStep == Known /\ [Next]_vars => Known'
<1> SUFFICES ASSUME Known, [Next]_vars PROVE Known'
  OBVIOUS
<1>1. Typed' /\ Late'
  BY TypedStep, LateStep DEF Known
<1>2. (WishesKept /\ BeepPending)' /\ (RefCount /\ DeathIsNamed)'
  BY BeepStep, RefCountStep DEF Known, Typed
<1>3. BeepsAreCalled'
  <2> USE <1>1 DEF Known, Typed
  <2>1. CASE \E c \in Callers : ApiStep(c)
    BY <2>1, CallOwed, OwedIsCalled
  <2>2. CASE LoopStep \/ AppStep
    BY <2>2, LoopOwed, OwedIsCalled DEF Callers
  <2>3. CASE UNCHANGED vars
    BY <2>3 DEF vars, counters, queue, BeepsAreCalled, Owing, Owes
  <2> QED BY <2>1, <2>2, <2>3 DEF Next
<1> QED BY <1>1, <1>2, <1>3 DEF Known

(***************************************************************************)
(* Every step keeps the invariant: one case per action, and one step per   *)
(* group of conjuncts, with the definitions that the group depends on.     *)
(***************************************************************************)
\* A call that begins keeps the invariant.
LEMMA CallInv ==
  ASSUME Orderly, TypeOK, ShutdownIsNamed, WishesKept, BeepPending, Late, RefCount,
         DeathIsNamed, BeepsAreCalled, IInv, ub = "none",
         NEW c \in Callers, NEW o \in Ops, Call(c, o)
  PROVE  IInv'
<1>1. Callers = Threads \cup {W} /\ W \notin Threads /\ NoThread \notin Callers
  BY ThreadsAssumption DEF Callers
<1>2. ~entry_gap => /\ FirstStep(c, o)
                     /\ UNCHANGED <<config, state, locks, worker_thread, loopVars>>
  BY DEF Call, FirstStep
<1> USE <1>1, <1>2 DEF IInv, config, counters, locks, queue, tasks, loopVars
<1>3. CASE entry_gap
  <2>1. Called'
    BY <1>3 DEF Call, InUserCode, MayDestroy, Frames, DestroyOps, TypeOK, Orderly,
       OneDestroyer, Framed, Called
  <2>2. SelfCalls'
    BY <1>3 DEF Call, InUserCode, CalledFrom, TypeOK, Framed, SelfCalls
  <2>3. Framed'
    BY <1>3 DEF Call, InUserCode, TypeOK, Orderly, Modest, Framed
  <2>4. (Phases /\ KillOwner /\ Dead)'
    BY <1>3 DEF Call, InUserCode, Beginning, Ending, TypeOK, Phases, KillOwner, Dead
  <2>5. Plans'
    BY <1>3 DEF Call, InUserCode, MayDestroy, MustDie, Frames, TypeOK, Orderly,
       OneDestroyer, Framed, Plans
  <2>6. Attended'
    BY <1>3 DEF Call, InUserCode, MustDie, TypeOK, Attended
  <2>7. Heard'
    BY <1>3 DEF Call, InUserCode, MustDie, TypeOK, Heard
  <2>8. Zombies'
    BY <1>3 DEF Call, InUserCode, TypeOK, Zombies
  <2>9. (ThreadOwner /\ Deserted /\ Defined)'
    BY <1>3 DEF Call, InUserCode, OwnThread, TypeOK, ThreadOwner, Deserted, Defined
  <2>10. (Told /\ Answered)'
    BY <1>3 DEF Call, InUserCode, Down, MustDie, IsGuest, DestroyOps, WaitingOps,
       TypeOK, Plans, Told, Answered
  <2> QED BY <2>1, <2>2, <2>3, <2>4, <2>5, <2>6, <2>7, <2>8, <2>9, <2>10
<1>4. CASE ~entry_gap /\ freed
  <2>1. (Called /\ SelfCalls /\ Framed)'
    BY <1>4 DEF Call, InUserCode, Dead, Called, SelfCalls, Framed
  <2>2. (Phases /\ KillOwner /\ Dead)'
    BY <1>4 DEF Call, InUserCode, Phases, KillOwner, Dead
  <2>3. (Plans /\ Attended /\ Heard /\ Zombies)'
    BY <1>4 DEF Call, InUserCode, Dead, Plans, Attended, Heard, Zombies
  <2>4. (ThreadOwner /\ Deserted /\ Defined)'
    BY <1>4 DEF Call, InUserCode, Dead, ThreadOwner, Deserted, Defined
  <2>5. (Told /\ Answered)'
    BY <1>4 DEF Call, InUserCode, Dead, Told, Answered
  <2> QED BY <2>1, <2>2, <2>3, <2>4, <2>5
<1>5. CASE ~entry_gap /\ o # "ping" /\ PaintRed(c)
  <2>1. Called'
    BY <1>5 DEF Call, InUserCode, PaintRed, MayDestroy, Frames, DestroyOps, TypeOK,
       Orderly, OneDestroyer, Framed, Called
  <2>2. SelfCalls'
    BY <1>5 DEF Call, InUserCode, PaintRed, CalledFrom, TypeOK, Framed, SelfCalls
  <2>3. Framed'
    BY <1>5 DEF Call, InUserCode, PaintRed, Orderly, Modest, Framed
  <2>4. (Phases /\ KillOwner /\ Dead)'
    BY <1>5 DEF Call, InUserCode, PaintRed, Beginning, Ending, Phases, KillOwner,
       Dead
  <2>5. Plans'
    BY <1>5 DEF Call, InUserCode, PaintRed, MayDestroy, MustDie, Frames, TypeOK,
       Orderly, OneDestroyer, Framed, Plans
  <2>6. Attended'
    BY <1>5 DEF Call, InUserCode, PaintRed, MustDie, Attended
  <2>7. Heard'
    BY <1>5 DEF Call, InUserCode, PaintRed, MustDie, Heard
  <2>8. Zombies'
    BY <1>5 DEF Call, InUserCode, PaintRed, TypeOK, Zombies
  <2>9. (ThreadOwner /\ Deserted /\ Defined)'
    BY <1>5 DEF Call, InUserCode, PaintRed, OwnThread, Dead, ThreadOwner, Deserted,
       Defined
  <2>10. (Told /\ Answered)'
    BY <1>5 DEF Call, InUserCode, PaintRed, Down, MustDie, IsGuest, DestroyOps,
       WaitingOps, TypeOK, Plans, Told, Answered
  <2> QED BY <2>1, <2>2, <2>3, <2>4, <2>5, <2>6, <2>7, <2>8, <2>9, <2>10
<1>6. CASE ~entry_gap /\ o = "ping" /\ ~Self(c) /\ PingOther(c)
  <2>1. (Called /\ SelfCalls /\ Framed)'
    BY <1>6 DEF Call, InUserCode, PingOther, Beep, PipeIsFull, Caller, Resume, Back,
       CalledFrom, DestroyOps, Self, Dead, Called, SelfCalls, Framed
  <2>2. (Phases /\ KillOwner /\ Dead)'
    BY <1>6 DEF Call, InUserCode, PingOther, Beep, PipeIsFull, Caller, Resume, Back,
       Beginning, Ending, Phases, KillOwner, Dead
  <2>3. (Plans /\ Attended /\ Heard /\ Zombies)'
    BY <1>6 DEF Call, InUserCode, PingOther, Beep, PipeIsFull, Caller, Resume, Back,
       MustDie, DestroyOps, TypeOK, Plans, Attended, Heard, Zombies
  <2>4. (ThreadOwner /\ Deserted /\ Defined)'
    BY <1>6 DEF Call, InUserCode, PingOther, Beep, PipeIsFull, Caller, Resume, Back,
       OwnThread, ThreadOwner, Deserted, Defined
  <2>5. (Told /\ Answered)'
    BY <1>6 DEF Call, InUserCode, PingOther, Beep, PipeIsFull, Caller, Resume, Back,
       Down, MustDie, IsGuest, WaitingOps, TypeOK, Told, Answered
  <2> QED BY <2>1, <2>2, <2>3, <2>4, <2>5
<1>7. CASE ~entry_gap /\ o = "ping" /\ Self(c) /\ PingSelf(c)
  <2>1. (Called /\ SelfCalls /\ Framed)'
    BY <1>7 DEF Call, InUserCode, PingSelf, CallPcs, DestroyOps, TypeOK, Orderly,
       Modest, Self, Called, SelfCalls, Framed
  <2>2. (Phases /\ KillOwner /\ Dead)'
    BY <1>7 DEF Call, InUserCode, PingSelf, Beginning, Ending, Phases, KillOwner,
       Dead
  <2>3. (Plans /\ Attended /\ Heard /\ Zombies)'
    BY <1>7 DEF Call, InUserCode, PingSelf, MustDie, DestroyOps, TypeOK, Orderly,
       Modest, Framed, Plans, Attended, Heard, Zombies
  <2>4. (ThreadOwner /\ Deserted /\ Defined)'
    BY <1>7 DEF Call, InUserCode, PingSelf, OwnThread, Self, ThreadOwner, Deserted,
       Defined
  <2>5. (Told /\ Answered)'
    BY <1>7 DEF Call, InUserCode, PingSelf, Down, MustDie, IsGuest, TypeOK, Self,
       Told, Answered
  <2> QED BY <2>1, <2>2, <2>3, <2>4, <2>5
<1> QED
  BY <1>3, <1>4, <1>5, <1>6, <1>7 DEF FirstStep

\* So does every step inside a call.
LEMMA CallStepInv ==
  ASSUME Orderly, TypeOK, ShutdownIsNamed, WishesKept, BeepPending, Late, RefCount,
         DeathIsNamed, BeepsAreCalled, IInv, ub = "none",
         NEW c \in Callers, CallStep(c) \/ JoinTimeout(c)
  PROVE  IInv'
<1>1. Callers = Threads \cup {W} /\ W \notin Threads /\ NoThread \notin Callers
  BY ThreadsAssumption DEF Callers
<1> USE <1>1 DEF IInv, Goto, config, counters, locks, queue, tasks, loopVars
<1>3. CASE Enter(c) /\ freed
  <2>1. (Called /\ SelfCalls /\ Framed)'
    BY <1>3 DEF Enter, FirstStep, CalledFrom, Called, SelfCalls, Framed
  <2>2. (Phases /\ KillOwner /\ Dead)'
    BY <1>3 DEF Enter, FirstStep, Beginning, Ending, Phases, KillOwner, Dead
  <2>3. (Plans /\ Attended /\ Heard /\ Zombies)'
    BY <1>3 DEF Enter, FirstStep, MustDie, Plans, Attended, Heard, Zombies
  <2>4. (ThreadOwner /\ Deserted /\ Defined)'
    BY <1>3 DEF Enter, FirstStep, OwnThread, Called, ThreadOwner, Deserted, Defined
  <2>5. (Told /\ Answered)'
    BY <1>3 DEF Enter, FirstStep, Down, MustDie, IsGuest, Told, Answered
  <2> QED BY <2>1, <2>2, <2>3, <2>4, <2>5
<1>4. CASE Enter(c) /\ op[c] # "ping" /\ PaintRed(c)
  <2>1. (Called /\ SelfCalls /\ Framed)'
    BY <1>4 DEF Enter, FirstStep, PaintRed, CalledFrom, CallPcs, Called, SelfCalls,
       Framed
  <2>2. (Phases /\ KillOwner /\ Dead)'
    BY <1>4 DEF Enter, FirstStep, PaintRed, Beginning, Ending, Phases, KillOwner,
       Dead
  <2>3. (Plans /\ Attended /\ Heard /\ Zombies)'
    BY <1>4 DEF Enter, FirstStep, PaintRed, MustDie, Plans, Attended, Heard, Zombies
  <2>4. (ThreadOwner /\ Deserted /\ Defined)'
    BY <1>4 DEF Enter, FirstStep, PaintRed, OwnThread, Called, ThreadOwner,
       Deserted, Defined
  <2>5. (Told /\ Answered)'
    BY <1>4 DEF Enter, FirstStep, PaintRed, Down, MustDie, IsGuest, Told, Answered
  <2> QED BY <2>1, <2>2, <2>3, <2>4, <2>5
<1>5. CASE Enter(c) /\ op[c] = "ping" /\ ~Self(c) /\ PingOther(c)
  <2>1. (Called /\ SelfCalls /\ Framed)'
    BY <1>5 DEF Enter, FirstStep, PingOther, Beep, PipeIsFull, Caller, Resume, Back,
       Beginning, Ending, CalledFrom, CallPcs, Phases, Called, SelfCalls, Framed
  <2>2. (Phases /\ KillOwner /\ Dead)'
    BY <1>5 DEF Enter, FirstStep, PingOther, Beep, PipeIsFull, Caller, Resume, Back,
       Beginning, Ending, Phases, KillOwner, Dead
  <2>3. (Plans /\ Attended /\ Heard /\ Zombies)'
    BY <1>5 DEF Enter, FirstStep, PingOther, Beep, PipeIsFull, Caller, Resume, Back,
       MustDie, TypeOK, Plans, Attended, Heard, Zombies
  <2>4. (ThreadOwner /\ Deserted /\ Defined)'
    BY <1>5 DEF Enter, FirstStep, PingOther, Beep, PipeIsFull, Caller, Resume, Back,
       OwnThread, ThreadOwner, Deserted, Defined
  <2>5. (Told /\ Answered)'
    BY <1>5 DEF Enter, FirstStep, PingOther, Beep, PipeIsFull, Caller, Resume, Back,
       Down, MustDie, IsGuest, WaitingOps, Told, Answered
  <2> QED BY <2>1, <2>2, <2>3, <2>4, <2>5
<1>6. CASE Enter(c) /\ op[c] = "ping" /\ Self(c) /\ PingSelf(c)
  <2>1. (Called /\ SelfCalls /\ Framed)'
    BY <1>6 DEF Enter, FirstStep, PingSelf, CalledFrom, CallPcs, Orderly, Modest,
       Called, SelfCalls, Framed
  <2>2. (Phases /\ KillOwner /\ Dead)'
    BY <1>6 DEF Enter, FirstStep, PingSelf, Beginning, Ending, Phases, KillOwner,
       Dead
  <2>3. (Plans /\ Attended /\ Heard /\ Zombies)'
    BY <1>6 DEF Enter, FirstStep, PingSelf, MustDie, Orderly, Modest, Called, Plans,
       Attended, Heard, Zombies
  <2>4. (ThreadOwner /\ Deserted /\ Defined)'
    BY <1>6 DEF Enter, FirstStep, PingSelf, OwnThread, Self, ThreadOwner, Deserted,
       Defined
  <2>5. (Told /\ Answered)'
    BY <1>6 DEF Enter, FirstStep, PingSelf, Down, MustDie, IsGuest, Told, Answered
  <2> QED BY <2>1, <2>2, <2>3, <2>4, <2>5
<1>7. CASE SwitchAlive(c)
  <2>1. Called'
    BY <1>7 DEF SwitchAlive, Ops, Called
  <2>2. SelfCalls'
    BY <1>7 DEF SwitchAlive, CalledFrom, CallPcs, Frames, TypeOK, Late,
       GoodbyeIsLate, Orderly, Modest, Framed, SelfCalls
  <2>3. Framed'
    BY <1>7 DEF SwitchAlive, Beginning, Ending, CalledFrom, CallPcs, Orderly,
       Modest, SelfCalls, Phases, Framed
  <2>4. (Phases /\ KillOwner /\ Dead)'
    BY <1>7 DEF SwitchAlive, Beginning, Ending, Phases, KillOwner, Dead
  <2>5. (Plans /\ Attended /\ Heard /\ Zombies)'
    BY <1>7 DEF SwitchAlive, MustDie, Plans, Attended, Heard, Zombies
  <2>6. (ThreadOwner /\ Deserted /\ Defined)'
    BY <1>7 DEF SwitchAlive, Dead, Plans, ThreadOwner, Deserted, Defined
  <2>7. (Told /\ Answered)'
    BY <1>7 DEF SwitchAlive, Down, MustDie, IsGuest, Told, Answered
  <2> QED BY <2>1, <2>2, <2>3, <2>4, <2>5, <2>6, <2>7
<1>8. CASE SwitchGone(c)
  <2>1. (Called /\ SelfCalls /\ Framed)'
    BY <1>8 DEF SwitchGone, TooLate, CalledFrom, CallPcs, Called, SelfCalls, Framed
  <2>2. (Phases /\ KillOwner /\ Dead)'
    BY <1>8 DEF SwitchGone, TooLate, Beginning, Ending, Phases, KillOwner, Dead
  <2>3. (Plans /\ Attended /\ Heard /\ Zombies)'
    BY <1>8 DEF SwitchGone, TooLate, MustDie, Answer, Plans, Attended, Heard,
       Zombies
  <2>4. (ThreadOwner /\ Deserted /\ Defined)'
    BY <1>8 DEF SwitchGone, TooLate, OwnThread, ThreadOwner, Deserted, Defined
  <2>5. (Told /\ Answered)'
    BY <1>8 DEF SwitchGone, TooLate, Down, MustDie, IsGuest, TypeOK, Answer, Told,
       Answered
  <2> QED BY <2>1, <2>2, <2>3, <2>4, <2>5
<1>9. CASE SwitchZombieOther(c)
  <2>1. (Called /\ SelfCalls /\ Framed)'
    BY <1>9 DEF SwitchZombieOther, CalledFrom, Self, Dead, Called, SelfCalls, Framed
  <2>2. (Phases /\ KillOwner /\ Dead)'
    BY <1>9 DEF SwitchZombieOther, Beginning, Ending, Phases, KillOwner, Dead
  <2>3. (Plans /\ Attended /\ Heard /\ Zombies)'
    BY <1>9 DEF SwitchZombieOther, MustDie, Plans, Attended, Heard, Zombies
  <2>4. (ThreadOwner /\ Deserted /\ Defined)'
    BY <1>9 DEF SwitchZombieOther, OwnThread, Dead, ThreadOwner, Deserted, Defined
  <2>5. (Told /\ Answered)'
    BY <1>9 DEF SwitchZombieOther, Down, IsGuest, Told, Answered
  <2> QED BY <2>1, <2>2, <2>3, <2>4, <2>5
<1>10. CASE ZombieBeep(c)
  <2>1. (Called /\ SelfCalls /\ Framed)'
    BY <1>10 DEF ZombieBeep, Beep, PipeIsFull, CalledFrom, CallPcs, Called,
       SelfCalls, Framed
  <2>2. (Phases /\ KillOwner /\ Dead)'
    BY <1>10 DEF ZombieBeep, Beep, PipeIsFull, Beginning, Ending, Phases, KillOwner,
       Dead
  <2>3. (Plans /\ Attended /\ Heard /\ Zombies)'
    BY <1>10 DEF ZombieBeep, Beep, PipeIsFull, MustDie, TypeOK, Answer, Plans,
       Attended, Heard, Zombies
  <2>4. (ThreadOwner /\ Deserted /\ Defined)'
    BY <1>10 DEF ZombieBeep, Beep, PipeIsFull, OwnThread, ThreadOwner, Deserted,
       Defined
  <2>5. Told'
    BY <1>10 DEF ZombieBeep, Beep, PipeIsFull, Answer, Told
  <2>6. Answered'
    BY <1>10 DEF ZombieBeep, Beep, PipeIsFull, Down, MustDie, IsGuest, DestroyOps,
       WaitingOps, Answer, Answered
  <2> QED BY <2>1, <2>2, <2>3, <2>4, <2>5, <2>6
<1>11. CASE SwitchZombieSelf(c)
  <2>1. (Called /\ SelfCalls /\ Framed)'
    BY <1>11 DEF SwitchZombieSelf, Self, Plans, Called, SelfCalls, Framed
  <2>2. (Phases /\ KillOwner /\ Dead)'
    BY <1>11 DEF SwitchZombieSelf, Self, Plans, Phases, KillOwner, Dead
  <2>3. (Plans /\ Attended /\ Heard /\ Zombies)'
    BY <1>11 DEF SwitchZombieSelf, Self, Plans, Attended, Heard, Zombies
  <2>4. (ThreadOwner /\ Deserted /\ Defined)'
    BY <1>11 DEF SwitchZombieSelf, Self, Plans, ThreadOwner, Deserted, Defined
  <2>5. (Told /\ Answered)'
    BY <1>11 DEF SwitchZombieSelf, Down, IsGuest, Told, Answered
  <2> QED BY <2>1, <2>2, <2>3, <2>4, <2>5
<1>12. CASE PushZombieSelf(c)
  <2>1. (Called /\ SelfCalls /\ Framed)'
    BY <1>12 DEF PushZombieSelf, LessRed, CalledFrom, CallPcs, Orderly, Modest,
       Zombies, Called, SelfCalls, Framed
  <2>2. (Phases /\ KillOwner /\ Dead)'
    BY <1>12 DEF PushZombieSelf, LessRed, Beginning, Ending, Phases, KillOwner, Dead
  <2>3. (Plans /\ Attended /\ Heard /\ Zombies)'
    BY <1>12 DEF PushZombieSelf, LessRed, MustDie, Plans, Attended, Heard, Zombies
  <2>4. (ThreadOwner /\ Deserted /\ Defined)'
    BY <1>12 DEF PushZombieSelf, LessRed, OwnThread, Self, ThreadOwner, Deserted,
       Defined
  <2>5. (Told /\ Answered)'
    BY <1>12 DEF PushZombieSelf, LessRed, Down, IsGuest, Answer, Told, Answered
  <2> QED BY <2>1, <2>2, <2>3, <2>4, <2>5
<1>13. CASE TryLockTaken(c)
  <2>1. (Called /\ SelfCalls /\ Framed)'
    BY <1>13 DEF TryLockTaken, CalledFrom, Called, SelfCalls, Framed
  <2>2. (Phases /\ KillOwner /\ Dead)'
    BY <1>13 DEF TryLockTaken, Beginning, Ending, TypeOK, Phases, KillOwner, Dead
  <2>3. (Plans /\ Attended /\ Heard /\ Zombies)'
    BY <1>13 DEF TryLockTaken, MustDie, Late, CondemnedFirst, Plans, Attended,
       Heard, Zombies
  <2>4. (ThreadOwner /\ Deserted /\ Defined)'
    BY <1>13 DEF TryLockTaken, OwnThread, ThreadOwner, Deserted, Defined
  <2>5. (Told /\ Answered)'
    BY <1>13 DEF TryLockTaken, Down, MustDie, IsGuest, Told, Answered
  <2> QED BY <2>1, <2>2, <2>3, <2>4, <2>5
<1>14. CASE TryLockRefused(c)
  <2>1. (Called /\ SelfCalls /\ Framed)'
    BY <1>14 DEF TryLockRefused, TooLate, CalledFrom, Called, SelfCalls, Framed
  <2>2. (Phases /\ KillOwner /\ Dead)'
    BY <1>14 DEF TryLockRefused, TooLate, Beginning, Ending, Phases, KillOwner, Dead
  <2>3. (Plans /\ Attended /\ Heard /\ Zombies)'
    BY <1>14 DEF TryLockRefused, TooLate, MustDie, Answer, Plans, Attended, Heard,
       Zombies
  <2>4. (ThreadOwner /\ Deserted /\ Defined)'
    BY <1>14 DEF TryLockRefused, TooLate, OwnThread, ThreadOwner, Deserted, Defined
  <2>5. (Told /\ Answered)'
    BY <1>14 DEF TryLockRefused, TooLate, Down, MustDie, IsGuest, TypeOK, Answer,
       Told, Answered
  <2> QED BY <2>1, <2>2, <2>3, <2>4, <2>5
<1>15. CASE StoreState(c)
  <2>1. (Called /\ SelfCalls /\ Framed)'
    BY <1>15 DEF StoreState, Condemned, Detach, CalledFrom, CallPcs, Self, Dead,
       Called, SelfCalls, Framed
  <2>2. (Phases /\ KillOwner /\ Dead)'
    BY <1>15 DEF StoreState, Condemned, Detach, Beginning, Ending, Self, Deserted,
       Phases, KillOwner, Dead
  <2>3. (Plans /\ Attended /\ Heard /\ Zombies)'
    BY <1>15 DEF StoreState, Condemned, Detach, MustDie, TypeOK, KillOwner, Plans,
       Attended, Heard, Zombies
  <2>4. (ThreadOwner /\ Deserted /\ Defined)'
    BY <1>15 DEF StoreState, Condemned, Detach, OwnThread, TypeOK, Self, Dead,
       Plans, ThreadOwner, Deserted, Defined
  <2>5. (Told /\ Answered)'
    BY <1>15 DEF StoreState, Condemned, Detach, IsGuest, DestroyOps, WaitingOps,
       Called, Plans, Told, Answered
  <2> QED BY <2>1, <2>2, <2>3, <2>4, <2>5
<1>16. CASE Plan(c)
  <2>1. (Called /\ SelfCalls /\ Framed)'
    BY <1>16 DEF Plan, Beep, PipeIsFull, CalledFrom, CallPcs, Called, SelfCalls,
       Framed
  <2>2. (Phases /\ KillOwner /\ Dead)'
    BY <1>16 DEF Plan, Beep, PipeIsFull, Beginning, Ending, Deserted, Phases,
       KillOwner, Dead
  <2>3. Plans'
    BY <1>16 DEF Plan, Beep, PipeIsFull, CallPcs, MayDestroy, MustDie, DestroyOps,
       TypeOK, Called, SelfCalls, Plans
  <2>4. Attended'
    BY <1>16 DEF Plan, Beep, PipeIsFull, CallPcs, SelfCalls, KillOwner, Attended
  <2>5. Heard'
    BY <1>16, BoundsAssumption DEF Plan, Beep, PipeIsFull, TypeOK, BeepPending,
       Heard
  <2>6. Zombies'
    BY <1>16, BoundsAssumption, OwingIsCalled DEF Plan, Beep, PipeIsFull, Owing,
       Owes, TypeOK, Roomy, Answer, Zombies
  <2>7. (ThreadOwner /\ Deserted /\ Defined)'
    BY <1>16 DEF Plan, Beep, PipeIsFull, OwnThread, Late, CondemnedFirst,
       ThreadOwner, Deserted, Defined
  <2>8. (Told /\ Answered)'
    BY <1>16 DEF Plan, Beep, PipeIsFull, MustDie, IsGuest, DestroyOps, WaitingOps,
       Answer, Called, Dead, Plans, Told, Answered
  <2> QED BY <2>1, <2>2, <2>3, <2>4, <2>5, <2>6, <2>7, <2>8
<1>17. CASE Unlock(c)
  <2>1. (Called /\ SelfCalls /\ Framed)'
    BY <1>17 DEF Unlock, Detach, CalledFrom, CallPcs, Called, SelfCalls, Framed
  <2>2. (Phases /\ KillOwner /\ Dead)'
    BY <1>17 DEF Unlock, Detach, Beginning, Ending, TypeOK, Called, SelfCalls,
       Deserted, Phases, KillOwner, Dead
  <2>3. (Plans /\ Attended /\ Heard /\ Zombies)'
    BY <1>17 DEF Unlock, Detach, CallPcs, MustDie, Late, CondemnedFirst, Called,
       SelfCalls, KillOwner, Plans, Attended, Heard, Zombies
  <2>4. (ThreadOwner /\ Deserted /\ Defined)'
    BY <1>17 DEF Unlock, Detach, CallPcs, OwnThread, DestroyOps, WaitingOps, TypeOK,
       Called, SelfCalls, ThreadOwner, Deserted, Defined
  <2>5. (Told /\ Answered)'
    BY <1>17 DEF Unlock, Detach, IsGuest, DestroyOps, WaitingOps, Called, KillOwner,
       Dead, Deserted, Told, Answered
  <2> QED BY <2>1, <2>2, <2>3, <2>4, <2>5
<1>18. CASE Wait(c)
  <2>1. (Called /\ SelfCalls /\ Framed)'
    BY <1>18 DEF Wait, HasReturned, Outcomes, CalledFrom, CallPcs, Called,
       SelfCalls, Framed
  <2>2. (Phases /\ KillOwner /\ Dead)'
    BY <1>18 DEF Wait, HasReturned, Outcomes, Beginning, Ending, Phases, KillOwner,
       Dead
  <2>3. (Plans /\ Attended /\ Heard /\ Zombies)'
    BY <1>18 DEF Wait, HasReturned, Outcomes, MustDie, Answer, Plans, Attended,
       Heard, Zombies
  <2>4. (ThreadOwner /\ Deserted /\ Defined)'
    BY <1>18 DEF Wait, HasReturned, Outcomes, OwnThread, ThreadOwner, Deserted,
       Defined
  <2>5. (Told /\ Answered)'
    BY <1>18 DEF Wait, HasReturned, Outcomes, Down, MustDie, IsGuest, Answer, Told,
       Answered
  <2> QED BY <2>1, <2>2, <2>3, <2>4, <2>5
<1>19. CASE Join(c)
  <2>1. (Called /\ SelfCalls /\ Framed)'
    BY <1>19 DEF Join, Caller, Resume, Back, CalledFrom, CallPcs, Called, SelfCalls,
       Framed
  <2>2. (Phases /\ KillOwner /\ Dead)'
    BY <1>19 DEF Join, Caller, Resume, Back, Beginning, Ending, Phases, KillOwner,
       Dead
  <2>3. (Plans /\ Attended /\ Heard /\ Zombies)'
    BY <1>19 DEF Join, Caller, Resume, Back, MustDie, Answer, Plans, Attended,
       Heard, Zombies
  <2>4. (ThreadOwner /\ Deserted /\ Defined)'
    BY <1>19 DEF Join, Caller, Resume, Back, CallPcs, DestroyOps, WaitingOps,
       TypeOK, Called, SelfCalls, Plans, ThreadOwner, Deserted, Defined
  <2>5. (Told /\ Answered)'
    BY <1>19 DEF Join, Caller, Resume, Back, Down, CallPcs, MustDie, IsGuest,
       Called, SelfCalls, Dead, ThreadOwner, Told, Answered
  <2> QED BY <2>1, <2>2, <2>3, <2>4, <2>5
<1>20. CASE JoinTimeout(c)
  <2>1. (Called /\ SelfCalls /\ Framed)'
    BY <1>20 DEF JoinTimeout, Detach, Caller, Resume, Back, CalledFrom, CallPcs,
       Called, SelfCalls, Framed
  <2>2. (Phases /\ KillOwner /\ Dead)'
    BY <1>20 DEF JoinTimeout, Detach, Caller, Resume, Back, Beginning, Ending,
       Phases, KillOwner, Dead
  <2>3. (Plans /\ Attended /\ Heard /\ Zombies)'
    BY <1>20 DEF JoinTimeout, Detach, Caller, Resume, Back, MustDie, Answer, Plans,
       Attended, Heard, Zombies
  <2>4. (ThreadOwner /\ Deserted /\ Defined)'
    BY <1>20 DEF JoinTimeout, Detach, Caller, Resume, Back, CallPcs, DestroyOps,
       WaitingOps, TypeOK, Called, SelfCalls, Plans, ThreadOwner, Deserted, Defined
  <2>5. (Told /\ Answered)'
    BY <1>20 DEF JoinTimeout, Detach, Caller, Resume, Back, Down, MustDie, IsGuest,
       TypeOK, Answer, Told, Answered
  <2> QED BY <2>1, <2>2, <2>3, <2>4, <2>5
<1>21. CASE PushNoMemory(c)
  <2>1. (Called /\ SelfCalls /\ Framed)'
    BY <1>21 DEF PushNoMemory, CalledFrom, CallPcs, Called, SelfCalls, Framed
  <2>2. (Phases /\ KillOwner /\ Dead)'
    BY <1>21 DEF PushNoMemory, Beginning, Ending, Phases, KillOwner, Dead
  <2>3. (Plans /\ Attended /\ Heard /\ Zombies)'
    BY <1>21 DEF PushNoMemory, MustDie, Answer, Plans, Attended, Heard, Zombies
  <2>4. (ThreadOwner /\ Deserted /\ Defined)'
    BY <1>21 DEF PushNoMemory, OwnThread, ThreadOwner, Deserted, Defined
  <2>5. (Told /\ Answered)'
    BY <1>21 DEF PushNoMemory, Down, MustDie, IsGuest, TypeOK, Answer, Told,
       Answered
  <2> QED BY <2>1, <2>2, <2>3, <2>4, <2>5
<1>22. CASE PushSelf(c)
  <2>1. (Called /\ SelfCalls /\ Framed)'
    BY <1>22 DEF PushSelf, CalledFrom, CallPcs, Called, SelfCalls, Framed
  <2>2. (Phases /\ KillOwner /\ Dead)'
    BY <1>22 DEF PushSelf, Beginning, Ending, Self, SelfCalls, Framed, Phases,
       KillOwner, Dead
  <2>3. (Plans /\ Attended /\ Heard /\ Zombies)'
    BY <1>22 DEF PushSelf, MustDie, Self, Answer, Plans, Attended, Heard, Zombies
  <2>4. (ThreadOwner /\ Deserted /\ Defined)'
    BY <1>22 DEF PushSelf, OwnThread, ThreadOwner, Deserted, Defined
  <2>5. (Told /\ Answered)'
    BY <1>22 DEF PushSelf, Down, MustDie, IsGuest, Self, Answer, Told, Answered
  <2> QED BY <2>1, <2>2, <2>3, <2>4, <2>5
<1>23. CASE PushWish(c)
  <2>1. (Called /\ SelfCalls /\ Framed)'
    BY <1>23 DEF PushWish, Beep, PipeIsFull, CalledFrom, CallPcs, Called, SelfCalls,
       Framed
  <2>2. (Phases /\ KillOwner /\ Dead)'
    BY <1>23 DEF PushWish, Beep, PipeIsFull, Beginning, Ending, Phases, KillOwner,
       Dead
  <2>3. (Plans /\ Attended /\ Heard /\ Zombies)'
    BY <1>23 DEF PushWish, Beep, PipeIsFull, MustDie, TypeOK, Answer, Plans,
       Attended, Heard, Zombies
  <2>4. (ThreadOwner /\ Deserted /\ Defined)'
    BY <1>23 DEF PushWish, Beep, PipeIsFull, OwnThread, ThreadOwner, Deserted,
       Defined
  <2>5. (Told /\ Answered)'
    BY <1>23 DEF PushWish, Beep, PipeIsFull, Down, MustDie, IsGuest, WaitingOps,
       Answer, Called, Told, Answered
  <2> QED BY <2>1, <2>2, <2>3, <2>4, <2>5
<1>24. CASE PaintGreen(c)
  <2>1. (Called /\ SelfCalls /\ Framed)'
    BY <1>24 DEF PaintGreen, Caller, Resume, Back, LessRed, Beginning, Ending,
       CalledFrom, CallPcs, TypeOK, Phases, Called, SelfCalls, Framed
  <2>2. (Phases /\ KillOwner /\ Dead)'
    BY <1>24 DEF PaintGreen, Caller, Resume, Back, LessRed, Beginning, Ending,
       TypeOK, Phases, KillOwner, Dead
  <2>3. (Plans /\ Attended /\ Heard /\ Zombies)'
    BY <1>24 DEF PaintGreen, Caller, Resume, Back, LessRed, MustDie, TypeOK, Plans,
       Attended, Heard, Zombies
  <2>4. (ThreadOwner /\ Deserted /\ Defined)'
    BY <1>24 DEF PaintGreen, Caller, Resume, Back, LessRed, OwnThread, TypeOK,
       ThreadOwner, Deserted, Defined
  <2>5. (Told /\ Answered)'
    BY <1>24 DEF PaintGreen, Caller, Resume, Back, LessRed, Down, MustDie, IsGuest,
       TypeOK, Told, Answered
  <2> QED BY <2>1, <2>2, <2>3, <2>4, <2>5
<1> QED
  BY <1>3, <1>4, <1>5, <1>6, <1>7, <1>8, <1>9, <1>10, <1>11, <1>12, <1>13,
     <1>14, <1>15, <1>16, <1>17, <1>18, <1>19, <1>20, <1>21, <1>22, <1>23, <1>24 DEF CallStep, Enter, FirstStep

\* So does every step of the worker thread.
LEMMA LoopInv ==
  ASSUME Orderly, TypeOK, ShutdownIsNamed, WishesKept, BeepPending, Late, RefCount,
         DeathIsNamed, BeepsAreCalled, IInv, ub = "none",
         LoopStep \/ AppStep
  PROVE  IInv'
<1>1. Callers = Threads \cup {W} /\ W \notin Threads /\ NoThread \notin Callers
  BY ThreadsAssumption DEF Callers
<1>2. \A t \in Threads : pc'[t] = pc[t]
  BY LoopFrame
<1> USE <1>1, <1>2 DEF IInv, Goto, callVars, config, counters, locks, queue, tasks,
        Unaffected
<1>3. CASE Launch
  <2>1. (Called /\ SelfCalls /\ Framed)'
    BY <1>3 DEF Launch, CallPcs, TypeOK, Called, SelfCalls, Framed
  <2>2. (Phases /\ KillOwner /\ Dead)'
    BY <1>3 DEF Launch, Beginning, Ending, TypeOK, Framed, Phases, KillOwner, Dead
  <2>3. (Plans /\ Attended /\ Heard /\ Zombies)'
    BY <1>3 DEF Launch, MustDie, Plans, Attended, Heard, Zombies
  <2>4. (ThreadOwner /\ Deserted /\ Defined)'
    BY <1>3 DEF Launch, OwnThread, ThreadOwner, Deserted, Defined
  <2>5. (Told /\ Answered)'
    BY <1>3 DEF Launch, Down, MustDie, IsGuest, Told, Answered
  <2> QED BY <2>1, <2>2, <2>3, <2>4, <2>5
<1>4. CASE OnStartReturns
  <2>1. (Called /\ SelfCalls /\ Framed)'
    BY <1>4 DEF OnStartReturns, CallPcs, TypeOK, Called, SelfCalls, Framed
  <2>2. (Phases /\ KillOwner /\ Dead)'
    BY <1>4 DEF OnStartReturns, Beginning, Ending, TypeOK, Framed, Phases,
       KillOwner, Dead
  <2>3. (Plans /\ Attended /\ Heard /\ Zombies)'
    BY <1>4 DEF OnStartReturns, MustDie, Plans, Attended, Heard, Zombies
  <2>4. (ThreadOwner /\ Deserted /\ Defined)'
    BY <1>4 DEF OnStartReturns, Beginning, Ending, OwnThread, Phases, Dead,
       ThreadOwner, Deserted, Defined
  <2>5. Told'
    BY <1>4 DEF OnStartReturns, Told
  <2>6. Answered'
    BY <1>4 DEF OnStartReturns, Beginning, Down, MustDie, IsGuest, TypeOK,
       LifeInstructions, Phases, Answered
  <2> QED BY <2>1, <2>2, <2>3, <2>4, <2>5, <2>6
<1>5. CASE Install
  <2>1. (Called /\ SelfCalls /\ Framed)'
    BY <1>5 DEF Install, HandlersArmed, CallPcs, Called, SelfCalls, Framed
  <2>2. (Phases /\ KillOwner /\ Dead)'
    BY <1>5 DEF Install, HandlersArmed, Beginning, Ending, TypeOK, Framed, Phases,
       KillOwner, Dead
  <2>3. (Plans /\ Attended /\ Heard /\ Zombies)'
    BY <1>5 DEF Install, HandlersArmed, MustDie, Plans, Attended, Heard, Zombies
  <2>4. (ThreadOwner /\ Deserted /\ Defined)'
    BY <1>5 DEF Install, HandlersArmed, OwnThread, ThreadOwner, Deserted, Defined
  <2>5. (Told /\ Answered)'
    BY <1>5 DEF Install, HandlersArmed, Down, MustDie, IsGuest, Told, Answered
  <2> QED BY <2>1, <2>2, <2>3, <2>4, <2>5
<1>6. CASE MainKill
  <2>1. (Called /\ SelfCalls /\ Framed)'
    BY <1>6 DEF MainKill, TakeKill, Detach, OwnThread, CallPcs, Called, SelfCalls,
       Framed
  <2>2. (Phases /\ KillOwner /\ Dead)'
    BY <1>6 DEF MainKill, TakeKill, Detach, OwnThread, Beginning, Ending, TypeOK,
       Framed, Phases, KillOwner, Dead
  <2>3. (Plans /\ Attended /\ Heard /\ Zombies)'
    BY <1>6 DEF MainKill, TakeKill, Detach, OwnThread, MustDie, KillOwner, Plans,
       Attended, Heard, Zombies
  <2>4. (ThreadOwner /\ Deserted /\ Defined)'
    BY <1>6 DEF MainKill, TakeKill, Detach, OwnThread, KillOwner, Plans,
       ThreadOwner, Deserted, Defined
  <2>5. (Told /\ Answered)'
    BY <1>6 DEF MainKill, TakeKill, Detach, OwnThread, Down, MustDie, IsGuest,
       Framed, Told, Answered
  <2> QED BY <2>1, <2>2, <2>3, <2>4, <2>5
<1>7. CASE RunListener
  <2>1. (Called /\ SelfCalls /\ Framed)'
    BY <1>7 DEF RunListener, CallPcs, Called, SelfCalls, Framed
  <2>2. (Phases /\ KillOwner /\ Dead)'
    BY <1>7 DEF RunListener, Beginning, Ending, Phases, KillOwner, Dead
  <2>3. (Plans /\ Attended /\ Heard /\ Zombies)'
    BY <1>7 DEF RunListener, MustDie, Plans, Attended, Heard, Zombies
  <2>4. (ThreadOwner /\ Deserted /\ Defined)'
    BY <1>7 DEF RunListener, OwnThread, ThreadOwner, Deserted, Defined
  <2>5. (Told /\ Answered)'
    BY <1>7 DEF RunListener, Down, MustDie, IsGuest, Told, Answered
  <2> QED BY <2>1, <2>2, <2>3, <2>4, <2>5
<1>8. CASE TakeWishes
  <2>1. (Called /\ SelfCalls /\ Framed)'
    BY <1>8 DEF TakeWishes, MustDie, ReadBeep, CallPcs, Called, SelfCalls, Framed
  <2>2. (Phases /\ KillOwner /\ Dead)'
    BY <1>8 DEF TakeWishes, MustDie, ReadBeep, Beginning, Ending, SelfCalls, Framed,
       Phases, KillOwner, Dead
  <2>3. (Plans /\ Attended /\ Heard /\ Zombies)'
    BY <1>8 DEF TakeWishes, MustDie, ReadBeep, Plans, Attended, Heard, Zombies
  <2>4. (ThreadOwner /\ Deserted /\ Defined)'
    BY <1>8 DEF TakeWishes, MustDie, ReadBeep, OwnThread, ThreadOwner, Deserted,
       Defined
  <2>5. (Told /\ Answered)'
    BY <1>8 DEF TakeWishes, MustDie, ReadBeep, Down, IsGuest, Told, Answered
  <2> QED BY <2>1, <2>2, <2>3, <2>4, <2>5
<1>9. CASE ReadPlan
  <2>1. (Called /\ SelfCalls /\ Framed)'
    BY <1>9 DEF ReadPlan, MustDie, ReadBeep, CallPcs, Called, SelfCalls, Framed
  <2>2. (Phases /\ KillOwner /\ Dead)'
    BY <1>9 DEF ReadPlan, MustDie, ReadBeep, Beginning, Ending, Phases, KillOwner,
       Dead
  <2>3. (Plans /\ Attended /\ Heard /\ Zombies)'
    BY <1>9 DEF ReadPlan, MustDie, ReadBeep, TypeOK, Plans, Attended, Heard, Zombies
  <2>4. (ThreadOwner /\ Deserted /\ Defined)'
    BY <1>9 DEF ReadPlan, MustDie, ReadBeep, OwnThread, ThreadOwner, Deserted,
       Defined
  <2>5. (Told /\ Answered)'
    BY <1>9 DEF ReadPlan, MustDie, ReadBeep, Down, IsGuest, Told, Answered
  <2> QED BY <2>1, <2>2, <2>3, <2>4, <2>5
<1>10. CASE Die
  <2>1. (Called /\ SelfCalls /\ Framed)'
    BY <1>10 DEF Die, TakeKill, JobsCleared, HandlersCleared, CallPcs, Called,
       SelfCalls, Framed
  <2>2. (Phases /\ KillOwner /\ Dead)'
    BY <1>10 DEF Die, TakeKill, JobsCleared, HandlersCleared, Beginning, Ending,
       TypeOK, Framed, Phases, KillOwner, Dead
  <2>3. (Plans /\ Attended /\ Heard /\ Zombies)'
    BY <1>10 DEF Die, TakeKill, JobsCleared, HandlersCleared, MustDie, Plans,
       Attended, Heard, Zombies
  <2>4. (ThreadOwner /\ Deserted /\ Defined)'
    BY <1>10 DEF Die, TakeKill, JobsCleared, HandlersCleared, OwnThread, KillOwner,
       ThreadOwner, Deserted, Defined
  <2>5. (Told /\ Answered)'
    BY <1>10 DEF Die, TakeKill, JobsCleared, HandlersCleared, Ending, Down, IsGuest,
       Phases, Dead, Plans, Told, Answered
  <2> QED BY <2>1, <2>2, <2>3, <2>4, <2>5
<1>11. CASE Rearm
  <2>1. (Called /\ SelfCalls /\ Framed)'
    BY <1>11 DEF Rearm, Resume, Back, CallPcs, Called, SelfCalls, Framed
  <2>2. (Phases /\ KillOwner /\ Dead)'
    BY <1>11 DEF Rearm, Resume, Back, Beginning, Ending, SelfCalls, Framed, Phases,
       KillOwner, Dead
  <2>3. (Plans /\ Attended /\ Heard /\ Zombies)'
    BY <1>11 DEF Rearm, Resume, Back, MustDie, Plans, Attended, Heard, Zombies
  <2>4. (ThreadOwner /\ Deserted /\ Defined)'
    BY <1>11 DEF Rearm, Resume, Back, OwnThread, ThreadOwner, Deserted, Defined
  <2>5. (Told /\ Answered)'
    BY <1>11 DEF Rearm, Resume, Back, Down, MustDie, IsGuest, Told, Answered
  <2> QED BY <2>1, <2>2, <2>3, <2>4, <2>5
<1>12. CASE RunShutdown
  <2>1. (Called /\ SelfCalls /\ Framed)'
    BY <1>12 DEF RunShutdown, CallPcs, TypeOK, Called, SelfCalls, Framed
  <2>2. (Phases /\ KillOwner /\ Dead)'
    BY <1>12 DEF RunShutdown, Beginning, Ending, TypeOK, Phases, KillOwner, Dead
  <2>3. (Plans /\ Attended /\ Heard /\ Zombies)'
    BY <1>12 DEF RunShutdown, MustDie, TypeOK, Plans, Attended, Heard, Zombies
  <2>4. (ThreadOwner /\ Deserted /\ Defined)'
    BY <1>12 DEF RunShutdown, OwnThread, TypeOK, ThreadOwner, Deserted, Defined
  <2>5. (Told /\ Answered)'
    BY <1>12 DEF RunShutdown, Down, MustDie, IsGuest, TypeOK, Told, Answered
  <2> QED BY <2>1, <2>2, <2>3, <2>4, <2>5
<1>13. CASE UnattendedShutdown
  <2>1. (Called /\ SelfCalls /\ Framed)'
    BY <1>13 DEF UnattendedShutdown, TakeKill, JobsCleared, Detach, Condemned,
       OwnThread, CallPcs, Called, SelfCalls, Framed
  <2>2. (Phases /\ KillOwner /\ Dead)'
    BY <1>13 DEF UnattendedShutdown, TakeKill, JobsCleared, Detach, Condemned,
       OwnThread, Beginning, Ending, TypeOK, Phases, KillOwner, Dead
  <2>3. (Plans /\ Attended /\ Heard /\ Zombies)'
    BY <1>13 DEF UnattendedShutdown, TakeKill, JobsCleared, Detach, Condemned,
       OwnThread, MustDie, KillOwner, Plans, Attended, Heard, Zombies
  <2>4. (ThreadOwner /\ Deserted /\ Defined)'
    BY <1>13 DEF UnattendedShutdown, TakeKill, JobsCleared, Detach, Condemned,
       OwnThread, KillOwner, Plans, ThreadOwner, Deserted, Defined
  <2>5. (Told /\ Answered)'
    BY <1>13 DEF UnattendedShutdown, TakeKill, JobsCleared, Detach, Condemned,
       OwnThread, Down, MustDie, IsGuest, Phases, Dead, Told, Answered
  <2> QED BY <2>1, <2>2, <2>3, <2>4, <2>5
<1>14. CASE AttendedShutdown
  <2>1. (Called /\ SelfCalls /\ Framed)'
    BY <1>14 DEF AttendedShutdown, TakeKill, CallPcs, Called, SelfCalls, Framed
  <2>2. (Phases /\ KillOwner /\ Dead)'
    BY <1>14 DEF AttendedShutdown, TakeKill, Beginning, Ending, TypeOK, Attended,
       Phases, KillOwner, Dead
  <2>3. (Plans /\ Attended /\ Heard /\ Zombies)'
    BY <1>14 DEF AttendedShutdown, TakeKill, MustDie, Plans, Attended, Heard,
       Zombies
  <2>4. (ThreadOwner /\ Deserted /\ Defined)'
    BY <1>14 DEF AttendedShutdown, TakeKill, OwnThread, ThreadOwner, Deserted,
       Defined
  <2>5. (Told /\ Answered)'
    BY <1>14 DEF AttendedShutdown, TakeKill, Down, MustDie, IsGuest, Phases, Told,
       Answered
  <2> QED BY <2>1, <2>2, <2>3, <2>4, <2>5
<1>15. CASE ClearWishes
  <2>1. (Called /\ SelfCalls /\ Framed)'
    BY <1>15 DEF ClearWishes, CallPcs, Called, SelfCalls, Framed
  <2>2. (Phases /\ KillOwner /\ Dead)'
    BY <1>15 DEF ClearWishes, Beginning, Ending, Phases, KillOwner, Dead
  <2>3. (Plans /\ Attended /\ Heard /\ Zombies)'
    BY <1>15 DEF ClearWishes, MustDie, Plans, Attended, Heard, Zombies
  <2>4. (ThreadOwner /\ Deserted /\ Defined)'
    BY <1>15 DEF ClearWishes, OwnThread, ThreadOwner, Deserted, Defined
  <2>5. (Told /\ Answered)'
    BY <1>15 DEF ClearWishes, Down, MustDie, IsGuest, Told, Answered
  <2> QED BY <2>1, <2>2, <2>3, <2>4, <2>5
<1>16. CASE SelfAsynch
  <2>1. (Called /\ SelfCalls /\ Framed)'
    BY <1>16 DEF SelfAsynch, SelfCleared, JobsCleared, CallPcs, Called, SelfCalls,
       Framed
  <2>2. (Phases /\ KillOwner /\ Dead)'
    BY <1>16 DEF SelfAsynch, SelfCleared, JobsCleared, Beginning, Ending, SelfCalls,
       Phases, KillOwner, Dead
  <2>3. (Plans /\ Attended /\ Heard /\ Zombies)'
    BY <1>16 DEF SelfAsynch, SelfCleared, JobsCleared, MustDie, TypeOK, Called,
       KillOwner, Plans, Attended, Heard, Zombies
  <2>4. (ThreadOwner /\ Deserted /\ Defined)'
    BY <1>16 DEF SelfAsynch, SelfCleared, JobsCleared, Beginning, Ending, OwnThread,
       SelfCalls, Phases, Plans, ThreadOwner, Deserted, Defined
  <2>5. (Told /\ Answered)'
    BY <1>16 DEF SelfAsynch, SelfCleared, JobsCleared, Down, MustDie, IsGuest, Told,
       Answered
  <2> QED BY <2>1, <2>2, <2>3, <2>4, <2>5
<1>17. CASE SelfUnlock
  <2>1. (Called /\ SelfCalls /\ Framed)'
    BY <1>17 DEF SelfUnlock, CallPcs, Called, SelfCalls, Framed
  <2>2. (Phases /\ KillOwner /\ Dead)'
    BY <1>17 DEF SelfUnlock, Beginning, Ending, TypeOK, Late, GoodbyeIsLate, ByePcs,
       Phases, KillOwner, Dead
  <2>3. (Plans /\ Attended /\ Heard /\ Zombies)'
    BY <1>17 DEF SelfUnlock, MustDie, Called, Plans, Attended, Heard, Zombies
  <2>4. (ThreadOwner /\ Deserted /\ Defined)'
    BY <1>17 DEF SelfUnlock, OwnThread, KillOwner, ThreadOwner, Deserted, Defined
  <2>5. (Told /\ Answered)'
    BY <1>17 DEF SelfUnlock, Down, MustDie, IsGuest, Told, Answered
  <2> QED BY <2>1, <2>2, <2>3, <2>4, <2>5
<1>18. CASE SelfEnd
  <2>1. (Called /\ SelfCalls /\ Framed)'
    BY <1>18 DEF SelfEnd, HandlersCleared, SelfCleared, JobsCleared, CallPcs,
       Called, SelfCalls, Framed
  <2>2. (Phases /\ KillOwner /\ Dead)'
    BY <1>18 DEF SelfEnd, HandlersCleared, SelfCleared, JobsCleared, Beginning,
       Ending, TypeOK, Framed, Phases, KillOwner, Dead
  <2>3. (Plans /\ Attended /\ Heard /\ Zombies)'
    BY <1>18 DEF SelfEnd, HandlersCleared, SelfCleared, JobsCleared, MustDie, Plans,
       Attended, Heard, Zombies
  <2>4. (ThreadOwner /\ Deserted /\ Defined)'
    BY <1>18 DEF SelfEnd, HandlersCleared, SelfCleared, JobsCleared, OwnThread,
       ThreadOwner, Deserted, Defined
  <2>5. Told'
    BY <1>18 DEF SelfEnd, HandlersCleared, SelfCleared, JobsCleared, Told
  <2>6. Answered'
    BY <1>18 DEF SelfEnd, HandlersCleared, SelfCleared, JobsCleared, Ending,
       IsGuest, DestroyOps, WaitingOps, Called, SelfCalls, Phases, Plans, Answered
  <2> QED BY <2>1, <2>2, <2>3, <2>4, <2>5, <2>6
<1>19. CASE SelfGreen
  <2>1. (Called /\ SelfCalls /\ Framed)'
    BY <1>19 DEF SelfGreen, AfterDeath, Back, LessRed, CallPcs, Called, SelfCalls,
       Framed
  <2>2. (Phases /\ KillOwner /\ Dead)'
    BY <1>19 DEF SelfGreen, AfterDeath, Back, LessRed, Beginning, Ending, SelfCalls,
       Phases, KillOwner, Dead
  <2>3. (Plans /\ Attended /\ Heard /\ Zombies)'
    BY <1>19 DEF SelfGreen, AfterDeath, Back, LessRed, MustDie, Plans, Attended,
       Heard, Zombies
  <2>4. (ThreadOwner /\ Deserted /\ Defined)'
    BY <1>19 DEF SelfGreen, AfterDeath, Back, LessRed, OwnThread, ThreadOwner,
       Deserted, Defined
  <2>5. (Told /\ Answered)'
    BY <1>19 DEF SelfGreen, AfterDeath, Back, LessRed, Down, MustDie, IsGuest, Told,
       Answered
  <2> QED BY <2>1, <2>2, <2>3, <2>4, <2>5
<1>20. CASE SayBye
  <2>1. (Called /\ SelfCalls /\ Framed)'
    BY <1>20 DEF SayBye, Called, SelfCalls, Framed
  <2>2. (Phases /\ KillOwner /\ Dead)'
    BY <1>20 DEF SayBye, Beginning, Ending, Phases, KillOwner, Dead
  <2>3. (Plans /\ Attended /\ Heard /\ Zombies)'
    BY <1>20 DEF SayBye, MustDie, Plans, Attended, Heard, Zombies
  <2>4. (ThreadOwner /\ Deserted /\ Defined)'
    BY <1>20 DEF SayBye, OwnThread, ThreadOwner, Deserted, Defined
  <2>5. (Told /\ Answered)'
    BY <1>20 DEF SayBye, Down, MustDie, IsGuest, Told, Answered
  <2> QED BY <2>1, <2>2, <2>3, <2>4, <2>5
<1>21. CASE Terminate
  <2>1. (Called /\ SelfCalls /\ Framed)'
    BY <1>21 DEF Terminate, AfterDeath, Back, CallPcs, Called, SelfCalls, Framed
  <2>2. (Phases /\ KillOwner /\ Dead)'
    BY <1>21 DEF Terminate, AfterDeath, Back, Beginning, Ending, TypeOK, Phases,
       KillOwner, Dead
  <2>3. (Plans /\ Attended /\ Heard /\ Zombies)'
    BY <1>21 DEF Terminate, AfterDeath, Back, Ending, MustDie, Phases, KillOwner,
       Plans, Attended, Heard, Zombies
  <2>4. (ThreadOwner /\ Deserted /\ Defined)'
    BY <1>21 DEF Terminate, AfterDeath, Back, OwnThread, Late, CondemnedFirst,
       ThreadOwner, Deserted, Defined
  <2>5. (Told /\ Answered)'
    BY <1>21 DEF Terminate, AfterDeath, Back, Down, MustDie, IsGuest, Told, Answered
  <2> QED BY <2>1, <2>2, <2>3, <2>4, <2>5
<1>22. CASE Dispose
  <2>1. (Called /\ SelfCalls /\ Framed)'
    BY <1>22 DEF Dispose, SayReturned, CallPcs, Called, SelfCalls, Framed
  <2>2. (Phases /\ KillOwner /\ Dead)'
    BY <1>22 DEF Dispose, SayReturned, Beginning, Ending, Phases, KillOwner, Dead
  <2>3. (Plans /\ Attended /\ Heard /\ Zombies)'
    BY <1>22 DEF Dispose, SayReturned, MustDie, Plans, Attended, Heard, Zombies
  <2>4. (ThreadOwner /\ Deserted /\ Defined)'
    BY <1>22 DEF Dispose, SayReturned, OwnThread, ThreadOwner, Deserted, Defined
  <2>5. (Told /\ Answered)'
    BY <1>22 DEF Dispose, SayReturned, Down, MustDie, IsGuest, Told, Answered
  <2> QED BY <2>1, <2>2, <2>3, <2>4, <2>5
<1>23. CASE DisposeWait
  <2>1. (Called /\ SelfCalls /\ Framed)'
    BY <1>23 DEF DisposeWait, IsDisposable, CallPcs, Called, SelfCalls, Framed
  <2>2. (Phases /\ KillOwner /\ Dead)'
    BY <1>23 DEF DisposeWait, IsDisposable, Beginning, Ending, TypeOK, Phases,
       KillOwner, Dead
  <2>3. (Plans /\ Attended /\ Heard /\ Zombies)'
    BY <1>23 DEF DisposeWait, IsDisposable, MustDie, Plans, Attended, Heard, Zombies
  <2>4. ThreadOwner'
    BY <1>23 DEF DisposeWait, IsDisposable, OwnThread, ThreadOwner
  <2>5. Deserted'
    BY <1>23, NobodyIsRed DEF DisposeWait, IsDisposable, Red, CallPcs, TypeOK,
       Deserted
  <2>6. Defined'
    BY <1>23 DEF DisposeWait, IsDisposable, Defined
  <2>7. (Told /\ Answered)'
    BY <1>23 DEF DisposeWait, IsDisposable, Down, MustDie, IsGuest, Told, Answered
  <2> QED BY <2>1, <2>2, <2>3, <2>4, <2>5, <2>6, <2>7
<1>24. CASE Free
  <2>1. (Called /\ SelfCalls /\ Framed)'
    BY <1>24 DEF Free, Back, CallPcs, Called, SelfCalls, Framed
  <2>2. (Phases /\ KillOwner /\ Dead)'
    BY <1>24 DEF Free, Back, Beginning, Ending, TypeOK, Phases, KillOwner, Dead
  <2>3. (Plans /\ Attended /\ Heard /\ Zombies)'
    BY <1>24 DEF Free, Back, MustDie, Deserted, Plans, Attended, Heard, Zombies
  <2>4. (ThreadOwner /\ Deserted /\ Defined)'
    BY <1>24 DEF Free, Back, OwnThread, KillOwner, Dead, ThreadOwner, Deserted,
       Defined
  <2>5. (Told /\ Answered)'
    BY <1>24 DEF Free, Back, Down, MustDie, IsGuest, Told, Answered
  <2> QED BY <2>1, <2>2, <2>3, <2>4, <2>5
<1>25. CASE ShutdownScheduler
  <2>1. (Called /\ SelfCalls /\ Framed)'
    BY <1>25 DEF ShutdownScheduler, ShutDown, Back, CallPcs, Called, SelfCalls,
       Framed
  <2>2. (Phases /\ KillOwner /\ Dead)'
    BY <1>25 DEF ShutdownScheduler, ShutDown, Back, Beginning, Ending, TypeOK,
       Phases, KillOwner, Dead
  <2>3. (Plans /\ Attended /\ Heard /\ Zombies)'
    BY <1>25 DEF ShutdownScheduler, ShutDown, Back, MustDie, Plans, Attended, Heard,
       Zombies
  <2>4. (ThreadOwner /\ Deserted /\ Defined)'
    BY <1>25 DEF ShutdownScheduler, ShutDown, Back, OwnThread, ThreadOwner,
       Deserted, Defined
  <2>5. Told'
    BY <1>25 DEF ShutdownScheduler, ShutDown, Back, Told
  <2>6. Answered'
    BY <1>25 DEF ShutdownScheduler, ShutDown, Back, Down, MustDie, IsGuest, Answered
  <2> QED BY <2>1, <2>2, <2>3, <2>4, <2>5, <2>6
<1>26. CASE AutoShutdown
  <2>1. (Called /\ SelfCalls /\ Framed)'
    BY <1>26 DEF AutoShutdown, ShutDown, OutOfTasks, Called, SelfCalls, Framed
  <2>2. (Phases /\ KillOwner /\ Dead)'
    BY <1>26 DEF AutoShutdown, ShutDown, OutOfTasks, Beginning, Ending, Phases,
       KillOwner, Dead
  <2>3. (Plans /\ Attended /\ Heard /\ Zombies)'
    BY <1>26 DEF AutoShutdown, ShutDown, OutOfTasks, MustDie, Plans, Attended,
       Heard, Zombies
  <2>4. (ThreadOwner /\ Deserted /\ Defined)'
    BY <1>26 DEF AutoShutdown, ShutDown, OutOfTasks, OwnThread, ThreadOwner,
       Deserted, Defined
  <2>5. (Told /\ Answered)'
    BY <1>26 DEF AutoShutdown, ShutDown, OutOfTasks, Down, MustDie, IsGuest, Told,
       Answered
  <2> QED BY <2>1, <2>2, <2>3, <2>4, <2>5
<1>27. CASE RunJob
  <2>1. (Called /\ SelfCalls /\ Framed)'
    BY <1>27 DEF RunJob, CallPcs, TypeOK, Called, SelfCalls, Framed
  <2>2. (Phases /\ KillOwner /\ Dead)'
    BY <1>27 DEF RunJob, Beginning, Ending, Framed, Phases, KillOwner, Dead
  <2>3. (Plans /\ Attended /\ Heard /\ Zombies)'
    BY <1>27 DEF RunJob, MustDie, Plans, Attended, Heard, Zombies
  <2>4. (ThreadOwner /\ Deserted /\ Defined)'
    BY <1>27 DEF RunJob, Ending, OwnThread, Phases, Dead, ThreadOwner, Deserted,
       Defined
  <2>5. (Told /\ Answered)'
    BY <1>27 DEF RunJob, Down, MustDie, IsGuest, Told, Answered
  <2> QED BY <2>1, <2>2, <2>3, <2>4, <2>5
<1>28. CASE FrameReturns
  <2>1. (Called /\ SelfCalls /\ Framed)'
    BY <1>28 DEF FrameReturns, CallPcs, TypeOK, Answer, Called, SelfCalls, Framed
  <2>2. (Phases /\ KillOwner /\ Dead)'
    BY <1>28 DEF FrameReturns, Beginning, Ending, Phases, KillOwner, Dead
  <2>3. (Plans /\ Attended /\ Heard /\ Zombies)'
    BY <1>28 DEF FrameReturns, MustDie, Plans, Attended, Heard, Zombies
  <2>4. (ThreadOwner /\ Deserted /\ Defined)'
    BY <1>28 DEF FrameReturns, OwnThread, ThreadOwner, Deserted, Defined
  <2>5. (Told /\ Answered)'
    BY <1>28 DEF FrameReturns, Down, MustDie, IsGuest, Told, Answered
  <2> QED BY <2>1, <2>2, <2>3, <2>4, <2>5
<1>29. CASE TaskEnds("stopping")
  <2>1. (Called /\ SelfCalls /\ Framed)'
    BY <1>29 DEF TaskEnds, Called, SelfCalls, Framed
  <2>2. (Phases /\ KillOwner /\ Dead)'
    BY <1>29 DEF TaskEnds, Beginning, Ending, Phases, KillOwner, Dead
  <2>3. (Plans /\ Attended /\ Heard /\ Zombies)'
    BY <1>29 DEF TaskEnds, MustDie, Plans, Attended, Heard, Zombies
  <2>4. (ThreadOwner /\ Deserted /\ Defined)'
    BY <1>29 DEF TaskEnds, OwnThread, ThreadOwner, Deserted, Defined
  <2>5. (Told /\ Answered)'
    BY <1>29 DEF TaskEnds, Down, MustDie, IsGuest, Told, Answered
  <2> QED BY <2>1, <2>2, <2>3, <2>4, <2>5
<1>30. CASE SchedulerReturns
  <2>1. (Called /\ SelfCalls /\ Framed)'
    BY <1>30 DEF SchedulerReturns, OutOfTasks, CallPcs, Called, SelfCalls, Framed
  <2>2. (Phases /\ KillOwner /\ Dead)'
    BY <1>30 DEF SchedulerReturns, OutOfTasks, Beginning, Ending, SelfCalls, Framed,
       Phases, KillOwner, Dead
  <2>3. (Plans /\ Attended /\ Heard /\ Zombies)'
    BY <1>30 DEF SchedulerReturns, OutOfTasks, MustDie, Plans, Attended, Heard,
       Zombies
  <2>4. (ThreadOwner /\ Deserted /\ Defined)'
    BY <1>30 DEF SchedulerReturns, OutOfTasks, OwnThread, ThreadOwner, Deserted,
       Defined
  <2>5. (Told /\ Answered)'
    BY <1>30 DEF SchedulerReturns, OutOfTasks, Beginning, Ending, Down, MustDie,
       TypeOK, SelfCalls, Framed, Phases, Told, Answered
  <2> QED BY <2>1, <2>2, <2>3, <2>4, <2>5
<1>31. CASE UserShutdown
  <2>1. (Called /\ SelfCalls /\ Framed)'
    BY <1>31 DEF UserShutdown, ShutDown, Called, SelfCalls, Framed
  <2>2. (Phases /\ KillOwner /\ Dead)'
    BY <1>31 DEF UserShutdown, ShutDown, Beginning, Ending, TypeOK, Phases,
       KillOwner, Dead
  <2>3. (Plans /\ Attended /\ Heard /\ Zombies)'
    BY <1>31 DEF UserShutdown, ShutDown, MustDie, Plans, Attended, Heard, Zombies
  <2>4. (ThreadOwner /\ Deserted /\ Defined)'
    BY <1>31 DEF UserShutdown, ShutDown, OwnThread, ThreadOwner, Deserted, Defined
  <2>5. (Told /\ Answered)'
    BY <1>31 DEF UserShutdown, ShutDown, Down, MustDie, IsGuest, Told, Answered
  <2> QED BY <2>1, <2>2, <2>3, <2>4, <2>5
<1>32. CASE RunTask
  <2>1. (Called /\ SelfCalls /\ Framed)'
    BY <1>32 DEF RunTask, CallPcs, TypeOK, Called, SelfCalls, Framed
  <2>2. (Phases /\ KillOwner /\ Dead)'
    BY <1>32 DEF RunTask, Beginning, Ending, Framed, Phases, KillOwner, Dead
  <2>3. (Plans /\ Attended /\ Heard /\ Zombies)'
    BY <1>32 DEF RunTask, MustDie, Plans, Attended, Heard, Zombies
  <2>4. (ThreadOwner /\ Deserted /\ Defined)'
    BY <1>32 DEF RunTask, OwnThread, ThreadOwner, Deserted, Defined
  <2>5. (Told /\ Answered)'
    BY <1>32 DEF RunTask, Down, MustDie, IsGuest, Told, Answered
  <2> QED BY <2>1, <2>2, <2>3, <2>4, <2>5
<1>33. CASE TaskEnds("running")
  <2>1. (Called /\ SelfCalls /\ Framed)'
    BY <1>33 DEF TaskEnds, Called, SelfCalls, Framed
  <2>2. (Phases /\ KillOwner /\ Dead)'
    BY <1>33 DEF TaskEnds, Beginning, Ending, Phases, KillOwner, Dead
  <2>3. (Plans /\ Attended /\ Heard /\ Zombies)'
    BY <1>33 DEF TaskEnds, MustDie, Plans, Attended, Heard, Zombies
  <2>4. (ThreadOwner /\ Deserted /\ Defined)'
    BY <1>33 DEF TaskEnds, OwnThread, ThreadOwner, Deserted, Defined
  <2>5. (Told /\ Answered)'
    BY <1>33 DEF TaskEnds, Down, MustDie, IsGuest, Told, Answered
  <2> QED BY <2>1, <2>2, <2>3, <2>4, <2>5
<1> QED
  BY <1>3, <1>4, <1>5, <1>6, <1>7, <1>8, <1>9, <1>10, <1>11, <1>12, <1>13,
     <1>14, <1>15, <1>16, <1>17, <1>18, <1>19, <1>20, <1>21, <1>22, <1>23, <1>24,
     <1>25, <1>26, <1>27, <1>28, <1>29, <1>30, <1>31, <1>32, <1>33 DEF LoopStep, AppStep

(***************************************************************************)
(* The invariant                                                           *)
(***************************************************************************)
\* A worker just allocated satisfies the invariant.
LEMMA InvInit == Orderly /\ Init => IInv
<1> SUFFICES ASSUME Init PROVE IInv
  OBVIOUS
<1>1. Callers = Threads \cup {W} /\ W \notin Threads /\ NoThread \notin Callers
  BY ThreadsAssumption DEF Callers
<1>2. /\ \A t \in Threads : pc[t] = "idle"
      /\ pc[W] \in {"install", "launch"} /\ (serving <=> pc[W] = "install")
      /\ \A c \in Callers : op[c] = "none" /\ ret[c] = "none"
  BY <1>1 DEF Init
<1>3. Called /\ SelfCalls /\ Framed
  BY <1>1, <1>2 DEF Init, Called, SelfCalls, Framed, CallPcs, DestroyOps
<1>4. Phases /\ KillOwner /\ Dead
  BY <1>1, <1>2 DEF Init, Phases, Beginning, Ending, KillOwner, Dead
<1>5. Plans /\ Attended /\ Heard /\ Zombies
  BY <1>1, <1>2 DEF Init, Plans, Attended, Heard, Zombies, MustDie
<1>6. ThreadOwner /\ Deserted /\ Told /\ Answered /\ Defined
  BY <1>1, <1>2 DEF Init, ThreadOwner, Deserted, Told, Answered, Defined, MustDie
<1> QED BY <1>3, <1>4, <1>5, <1>6 DEF IInv

\* Every step keeps it.
LEMMA InvStep ==
  ASSUME Orderly
  PROVE  Known /\ IInv /\ [Next]_vars => IInv'
<1> SUFFICES ASSUME Known, IInv, [Next]_vars PROVE IInv'
  OBVIOUS
<1> USE DEF Known, Typed
<1>1. CASE Running /\ \E c \in Callers : ApiStep(c)
  BY <1>1, CallInv, CallStepInv DEF ApiStep, Running
<1>2. CASE Running /\ (LoopStep \/ AppStep)
  BY <1>2, LoopInv DEF Running
<1>3. CASE UNCHANGED vars
  <2> USE <1>3 DEF vars, config, locks, queue, tasks, counters
  <2>1. (Called /\ SelfCalls /\ Framed)'
    BY DEF IInv, Called, SelfCalls, Framed, CalledFrom
  <2>2. (Phases /\ KillOwner /\ Dead)'
    BY DEF IInv, Phases, Beginning, Ending, KillOwner, Dead
  <2>3. (Plans /\ Attended /\ Heard /\ Zombies)'
    BY DEF IInv, Plans, Attended, Heard, Zombies, MustDie
  <2>4. (ThreadOwner /\ Deserted /\ Told /\ Answered /\ Defined)'
    BY DEF IInv, ThreadOwner, Deserted, Told, Answered, Down, Defined, MustDie,
       OwnThread, IsGuest
  <2> QED BY <2>1, <2>2, <2>3, <2>4 DEF IInv
<1> QED BY <1>1, <1>2, <1>3 DEF Next

\* The invariant holds of every worker that is used in an orderly way.
LEMMA Invariant ==
  ASSUME Orderly
  PROVE  Spec => [](Known /\ IInv)
<1>1. Init => Known /\ IInv
  BY KnownInit, InvInit
<1>2. Known /\ IInv /\ [Next]_vars => (Known /\ IInv)'
  BY KnownStep, InvStep
<1> QED BY <1>1, <1>2, PTL DEF Spec

(***************************************************************************)
(* What follows from it                                                    *)
(***************************************************************************)
\* From its death to its disposal a worker has its kill_mutex locked by its own thread:
\* no destroyer gets hold of an instance that is about to be freed.
THEOREM KillMutexIsKept ==
  ASSUME Orderly
  PROVE  Spec => []KillIsKept
<1>1. IInv => KillIsKept
  BY DEF IInv, KillOwner, KillIsKept
<1> QED BY <1>1, Invariant, PTL

\* The worker thread never locks a kill_mutex it holds already, in whatever handler or
\* user code it is.
THEOREM NeverLocksTwice ==
  ASSUME Orderly
  PROVE  Spec => []NoSelfLock
<1>1. Known /\ IInv => NoSelfLock
  BY DEF IInv, KillOwner, SelfCalls, Phases, Beginning, Ending, Dead, NoSelfLock
<1> QED BY <1>1, Invariant, PTL

\* The worker thread, in load_request_handler(), and a destroyer that makes a plan never
\* wait for each other's mutex.
THEOREM NeverCrossed ==
  ASSUME Orderly
  PROVE  Spec => []NoLockCycle
<1>1. IInv => NoLockCycle
  BY DEF IInv, Plans, NoLockCycle, Callers
<1> QED BY <1>1, Invariant, PTL

\* The event loop is never cut off under a worker: scheduler_launcher() does not abort.
THEOREM NeverAborts ==
  ASSUME Orderly
  PROVE  Spec => []NoAbort
<1>1. IInv => NoAbort
  BY DEF IInv, Phases, NoAbort
<1> QED BY <1>1, Invariant, PTL

\* The thread of the worker is joined or detached, once, and no call does anything
\* undefined but one that begins when the instance is gone already.
THEOREM ThreadIsReleasedOnce ==
  ASSUME Orderly
  PROVE  Spec => [](ThreadReleased /\ NoUndefinedBehaviour /\ OnlyEntryIsUnsafe)
<1>1. IInv => ThreadReleased
  BY DEF IInv, ThreadOwner, Dead, ThreadReleased
<1>2. IInv => NoUndefinedBehaviour /\ OnlyEntryIsUnsafe
  BY DEF IInv, Defined, NoUndefinedBehaviour, OnlyEntryIsUnsafe
<1> QED BY <1>1, <1>2, Invariant, PTL

\* No job is left to the scheduler once on_worker_end has returned.
THEOREM JobsEndBeforeTheWorker ==
  ASSUME Orderly
  PROVE  Spec => []NoJobAfterEnd
<1>1. IInv => NoJobAfterEnd
  BY DEF IInv, Phases, Ending, NoJobAfterEnd
<1> QED BY <1>1, Invariant, PTL

\* A plan made by another thread has a beep in the pipe: the armed listener will wake up
\* for it, also when the pipe was full and the plan has made a zombie.
THEOREM ListenersHear ==
  ASSUME Orderly
  PROVE  Spec => []PlanIsHeard
<1>1. Known /\ IInv => PlanIsHeard
  <2> SUFFICES ASSUME TypeOK, IInv, future_plans # "LONG_LIFE", pc[W] = "loop",
                      listener_schedule
               PROVE  beeps > 0
    BY DEF PlanIsHeard, Known, Typed
  <2>1. state # "DEAD" /\ ~bye
    BY DEF IInv, Phases, Ending
  <2>2. kill_mutex # W /\ ~freed
    BY <2>1 DEF IInv, KillOwner, Dead
  <2>3. beeps # 0
    BY <2>2 DEF IInv, Heard, MustDie
  <2> QED BY <2>3, BoundsAssumption DEF TypeOK
<1> QED BY <1>1, Invariant, PTL

\* GNUNET_WORKER_dispose() frees the instance when nobody is inside a call on it.
THEOREM FreedUnderNobody ==
  ASSUME Orderly
  PROVE  Spec => []FreeIsQuiescent
<1>1. IInv => FreeIsQuiescent
  <2> SUFFICES ASSUME IInv, freed, ~entry_gap
               PROVE  ~RedAtTheEnd /\ \A c \in Callers : ~Red(c)
    BY DEF FreeIsQuiescent
  <2>1. ~bye /\ pc[W] \in {"shutdown", "loop", "frame", "exited"}
    BY DEF IInv, Dead
  <2>2. \A t \in Threads : pc[t] \in {"idle", "join", "enter"}
    BY DEF IInv, Deserted
  <2> QED BY <2>1, <2>2 DEF RedAtTheEnd, Red, Callers
<1> QED BY <1>1, Invariant, PTL

\* A caller that is told GNUNET_WORKER_ERR_DOUBLE_FREE finds on_worker_end called already.
THEOREM OnlyTheDeadTellDoubleFree ==
  ASSUME Orderly
  PROVE  Spec => []NoDoubleFreeBeforeEnd
<1>1. IInv => NoDoubleFreeBeforeEnd
  BY DEF IInv, Told, NoDoubleFreeBeforeEnd
<1> QED BY <1>1, Invariant, PTL

\* The synchronous destruction that returns zero returns when the scheduler is down.  With
\* a second destroying call it need not: on a zombie that one answers without waiting.
THEOREM ZeroMeansDown ==
  ASSUME Orderly, MaxDestroys = 1
  PROVE  Spec => []SchedulerIsDown
<1>1. IInv => SchedulerIsDown
  BY DEF IInv, Answered, Down, SchedulerIsDown, SynchMeansDown
<1> QED BY <1>1, Invariant, PTL

\* A dead worker stays dead: no call writes the state it has read before the death.
THEOREM NoResurrection ==
  ASSUME Orderly
  PROVE  Spec => DeadIsFinal
<1>1. Known /\ IInv /\ [Next]_vars => (state = "DEAD" => state' = "DEAD")
  <2> SUFFICES ASSUME Known, IInv, [Next]_vars, state = "DEAD" PROVE state' = "DEAD"
    OBVIOUS
  <2>1. /\ pc[W] \in {"self_green", "dispose", "dispose_wait", "free", "shutdown",
                      "loop", "frame", "exited"}
        /\ \A c \in Callers : pc[c] \notin {"store", "plan", "unlock"}
    <3>1. pc[W] \in {"self_green", "dispose", "dispose_wait", "free", "shutdown",
                     "loop", "frame", "exited"}
      BY DEF IInv, Dead
    <3>2. \A c \in Callers : pc[c] # "store" /\ (c # W => pc[c] # "plan")
      BY DEF IInv, Plans, Callers
    <3>3. \A t \in Threads : pc[t] # "unlock"
      BY ThreadsAssumption DEF IInv, KillOwner, Deserted
    <3> QED BY <3>1, <3>2, <3>3 DEF Callers
  <2>2. CASE \E c \in Callers : ApiStep(c)
    <3>1. PICK c \in Callers : ApiStep(c)
      BY <2>2
    <3>2. CASE (\E o \in Ops : Call(c, o)) \/ Enter(c)
      BY <3>2 DEF Call, Enter, FirstStep
    <3>3. CASE SwitchAlive(c) \/ SwitchGone(c) \/ SwitchZombieOther(c) \/ ZombieBeep(c)
      BY <3>3 DEF SwitchAlive, SwitchGone, SwitchZombieOther, ZombieBeep, Goto
    <3>4. CASE SwitchZombieSelf(c) \/ PushZombieSelf(c)
      BY <3>4 DEF SwitchZombieSelf, PushZombieSelf, Goto
    <3>5. CASE \/ TryLockTaken(c) \/ TryLockRefused(c)
               \/ StoreState(c) \/ Plan(c) \/ Unlock(c)
      BY <2>1, <3>5 DEF TryLockTaken, TryLockRefused, StoreState, Plan, Unlock, Goto
    <3>6. CASE Wait(c) \/ Join(c) \/ JoinTimeout(c) \/ PaintGreen(c)
      BY <3>6 DEF Wait, Join, JoinTimeout, PaintGreen, Goto
    <3>7. CASE PushNoMemory(c) \/ PushSelf(c) \/ PushWish(c)
      BY <3>7 DEF PushNoMemory, PushSelf, PushWish, Goto
    <3> QED BY <3>1, <3>2, <3>3, <3>4, <3>5, <3>6, <3>7 DEF ApiStep, CallStep
  <2>3. CASE LoopStep \/ AppStep
    <3>1. CASE \/ Launch \/ OnStartReturns \/ Install \/ MainKill
               \/ RunListener \/ TakeWishes \/ ReadPlan \/ Die \/ Rearm
      BY <2>1, <3>1 DEF Launch, OnStartReturns, Install, MainKill, RunListener, TakeWishes,
         ReadPlan, Die, Rearm, Unaffected, Goto
    <3>2. CASE \/ RunShutdown \/ UnattendedShutdown \/ AttendedShutdown \/ ClearWishes
               \/ SelfAsynch \/ SelfUnlock \/ SelfEnd \/ SelfGreen \/ SayBye \/ Terminate
      BY <2>1, <3>2 DEF RunShutdown, UnattendedShutdown, AttendedShutdown, ClearWishes,
         SelfAsynch, SelfUnlock, SelfEnd, SelfGreen, SayBye, Terminate, Unaffected, Goto
    <3>3. CASE \/ Dispose \/ DisposeWait \/ Free \/ ShutdownScheduler \/ AutoShutdown
               \/ RunJob \/ FrameReturns \/ SchedulerReturns \/ UserShutdown \/ RunTask
               \/ TaskEnds("running") \/ TaskEnds("stopping")
      BY <2>1, <3>3 DEF Dispose, DisposeWait, Free, ShutdownScheduler, AutoShutdown, RunJob,
         FrameReturns, TaskEnds, SchedulerReturns, UserShutdown, RunTask, Unaffected, Goto
    <3> QED BY <2>3, <3>1, <3>2, <3>3 DEF LoopStep, AppStep
  <2>4. CASE UNCHANGED vars
    BY <2>4 DEF vars
  <2> QED BY <2>2, <2>3, <2>4 DEF Next
<1> QED BY <1>1, Invariant, PTL DEF Spec, DeadIsFinal

=============================================================================
