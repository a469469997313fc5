----------------------------- MODULE WorkerProofs -----------------------------
(***************************************************************************)
(* Theorems about Worker, for every value of its constants.                *)
(***************************************************************************)
EXTENDS Worker, FiniteSetTheorems, TLAPS

(***************************************************************************)
(* Type correctness                                                        *)
(***************************************************************************)

\* The first step of a call keeps every variable in its domain, provided that
\* the call has been counted.
LEMMA FirstStepTypeOK ==
  ASSUME TypeOK, NEW c \in Callers, NEW o \in Ops \cup {"none"}, FirstStep(c, o),
         calls' \in 0..MaxCalls, destroys' \in 0..MaxDestroys,
         op' \in [Callers -> Ops \cup {"none"}]
  PROVE  TypeOK'
<1> USE ThreadsAssumption, BoundsAssumption
<1>1. UNCHANGED <<config, state, locks, worker_thread, loopVars>>
  BY DEF FirstStep
<1>2. CASE freed /\ ub' = "use_after_free" /\ UNCHANGED <<queue, disposable, tasks,
   ret, pc>>
  BY <1>1, <1>2 DEF TypeOK, config, locks, queue, tasks, loopVars, Faults
<1>3. CASE PaintRed(c)
  BY <1>1, <1>3 DEF PaintRed, TypeOK, Callers, CallPcs, config, locks, queue,
     tasks, loopVars
<1>4. CASE PingOther(c)
  BY <1>1, <1>4 DEF PingOther, Caller, Resume, Back, Beep, PipeIsFull, TypeOK,
     Callers, Returns, LoopPcs, config, locks, tasks, loopVars
<1>5. CASE Self(c) /\ PingSelf(c)
  <2>1. pc' \in [Callers -> {"idle"} \cup CallPcs \cup LoopPcs]
    BY <1>5 DEF PingSelf, TypeOK, LoopPcs
  <2>2. \A t \in Threads : pc'[t] = pc[t]
    BY <1>5 DEF PingSelf, Self, TypeOK
  <2>3. ret' \in [Callers -> Returns] /\ listener_schedule' \in BOOLEAN
    BY <1>5 DEF PingSelf, TypeOK, Returns
  <2> QED
    BY <1>1, <1>5, <2>1, <2>2, <2>3 DEF PingSelf, TypeOK, config, locks, queue,
       loopVars
<1> QED BY <1>2, <1>3, <1>4, <1>5 DEF FirstStep

\* A call that begins keeps every variable in its domain.
LEMMA CallTypeOK ==
  ASSUME TypeOK, NEW c \in Callers, NEW o \in Ops, Call(c, o)
  PROVE  TypeOK'
<1> USE ThreadsAssumption, BoundsAssumption
<1>1. /\ calls' \in 0..MaxCalls /\ destroys' \in 0..MaxDestroys
      /\ op' \in [Callers -> Ops \cup {"none"}]
  BY DEF Call, TypeOK, Callers
<1>2. CASE entry_gap
  BY <1>1, <1>2 DEF Call, TypeOK, Callers, CallPcs, config, locks, queue, tasks,
     loopVars
<1>3. CASE ~entry_gap
  <2>1. FirstStep(c, o)
    BY <1>3 DEF Call
  <2> QED BY <1>1, <2>1, FirstStepTypeOK
<1> QED BY <1>2, <1>3

\* So does every step inside a call.
LEMMA CallStepTypeOK ==
  ASSUME TypeOK, NEW c \in Callers, CallStep(c) \/ JoinTimeout(c)
  PROVE  TypeOK'
<1> USE ThreadsAssumption, BoundsAssumption
    DEF Goto, Callers, CallPcs, config, locks, queue, tasks, loopVars, counters,
        TypeOK, Answer, Returns
<1>1. CASE Enter(c)
  <2>1. /\ op[c] \in Ops \cup {"none"}
        /\ UNCHANGED <<op, counters>>
        /\ FirstStep(c, op[c])
    BY <1>1 DEF Enter
  <2> QED BY <2>1, FirstStepTypeOK DEF counters
<1>2. CASE SwitchAlive(c)
  BY <1>2 DEF SwitchAlive
<1>3. CASE SwitchGone(c)
  BY <1>3 DEF SwitchGone, TooLate
<1>4. CASE SwitchZombieOther(c)
  BY <1>4 DEF SwitchZombieOther
<1>5. CASE ZombieBeep(c)
  BY <1>5 DEF ZombieBeep, Beep, PipeIsFull
<1>6. CASE TryLockTaken(c)
  BY <1>6 DEF TryLockTaken
<1>7. CASE TryLockRefused(c)
  BY <1>7 DEF TryLockRefused, TooLate
<1>8. CASE Plan(c)
  BY <1>8 DEF Plan, Beep, PipeIsFull, States, LifeInstructions
<1>9. CASE Wait(c)
  BY <1>9 DEF Wait, Outcomes
<1>10. CASE PushNoMemory(c)
  BY <1>10 DEF PushNoMemory
<1>11. CASE PushSelf(c)
  BY <1>11 DEF PushSelf
<1>12. CASE PushWish(c)
  BY <1>12 DEF PushWish, Beep, PipeIsFull
<1>13. CASE Join(c)
  BY <1>13 DEF Join, Faults, Caller, Resume, Back, LoopPcs
<1>14. CASE StoreState(c)
  BY <1>14 DEF StoreState, Detach, OwnThread, Condemned, States, Faults, LoopPcs, Self
<1>15. CASE Unlock(c)
  BY <1>15 DEF Unlock, Detach, OwnThread, States, Faults
<1>16. CASE JoinTimeout(c)
  BY <1>16 DEF JoinTimeout, Detach, OwnThread, Faults, Caller, Resume, Back, LoopPcs
<1>17. CASE SwitchZombieSelf(c)
  BY <1>17 DEF SwitchZombieSelf, Self, LoopPcs, Faults
<1>18. CASE PushZombieSelf(c)
  <2>1. listener_schedule' \in BOOLEAN
    BY <1>18 DEF PushZombieSelf
  <2>2. /\ pc' \in [Callers -> {"idle"} \cup CallPcs \cup LoopPcs]
        /\ \A t \in Threads : pc'[t] = pc[t]
    BY <1>18 DEF PushZombieSelf, Self, LoopPcs
  <2> QED BY <1>18, <2>1, <2>2 DEF PushZombieSelf, LessRed
<1>19. CASE PaintGreen(c)
  <2>1. UNCHANGED <<config, state, locks, queue, worker_thread, tasks, loopVars,
                    op, ret, counters, ub>>
    BY <1>19 DEF PaintGreen
  <2>2. disposable' \in Nat
    BY <1>19 DEF PaintGreen, LessRed
  <2>3. /\ pc' \in [Callers -> {"idle"} \cup CallPcs \cup LoopPcs]
        /\ \A t \in Threads : pc'[t] \in {"idle"} \cup CallPcs
    <3>1. CASE Goto(c, "green", Caller(c))
      BY <3>1 DEF LoopPcs, Caller, Resume, Back
    <3>2. CASE Goto(c, "green_join", "join")
      BY <3>2
    <3> QED BY <1>19, <3>1, <3>2 DEF PaintGreen
  <2> QED BY <2>1, <2>2, <2>3 DEF config
<1> QED
  BY <1>1, <1>2, <1>3, <1>4, <1>5, <1>6, <1>7, <1>8, <1>9, <1>10, <1>11, <1>12,
     <1>13, <1>14, <1>15, <1>16, <1>17, <1>18, <1>19 DEF CallStep

\* A shutdown task that is ready to run names its handler: the handler it has
\* named takes its name back only after it has been started.
ShutdownIsNamed ==
  /\ shutdown_ready => shutdown_schedule # "none"
  /\ pc[W] \in {"unattended", "attended"} => ~shutdown_ready

\* What a call does to the worker thread and to its shutdown task.
CallsLeaveAlone ==
  /\ UNCHANGED <<shutdown_schedule, shutdown_ready, wishes_mutex>>
  /\ pc'[W] # pc[W] =>
       /\ pc[W] \in CallPcs \cup {"frame", "terminate"}
       /\ pc'[W] \in CallPcs \cup {"loop", "frame", "terminate", "lrh", "self_clear"}

\* A step of a call leaves the worker thread's own variables alone, and moves W
\* only between the program counters of a call.
LEMMA CallFrame ==
  ASSUME TypeOK, NEW c \in Callers, ApiStep(c)
  PROVE  CallsLeaveAlone
<1> USE ThreadsAssumption
    DEF CallsLeaveAlone, Goto, Callers, CallPcs, TypeOK, tasks, locks
<1>1. ASSUME NEW o, FirstStep(c, o)
      PROVE  /\ UNCHANGED <<shutdown_schedule, shutdown_ready, wishes_mutex>>
             /\ pc'[W] # pc[W] =>
                  /\ c = W
                  /\ pc'[W] \in CallPcs \cup {"loop", "frame", "terminate", "lrh"}
  BY <1>1 DEF FirstStep, PaintRed, PingOther, PingSelf, Caller, Resume, Back
<1>2. CASE \E o \in Ops : Call(c, o)
  BY <1>1, <1>2 DEF Call, InUserCode
<1>3. CASE Enter(c)
  BY <1>1, <1>3 DEF Enter
<1>4. CASE PaintGreen(c)
  BY <1>4 DEF PaintGreen, Caller, Resume, Back
<1>5. CASE JoinTimeout(c)
  BY <1>5 DEF JoinTimeout, Caller, Resume, Back
<1>6. CASE SwitchAlive(c) \/ SwitchGone(c) \/ SwitchZombieOther(c) \/ ZombieBeep(c)
           \/ SwitchZombieSelf(c) \/ PushZombieSelf(c)
  BY <1>6 DEF SwitchAlive, SwitchGone, SwitchZombieOther, ZombieBeep,
     SwitchZombieSelf, PushZombieSelf
<1>7. CASE TryLockTaken(c) \/ TryLockRefused(c) \/ StoreState(c) \/ Plan(c) \/ Unlock(c)
  BY <1>7 DEF TryLockTaken, TryLockRefused, StoreState, Plan, Unlock
<1>8. CASE Wait(c) \/ Join(c) \/ PushNoMemory(c) \/ PushSelf(c) \/ PushWish(c)
  BY <1>8 DEF Wait, Outcomes, Join, PushNoMemory, PushSelf, PushWish, Caller, Resume, Back
<1> QED BY <1>2, <1>3, <1>4, <1>5, <1>6, <1>7, <1>8 DEF ApiStep, CallStep

\* No step starts a shutdown task that has no handler.
LEMMA ShutdownStaysNamed ==
  ASSUME TypeOK, ShutdownIsNamed, [Next]_vars
  PROVE  ShutdownIsNamed'
<1> USE ThreadsAssumption DEF ShutdownIsNamed, TypeOK, Goto, tasks
<1>1. W \in Callers
  BY DEF Callers
<1>2. CASE \E c \in Callers : ApiStep(c)
  BY <1>2, CallFrame DEF CallsLeaveAlone, CallPcs
<1>3. CASE LoopStep
  <2>1. CASE Launch \/ OnStartReturns \/ Install \/ MainKill
    BY <1>1, <2>1 DEF Launch, OnStartReturns, Install, MainKill, HandlersArmed
  <2>2. CASE RunListener \/ TakeWishes \/ ReadPlan \/ Die \/ Rearm
    BY <1>1, <2>2 DEF RunListener, TakeWishes, ReadPlan, Die, Rearm, HandlersCleared,
       Resume, Back
  <2>3. CASE RunShutdown \/ UnattendedShutdown \/ AttendedShutdown \/ ClearWishes
    BY <1>1, <2>3 DEF RunShutdown, UnattendedShutdown, AttendedShutdown, ClearWishes
  <2>4. CASE SelfAsynch \/ SelfUnlock \/ SelfEnd \/ SelfGreen
    BY <1>1, <2>4 DEF SelfAsynch, SelfUnlock, SelfEnd, SelfGreen, HandlersCleared,
       AfterDeath, Back
  <2>5. CASE SayBye \/ Terminate \/ Dispose \/ DisposeWait \/ Free \/ ShutdownScheduler
    BY <1>1, <2>5 DEF SayBye, Terminate, Dispose, DisposeWait, Free, ShutdownScheduler,
       ShutDown, AfterDeath, Back
  <2>6. CASE AutoShutdown \/ RunJob \/ FrameReturns
           \/ TaskEnds("stopping") \/ SchedulerReturns
    BY <1>1, <2>6 DEF AutoShutdown, RunJob, FrameReturns, TaskEnds, SchedulerReturns,
       ShutDown
  <2> QED BY <1>3, <2>1, <2>2, <2>3, <2>4, <2>5, <2>6 DEF LoopStep
<1>4. CASE AppStep
  BY <1>1, <1>4 DEF AppStep, UserShutdown, RunTask, TaskEnds, ShutDown
<1>5. CASE UNCHANGED vars
  BY <1>5 DEF vars
<1> QED BY <1>2, <1>3, <1>4, <1>5 DEF Next

\* A step of the worker thread moves no other caller.
LEMMA LoopFrame ==
  ASSUME TypeOK, LoopStep \/ AppStep
  PROVE  \A t \in Threads : pc'[t] = pc[t]
<1> USE ThreadsAssumption DEF Goto, TypeOK, Callers
<1>1. CASE LoopStep
  BY <1>1 DEF LoopStep, Launch, OnStartReturns, Install, MainKill,
     RunListener, TakeWishes, ReadPlan, Die, Rearm,
     RunShutdown, UnattendedShutdown, AttendedShutdown, ClearWishes,
     SelfAsynch, SelfUnlock, SelfEnd, SelfGreen,
     SayBye, Terminate, Dispose, DisposeWait, Free,
     ShutdownScheduler, AutoShutdown, RunJob, FrameReturns, TaskEnds, SchedulerReturns
<1>2. CASE AppStep
  BY <1>2 DEF AppStep, UserShutdown, RunTask, TaskEnds
<1> QED BY <1>1, <1>2

\* Every step of the worker thread, and of the application's code on it, keeps
\* every variable in its domain.
LEMMA LoopStepTypeOK ==
  ASSUME TypeOK, ShutdownIsNamed, LoopStep \/ AppStep
  PROVE  TypeOK'
<1> USE ThreadsAssumption, BoundsAssumption
    DEF Goto, TypeOK, callVars, config, counters, locks, queue, tasks, Unaffected,
        States, Continuations, Frames, Returns, Faults
<1>1. W \in Callers /\ W \notin Threads /\ \A t \in Threads : pc'[t] = pc[t]
  BY LoopFrame DEF Callers
<1>2. ASSUME Launch PROVE TypeOK'
  <2>1. pc' \in [Callers -> {"idle"} \cup CallPcs \cup LoopPcs]
    BY <1>1, <1>2 DEF Launch, LoopPcs
  <2>2. serving' \in BOOLEAN
    BY <1>2 DEF Launch
  <2> QED
    BY <1>1, <1>2, <2>1, <2>2 DEF Launch
<1>3. ASSUME OnStartReturns PROVE TypeOK'
  <2>1. pc' \in [Callers -> {"idle"} \cup CallPcs \cup LoopPcs]
    BY <1>1, <1>3 DEF OnStartReturns, LoopPcs
  <2>2. cont' \in Continuations
    BY <1>3 DEF OnStartReturns, LifeInstructions
  <2>3. ub' \in Faults /\ frame' = "none"
    BY <1>3 DEF OnStartReturns
  <2>4. UNCHANGED <<callVars, state, future_plans, locks, queue, disposable,
                    has_returned, freed, worker_thread, tasks, serving, ret>>
    BY <1>3 DEF OnStartReturns
  <2> QED
    BY <1>1, <2>1, <2>2, <2>3, <2>4
<1>4. ASSUME Install PROVE TypeOK'
  <2>1. pc' \in [Callers -> {"idle"} \cup CallPcs \cup LoopPcs]
    BY <1>1, <1>4 DEF Install, LoopPcs
  <2>2. listener_schedule' \in BOOLEAN
    BY <1>4 DEF Install, HandlersArmed
  <2> QED
    BY <1>1, <1>4, <2>1, <2>2 DEF Install, HandlersArmed
<1>5. ASSUME MainKill PROVE TypeOK'
  <2>1. pc' \in [Callers -> {"idle"} \cup CallPcs \cup LoopPcs]
    BY <1>1, <1>5 DEF MainKill, LoopPcs
  <2> QED
    BY <1>1, <1>5, <2>1 DEF MainKill, TakeKill, Detach, OwnThread
<1>6. ASSUME RunListener PROVE TypeOK'
  <2>1. pc' \in [Callers -> {"idle"} \cup CallPcs \cup LoopPcs]
    BY <1>1, <1>6 DEF RunListener, LoopPcs
  <2> QED
    BY <1>1, <1>6, <2>1 DEF RunListener
<1>7. ASSUME TakeWishes PROVE TypeOK'
  <2>1. pc' \in [Callers -> {"idle"} \cup CallPcs \cup LoopPcs]
    BY <1>1, <1>7 DEF TakeWishes, LoopPcs
  <2> QED
    BY <1>1, <1>7, <2>1 DEF TakeWishes, MustDie, ReadBeep
<1>8. ASSUME ReadPlan PROVE TypeOK'
  <2>1. pc' \in [Callers -> {"idle"} \cup CallPcs \cup LoopPcs]
    BY <1>1, <1>8 DEF ReadPlan, LoopPcs
  <2> QED
    BY <1>1, <1>8, <2>1 DEF ReadPlan, MustDie, ReadBeep
<1>9. ASSUME Die PROVE TypeOK'
  <2>1. pc' \in [Callers -> {"idle"} \cup CallPcs \cup LoopPcs]
    BY <1>1, <1>9 DEF Die, LoopPcs
  <2>2. listener_schedule' \in BOOLEAN /\ shutdown_ready' \in BOOLEAN
    BY <1>9 DEF Die, HandlersCleared
  <2> QED
    BY <1>1, <1>9, <2>1, <2>2 DEF Die, TakeKill, JobsCleared, HandlersCleared
<1>10. ASSUME Rearm PROVE TypeOK'
  <2>1. pc' \in [Callers -> {"idle"} \cup CallPcs \cup LoopPcs]
    BY <1>1, <1>10 DEF Rearm, Resume, Back, LoopPcs
  <2>2. listener_schedule' \in BOOLEAN
    BY <1>10 DEF Rearm
  <2> QED
    BY <1>1, <1>10, <2>1, <2>2 DEF Rearm
<1>11. ASSUME RunShutdown PROVE TypeOK'
  <2>1. pc' \in [Callers -> {"idle"} \cup CallPcs \cup LoopPcs]
    BY <1>1, <1>11 DEF RunShutdown, ShutdownIsNamed, LoopPcs
  <2>2. shutdown_ready' \in BOOLEAN
    BY <1>11 DEF RunShutdown
  <2> QED
    BY <1>1, <1>11, <2>1, <2>2 DEF RunShutdown
<1>12. ASSUME UnattendedShutdown PROVE TypeOK'
  <2>1. pc' \in [Callers -> {"idle"} \cup CallPcs \cup LoopPcs]
    BY <1>1, <1>12 DEF UnattendedShutdown, LoopPcs
  <2>2. listener_schedule' \in BOOLEAN
    BY <1>12 DEF UnattendedShutdown
  <2> QED
    BY <1>1, <1>12, <2>1, <2>2 DEF UnattendedShutdown, TakeKill, JobsCleared, Detach,
       Condemned, OwnThread
<1>13. ASSUME AttendedShutdown PROVE TypeOK'
  <2>1. pc' \in [Callers -> {"idle"} \cup CallPcs \cup LoopPcs]
    BY <1>1, <1>13 DEF AttendedShutdown, LoopPcs
  <2> QED
    BY <1>1, <1>13, <2>1 DEF AttendedShutdown, TakeKill
<1>14. ASSUME ClearWishes PROVE TypeOK'
  <2>1. pc' \in [Callers -> {"idle"} \cup CallPcs \cup LoopPcs]
    BY <1>1, <1>14 DEF ClearWishes, LoopPcs
  <2> QED
    BY <1>1, <1>14, <2>1 DEF ClearWishes
<1>15. ASSUME SelfAsynch PROVE TypeOK'
  <2>1. pc' \in [Callers -> {"idle"} \cup CallPcs \cup LoopPcs]
    BY <1>1, <1>15 DEF SelfAsynch, LoopPcs
  <2>2. listener_schedule' \in BOOLEAN /\ shutdown_ready' \in BOOLEAN
    BY <1>15 DEF SelfAsynch
  <2> QED
    BY <1>1, <1>15, <2>1, <2>2 DEF SelfAsynch, SelfCleared, JobsCleared
<1>16. ASSUME SelfUnlock PROVE TypeOK'
  <2>1. pc' \in [Callers -> {"idle"} \cup CallPcs \cup LoopPcs]
    BY <1>1, <1>16 DEF SelfUnlock, LoopPcs
  <2> QED
    BY <1>1, <1>16, <2>1 DEF SelfUnlock
<1>17. ASSUME SelfEnd PROVE TypeOK'
  <2>1. pc' \in [Callers -> {"idle"} \cup CallPcs \cup LoopPcs]
    BY <1>1, <1>17 DEF SelfEnd, LoopPcs
  <2>2. listener_schedule' \in BOOLEAN /\ shutdown_ready' \in BOOLEAN
    BY <1>17 DEF SelfEnd, HandlersCleared
  <2> QED
    BY <1>1, <1>17, <2>1, <2>2 DEF SelfEnd, HandlersCleared, SelfCleared, JobsCleared
<1>18. ASSUME SelfGreen PROVE TypeOK'
  <2>1. pc' \in [Callers -> {"idle"} \cup CallPcs \cup LoopPcs]
    BY <1>1, <1>18 DEF SelfGreen, AfterDeath, Back, LoopPcs
  <2> QED
    BY <1>1, <1>18, <2>1 DEF SelfGreen, LessRed
<1>19. ASSUME Terminate PROVE TypeOK'
  <2>1. pc' \in [Callers -> {"idle"} \cup CallPcs \cup LoopPcs]
    BY <1>1, <1>19 DEF Terminate, AfterDeath, Back, LoopPcs
  <2>2. bye' \in BOOLEAN
    BY <1>19 DEF Terminate
  <2> QED
    BY <1>1, <1>19, <2>1, <2>2 DEF Terminate
<1>20. ASSUME Dispose PROVE TypeOK'
  <2>1. pc' \in [Callers -> {"idle"} \cup CallPcs \cup LoopPcs]
    BY <1>1, <1>20 DEF Dispose, LoopPcs
  <2> QED
    BY <1>1, <1>20, <2>1 DEF Dispose, SayReturned
<1>21. ASSUME DisposeWait PROVE TypeOK'
  <2>1. pc' \in [Callers -> {"idle"} \cup CallPcs \cup LoopPcs]
    BY <1>1, <1>21 DEF DisposeWait, LoopPcs
  <2>2. serving' \in BOOLEAN
    BY <1>21 DEF DisposeWait
  <2> QED
    BY <1>1, <1>21, <2>1, <2>2 DEF DisposeWait
<1>22. ASSUME Free PROVE TypeOK'
  <2>1. pc' \in [Callers -> {"idle"} \cup CallPcs \cup LoopPcs]
    BY <1>1, <1>22 DEF Free, Resume, Back, LoopPcs
  <2>2. freed' \in BOOLEAN
    BY <1>22 DEF Free
  <2> QED
    BY <1>1, <1>22, <2>1, <2>2 DEF Free
<1>23. ASSUME ShutdownScheduler PROVE TypeOK'
  <2>1. pc' \in [Callers -> {"idle"} \cup CallPcs \cup LoopPcs]
    BY <1>1, <1>23 DEF ShutdownScheduler, Resume, Back, LoopPcs
  <2>2. shutdown_ready' \in BOOLEAN
    BY <1>23 DEF ShutdownScheduler, ShutDown
  <2> QED
    BY <1>1, <1>23, <2>1, <2>2 DEF ShutdownScheduler, ShutDown
<1>24. ASSUME AutoShutdown PROVE TypeOK'
  <2>1. shutdown_ready' \in BOOLEAN
    BY <1>24 DEF AutoShutdown, ShutDown
  <2> QED
    BY <1>1, <1>24, <2>1 DEF AutoShutdown, ShutDown
<1>25. ASSUME RunJob PROVE TypeOK'
  <2>1. pc' \in [Callers -> {"idle"} \cup CallPcs \cup LoopPcs]
    BY <1>1, <1>25 DEF RunJob, LoopPcs
  <2> QED
    BY <1>1, <1>25, <2>1 DEF RunJob
<1>26. ASSUME FrameReturns PROVE TypeOK'
  <2>1. pc' \in [Callers -> {"idle"} \cup CallPcs \cup LoopPcs]
    BY <1>1, <1>26 DEF FrameReturns, LoopPcs
  <2> QED
    BY <1>1, <1>26, <2>1 DEF FrameReturns
<1>27. ASSUME NEW d, TaskEnds(d) PROVE TypeOK'
  BY <1>1, <1>27 DEF TaskEnds
<1>28. ASSUME SchedulerReturns PROVE TypeOK'
  <2>1. pc' \in [Callers -> {"idle"} \cup CallPcs \cup LoopPcs]
    BY <1>1, <1>28 DEF SchedulerReturns, LoopPcs
  <2> QED
    BY <1>1, <1>28, <2>1 DEF SchedulerReturns
<1>29. ASSUME UserShutdown PROVE TypeOK'
  <2>1. shutdown_ready' \in BOOLEAN
    BY <1>29 DEF UserShutdown, ShutDown
  <2> QED
    BY <1>1, <1>29, <2>1 DEF UserShutdown, ShutDown
<1>30. ASSUME RunTask PROVE TypeOK'
  <2>1. pc' \in [Callers -> {"idle"} \cup CallPcs \cup LoopPcs]
    BY <1>1, <1>30 DEF RunTask, LoopPcs
  <2> QED
    BY <1>1, <1>30, <2>1 DEF RunTask
<1>31. ASSUME SayBye PROVE TypeOK'
  <2>1. bye' \in BOOLEAN
    BY <1>31 DEF SayBye
  <2> QED
    BY <1>1, <1>31, <2>1 DEF SayBye
<1> QED
  BY <1>2, <1>3, <1>4, <1>5, <1>6, <1>7, <1>8, <1>9, <1>10, <1>11, <1>12, <1>13,
     <1>14, <1>15, <1>16, <1>17, <1>18, <1>19, <1>20, <1>21, <1>22, <1>23, <1>24,
     <1>25, <1>26, <1>27, <1>28, <1>29, <1>30, <1>31 DEF LoopStep, AppStep

(***************************************************************************)
(* Type correctness holds together with ShutdownIsNamed.                   *)
(***************************************************************************)
Typed == TypeOK /\ ShutdownIsNamed

\* A worker just allocated is well typed.
LEMMA TypedInit == Init => Typed
<1> USE ThreadsAssumption, OpsAssumption, ConfigAssumption, BoundsAssumption
<1> SUFFICES ASSUME Init PROVE Typed
  OBVIOUS
<1>1. flags \in Flags /\ on_end \in BOOLEAN /\ user_task \in {"none", "running"}
  BY DEF Init, ConfigAssumption
<1>2. serving \in BOOLEAN /\ bye \in BOOLEAN /\ entry_gap \in BOOLEAN
      /\ destiny \in LifeInstructions
  BY DEF Init
<1>3. /\ pc \in [Callers -> {"idle"} \cup CallPcs \cup LoopPcs]
      /\ \A t \in Threads : pc[t] = "idle"
  BY DEF Init, LoopPcs, Callers
<1>4. op \in [Callers -> Ops \cup {"none"}] /\ ret \in [Callers -> Returns]
  BY DEF Init, Returns
<1>5. freed \in BOOLEAN /\ listener_schedule \in BOOLEAN /\ shutdown_ready \in BOOLEAN
  BY DEF Init
<1>6. calls \in 0..MaxCalls /\ destroys \in 0..MaxDestroys /\ beeps \in 0..PipeCapacity
  BY DEF Init
<1>7. TypeOK
  BY <1>1, <1>2, <1>3, <1>4, <1>5, <1>6 DEF Init, TypeOK, States, LifeInstructions,
     Continuations, Faults
<1>8. ShutdownIsNamed
  BY DEF Init, ShutdownIsNamed, Callers
<1> QED BY <1>7, <1>8 DEF Typed

\* Every step keeps it so.
LEMMA TypedStep == Typed /\ [Next]_vars => Typed'
<1> SUFFICES ASSUME TypeOK, ShutdownIsNamed, [Next]_vars PROVE TypeOK'
  BY ShutdownStaysNamed DEF Typed
<1>1. CASE \E c \in Callers : ApiStep(c)
  BY <1>1, CallTypeOK, CallStepTypeOK DEF ApiStep
<1>2. CASE LoopStep \/ AppStep
  BY <1>2, LoopStepTypeOK
<1>3. CASE UNCHANGED vars
  BY <1>3 DEF vars, config, locks, queue, tasks, counters, TypeOK
<1> QED BY <1>1, <1>2, <1>3 DEF Next

\* Every variable of a worker, of its scheduler and of its callers stays in
\* its domain, for any set of threads and any bounds; in particular the pipe is
\* never overfilled and a shutdown task that runs has a handler.
THEOREM TypeCorrect == Spec => []TypeOK
<1>1. Typed => TypeOK
  BY DEF Typed
<1> QED BY <1>1, TypedInit, TypedStep, PTL DEF Spec

(***************************************************************************)
(* A wish in the list has a beep in the pipe                               *)
(***************************************************************************)

\* wishes_mutex is kept from one step to the next only by a worker thread that
\* has read its plan and waits for kill_mutex: there a beep may be missing.
WishesKept == wishes_mutex = W <=> pc[W] = "lrh_kill"

\* Calls write a beep with the first wish and never read one.
LEMMA CallKeepsBeep ==
  ASSUME TypeOK, NEW c \in Callers, ApiStep(c),
         wishlist > 0 => beeps > 0
  PROVE  wishlist' > 0 => beeps' > 0
<1> USE BoundsAssumption DEF TypeOK, queue, Beep, PipeIsFull
<1>1. ASSUME NEW o, FirstStep(c, o) PROVE wishlist' > 0 => beeps' > 0
  BY <1>1 DEF FirstStep, PaintRed, PingOther, PingSelf
<1>2. CASE \E o \in Ops : Call(c, o)
  BY <1>1, <1>2 DEF Call
<1>3. CASE Enter(c)
  BY <1>1, <1>3 DEF Enter
<1>4. CASE SwitchAlive(c) \/ SwitchGone(c) \/ SwitchZombieOther(c) \/ ZombieBeep(c)
           \/ SwitchZombieSelf(c) \/ PushZombieSelf(c)
  BY <1>4 DEF SwitchAlive, SwitchGone, SwitchZombieOther, ZombieBeep,
     SwitchZombieSelf, PushZombieSelf
<1>5. CASE TryLockTaken(c) \/ TryLockRefused(c) \/ StoreState(c) \/ Plan(c) \/ Unlock(c)
  BY <1>5 DEF TryLockTaken, TryLockRefused, StoreState, Plan, Unlock
<1>6. CASE Wait(c) \/ Join(c) \/ JoinTimeout(c) \/ PaintGreen(c)
  BY <1>6 DEF Wait, Join, JoinTimeout, PaintGreen
<1>7. CASE PushNoMemory(c) \/ PushSelf(c) \/ PushWish(c)
  BY <1>7 DEF PushNoMemory, PushSelf, PushWish
<1> QED BY <1>2, <1>3, <1>4, <1>5, <1>6, <1>7 DEF ApiStep, CallStep

\* The inductive step.  The worker thread reads a beep only in the two steps
\* that either empty the list or keep wishes_mutex.
LEMMA BeepStep ==
  ASSUME TypeOK, BeepPending, WishesKept, [Next]_vars
  PROVE  BeepPending' /\ WishesKept'
<1> USE ThreadsAssumption DEF BeepPending, WishesKept, TypeOK, Goto, queue, locks
<1>1. W \in Callers /\ W # NoThread
  BY DEF Callers
<1>2. CASE \E c \in Callers : ApiStep(c)
  <2>1. PICK c \in Callers : ApiStep(c)
    BY <1>2
  <2>2. UNCHANGED wishes_mutex /\ WishesKept'
    BY <1>1, <2>1, CallFrame DEF CallsLeaveAlone, CallPcs
  <2>3. BeepPending'
    BY <2>1, <2>2, CallKeepsBeep
  <2> QED BY <2>2, <2>3
<1>3. CASE LoopStep
  <2>1. CASE Launch \/ OnStartReturns \/ Install \/ MainKill
    BY <1>1, <2>1 DEF Launch, OnStartReturns, Install, MainKill
  <2>2. CASE RunListener \/ TakeWishes \/ ReadPlan \/ Die \/ Rearm
    BY <1>1, <2>2 DEF RunListener, TakeWishes, ReadPlan, Die, Rearm, Resume, Back
  <2>3. CASE RunShutdown \/ UnattendedShutdown \/ AttendedShutdown \/ ClearWishes
    BY <1>1, <2>3 DEF RunShutdown, UnattendedShutdown, AttendedShutdown, ClearWishes
  <2>4. CASE SelfAsynch \/ SelfUnlock \/ SelfEnd \/ SelfGreen
    BY <1>1, <2>4 DEF SelfAsynch, SelfUnlock, SelfEnd, SelfGreen, SelfCleared,
       AfterDeath, Back
  <2>5. CASE SayBye \/ Terminate \/ Dispose \/ DisposeWait \/ Free \/ ShutdownScheduler
    BY <1>1, <2>5 DEF SayBye, Terminate, Dispose, DisposeWait, Free, ShutdownScheduler,
       Unaffected, AfterDeath, Back
  <2>6. CASE AutoShutdown \/ RunJob \/ FrameReturns
           \/ TaskEnds("stopping") \/ SchedulerReturns
    BY <1>1, <2>6 DEF AutoShutdown, RunJob, FrameReturns, TaskEnds, SchedulerReturns,
       Unaffected
  <2> QED BY <1>3, <2>1, <2>2, <2>3, <2>4, <2>5, <2>6 DEF LoopStep
<1>4. CASE AppStep
  BY <1>1, <1>4 DEF AppStep, UserShutdown, RunTask, TaskEnds, Unaffected
<1>5. CASE UNCHANGED vars
  BY <1>5 DEF vars
<1> QED BY <1>2, <1>3, <1>4, <1>5 DEF Next

\* A push that finds the list non-empty may rely on an earlier beep: whatever
\* the threads, the calls and the capacity of the pipe, a wish is never left in
\* the list of an unlocked worker with an empty pipe.
THEOREM BeepIsPending == Spec => []BeepPending
<1>1. Init => BeepPending /\ WishesKept
  BY ThreadsAssumption DEF Init, BeepPending, WishesKept, Callers
<1>2. Typed /\ BeepPending /\ WishesKept /\ [Next]_vars => (BeepPending /\ WishesKept)'
  BY BeepStep DEF Typed
<1> QED BY <1>1, <1>2, TypedInit, TypedStep, PTL DEF Spec

(***************************************************************************)
(* on_worker_end runs for a condemned worker                               *)
(***************************************************************************)

\* Whatever leads to the end of a worker has stored its state before.
CondemnedFirst ==
  /\ future_plans # "LONG_LIFE" => state # "ALIVE"
  /\ \A c \in Callers : pc[c] \in {"plan", "unlock"} => state # "ALIVE"
  /\ pc[W] \in {"lrh_kill", "clear", "terminate", "self_clear"} => state # "ALIVE"
  /\ "attended" \in {pc[W], shutdown_schedule} => state # "ALIVE"

\* Inside on_worker_end no call gets further than the switch on the state, but
\* for those that find a zombie.
ByePcs == {"terminate", "enter", "switch", "green", "zombie_beep",
           "lrh", "lrh_kill", "lrh_rearm"}

GoodbyeIsLate == bye => state # "ALIVE" /\ (ub = "none" => pc[W] \in ByePcs)

Late == CondemnedFirst /\ GoodbyeIsLate

\* No step brings a worker back to life.
NeverRevived == state' = "ALIVE" => state = "ALIVE"

\* The calls respect the order.
LEMMA CallIsLate ==
  ASSUME TypeOK, Late, ub = "none", NEW c \in Callers, ApiStep(c)
  PROVE  Late'
<1>0. W \in Callers /\ pc \in [Callers -> {"idle"} \cup CallPcs \cup LoopPcs]
  BY DEF Callers, TypeOK
<1> USE <1>0 DEF Late, CondemnedFirst, GoodbyeIsLate, ByePcs, Goto, loopVars, tasks
<1>1. ASSUME NEW o, FirstStep(c, o),
             c = W /\ bye => pc[c] \in {"enter", "terminate"}
      PROVE  Late'
  <2>1. UNCHANGED <<state, bye, future_plans, shutdown_schedule>>
    BY <1>1 DEF FirstStep, PaintRed, PingOther, PingSelf
  <2>2. \/ ub' # "none" /\ UNCHANGED pc
        \/ UNCHANGED ub /\ \/ pc' = [pc EXCEPT ![c] = "switch"]
                           \/ pc' = [pc EXCEPT ![c] = "lrh"]
                           \/ pc' = [pc EXCEPT ![c] = Caller(c)]
    BY <1>1 DEF FirstStep, PaintRed, PingOther, PingSelf
  <2>3. CASE ub' # "none" /\ UNCHANGED pc
    BY <2>1, <2>3
  <2>4. CASE pc' = [pc EXCEPT ![c] = "switch"] \/ pc' = [pc EXCEPT ![c] = "lrh"]
    BY <2>1, <2>4, <1>1
  <2>5. CASE pc' = [pc EXCEPT ![c] = Caller(c)]
    BY <2>1, <2>5, <1>1 DEF Caller, Resume, Back
  <2> QED BY <2>2, <2>3, <2>4, <2>5
<1>2. CASE \E o \in Ops : Call(c, o)
  <2>1. PICK o \in Ops : Call(c, o)
    BY <1>2
  <2>2. c = W /\ bye => pc[c] = "terminate"
    BY <2>1 DEF Call, InUserCode
  <2>3. CASE entry_gap
    BY <2>1, <2>2, <2>3 DEF Call
  <2>4. CASE ~entry_gap
    BY <1>1, <2>1, <2>2, <2>4 DEF Call
  <2> QED BY <2>3, <2>4
<1>3. CASE Enter(c)
  BY <1>1, <1>3 DEF Enter
<1>4. CASE PaintGreen(c)
  BY <1>4 DEF PaintGreen, Caller, Resume, Back
<1>5. CASE SwitchAlive(c)
  BY <1>5 DEF SwitchAlive
<1>6. CASE SwitchGone(c) \/ SwitchZombieOther(c) \/ ZombieBeep(c)
  <2>1. CASE SwitchGone(c)
    BY <2>1 DEF SwitchGone
  <2>2. CASE SwitchZombieOther(c)
    BY <2>2 DEF SwitchZombieOther
  <2>3. CASE ZombieBeep(c)
    BY <2>3 DEF ZombieBeep
  <2> QED BY <1>6, <2>1, <2>2, <2>3
<1>7. CASE SwitchZombieSelf(c) \/ PushZombieSelf(c)
  BY <1>7 DEF SwitchZombieSelf, PushZombieSelf
<1>8. CASE TryLockTaken(c) \/ TryLockRefused(c)
  BY <1>8 DEF TryLockTaken, TryLockRefused
<1>9. CASE StoreState(c)
  BY <1>9 DEF StoreState, Condemned
<1>10. CASE Plan(c)
  BY <1>10 DEF Plan
<1>11. CASE Unlock(c)
  BY <1>11 DEF Unlock
<1>12. CASE Wait(c) \/ Join(c) \/ JoinTimeout(c)
  <2>1. CASE Wait(c)
    BY <2>1 DEF Wait
  <2>2. CASE Join(c) \/ JoinTimeout(c)
    <3>1. Goto(c, "join", Caller(c)) /\ UNCHANGED <<state, loopVars, tasks>>
      BY <2>2 DEF Join, JoinTimeout
    <3> QED BY <3>1 DEF Caller, Resume, Back
  <2> QED BY <1>12, <2>1, <2>2
<1>13. CASE PushNoMemory(c) \/ PushSelf(c) \/ PushWish(c)
  BY <1>13 DEF PushNoMemory, PushSelf, PushWish
<1> QED
  BY <1>2, <1>3, <1>4, <1>5, <1>6, <1>7, <1>8, <1>9, <1>10, <1>11, <1>12, <1>13
  DEF ApiStep, CallStep

\* So does the worker thread.
LEMMA LoopIsLate ==
  ASSUME TypeOK, Late, ub = "none", LoopStep \/ AppStep
  PROVE  Late'
<1>1. \A t \in Threads : pc'[t] = pc[t]
  BY LoopFrame
<1>2. W \in Callers /\ pc \in [Callers -> {"idle"} \cup CallPcs \cup LoopPcs]
  BY DEF Callers, TypeOK
<1> USE <1>1, <1>2 DEF Late, CondemnedFirst, GoodbyeIsLate, ByePcs, Goto,
        Callers, callVars, tasks, Unaffected
<1>3. CASE Launch \/ OnStartReturns \/ Install \/ MainKill
  BY <1>3 DEF Launch, OnStartReturns, Install, MainKill, HandlersArmed
<1>4. CASE RunListener \/ TakeWishes \/ Rearm
  BY <1>4 DEF RunListener, TakeWishes, Rearm, Resume, Back
<1>5. CASE ReadPlan \/ Die
  <2>1. CASE ReadPlan
    BY <2>1 DEF ReadPlan, MustDie
  <2>2. CASE Die /\ bye
    BY <2>2 DEF Die, HandlersCleared
  <2>3. CASE Die /\ ~bye
    BY <2>3 DEF Die, HandlersCleared
  <2> QED BY <1>5, <2>1, <2>2, <2>3
<1>6. CASE RunShutdown \/ UnattendedShutdown \/ AttendedShutdown \/ ClearWishes
  <2>1. CASE RunShutdown
    <3>1. shutdown_schedule \in {"none", "unattended", "attended"}
      BY DEF TypeOK
    <3> QED BY <2>1, <3>1 DEF RunShutdown
  <2>2. CASE UnattendedShutdown
    BY <2>2 DEF UnattendedShutdown, Condemned
  <2>3. CASE AttendedShutdown \/ ClearWishes
    BY <2>3 DEF AttendedShutdown, ClearWishes
  <2> QED BY <1>6, <2>1, <2>2, <2>3
<1>7. CASE SelfAsynch \/ SelfUnlock \/ SelfEnd \/ SelfGreen
  BY <1>7 DEF SelfAsynch, SelfUnlock, SelfEnd, SelfGreen, HandlersCleared,
     AfterDeath, Back
<1>8. CASE SayBye \/ Terminate \/ Dispose \/ DisposeWait \/ Free \/ ShutdownScheduler
  BY <1>8 DEF SayBye, Terminate, Dispose, DisposeWait, Free, ShutdownScheduler,
     AfterDeath, Back
<1>9. CASE AutoShutdown \/ RunJob \/ FrameReturns
           \/ TaskEnds("stopping") \/ SchedulerReturns
  BY <1>9 DEF AutoShutdown, RunJob, FrameReturns, TaskEnds, SchedulerReturns
<1>10. CASE AppStep
  BY <1>10 DEF AppStep, UserShutdown, RunTask, TaskEnds
<1> QED BY <1>3, <1>4, <1>5, <1>6, <1>7, <1>8, <1>9, <1>10 DEF LoopStep

LEMMA LateInit == Init => Late
  BY ThreadsAssumption DEF Init, Late, CondemnedFirst, GoodbyeIsLate, Callers

LEMMA LateStep == Typed /\ Late /\ [Next]_vars => Late'
<1> SUFFICES ASSUME TypeOK, Late, [Next]_vars PROVE Late'
  BY DEF Typed
<1>1. CASE Running /\ \E c \in Callers : ApiStep(c)
  BY <1>1, CallIsLate DEF Running
<1>2. CASE Running /\ (LoopStep \/ AppStep)
  BY <1>2, LoopIsLate DEF Running
<1>3. CASE UNCHANGED vars
  BY <1>3 DEF vars, config, tasks, Late, CondemnedFirst, GoodbyeIsLate
<1> QED BY <1>1, <1>2, <1>3 DEF Next

(***************************************************************************)
(* worker_is_disposable counts the calls that need the instance            *)
(***************************************************************************)
Reds == {c \in Callers : Red(c)}

\* The death of a condemned worker that was not started by a call does not pass
\* for one.
DeathIsNamed ==
  pc[W] \in {"main_kill", "clear"} => cont \in {"none", "dismiss", "destroy", "handler"}

\* What a step may do to the callers that are red and to the counter: nothing,
\* add caller c to both, remove it from both, or move the worker thread into
\* on_worker_end and out of it.
Recounted(c) ==
  /\ \A d \in Callers \ {c} : Red(d)' = Red(d)
  /\ \/ /\ UNCHANGED <<disposable, RedAtTheEnd>>
        /\ Red(c)' = Red(c)
     \/ ~Red(c) /\ Red(c)' /\ disposable' = disposable + 1 /\ UNCHANGED RedAtTheEnd
     \/ Red(c) /\ ~Red(c)' /\ LessRed /\ UNCHANGED RedAtTheEnd
     \/ /\ UNCHANGED disposable
        /\ \/ Red(c) /\ ~Red(c)' /\ ~RedAtTheEnd /\ RedAtTheEnd'
           \/ ~Red(c) /\ Red(c)' /\ RedAtTheEnd /\ ~RedAtTheEnd'

\* The callers can be counted.
LEMMA CallersAreFinite == IsFiniteSet(Callers)
  BY ThreadsAssumption, FS_Singleton, FS_Union DEF Callers

\* Counting one caller more, or one less, is what the paintings do.
LEMMA RecountedIsCounted ==
  ASSUME TypeOK, RefCount, NEW c \in Callers, Recounted(c)
  PROVE  RefCount'
<1> DEFINE After == {d \in Callers : Red(d)'}
           End(b) == IF b THEN 1 ELSE 0
<1>1. IsFiniteSet(Reds) /\ IsFiniteSet(After) /\ Reds \subseteq Callers
  BY CallersAreFinite, FS_Subset DEF Reds
<1>2. /\ Cardinality(Reds) \in Nat /\ disposable \in Nat
      /\ disposable = Cardinality(Reds) + End(RedAtTheEnd)
  BY <1>1, FS_CardinalityType DEF RefCount, Reds, TypeOK
<1>3. ASSUME Red(c)' = Red(c) PROVE After = Reds
  BY <1>3 DEF Recounted, Reds
<1>4. ASSUME ~Red(c), Red(c)' PROVE Cardinality(After) = Cardinality(Reds) + 1
  <2>1. After = Reds \cup {c} /\ c \notin Reds
    BY <1>4 DEF Recounted, Reds
  <2> QED BY <1>1, <2>1, FS_AddElement
<1>5. ASSUME Red(c), ~Red(c)'
      PROVE  Cardinality(After) = Cardinality(Reds) - 1 /\ Cardinality(Reds) # 0
  <2>1. After = Reds \ {c} /\ c \in Reds
    BY <1>5 DEF Recounted, Reds
  <2>2. Cardinality(Reds \ {c}) = Cardinality(Reds) - 1
    BY <1>1, <2>1, FS_RemoveElement
  <2>3. Cardinality(Reds) # 0
    BY <1>1, <2>1, FS_EmptySet
  <2> QED BY <2>1, <2>2, <2>3
<1>6. disposable' = Cardinality(After) + End(RedAtTheEnd')
  <2>1. CASE UNCHANGED <<disposable, RedAtTheEnd>> /\ Red(c)' = Red(c)
    BY <1>2, <1>3, <2>1
  <2>2. CASE ~Red(c) /\ Red(c)' /\ disposable' = disposable + 1 /\ UNCHANGED RedAtTheEnd
    BY <1>2, <1>4, <2>2
  <2>3. CASE Red(c) /\ ~Red(c)' /\ LessRed /\ UNCHANGED RedAtTheEnd
    <3>1. disposable # 0
      BY <1>2, <1>5, <2>3
    <3> QED BY <1>2, <1>5, <2>3, <3>1 DEF LessRed
  <2>4. CASE UNCHANGED disposable /\ Red(c) /\ ~Red(c)' /\ ~RedAtTheEnd /\ RedAtTheEnd'
    BY <1>2, <1>5, <2>4
  <2>5. CASE UNCHANGED disposable /\ ~Red(c) /\ Red(c)' /\ RedAtTheEnd /\ ~RedAtTheEnd'
    BY <1>2, <1>4, <2>5
  <2> QED BY <2>1, <2>2, <2>3, <2>4, <2>5 DEF Recounted
<1> QED BY <1>6 DEF RefCount

\* No call begins or ends the end of the worker; the worker thread makes calls
\* there only inside on_worker_end.
LEMMA CallEnd ==
  ASSUME TypeOK, NEW c \in Callers, ApiStep(c)
  PROVE  /\ UNCHANGED <<bye, cont>>
         /\ ~bye => (pc[W] = "terminate") = (pc'[W] = "terminate")
<1>0. W \in Callers /\ pc \in [Callers -> {"idle"} \cup CallPcs \cup LoopPcs]
  BY DEF Callers, TypeOK
<1> USE <1>0 DEF Goto, loopVars
<1>1. ASSUME NEW o, FirstStep(c, o), ~bye /\ c = W => pc[c] # "terminate"
      PROVE  /\ UNCHANGED <<bye, cont>>
             /\ ~bye => (pc[W] = "terminate") = (pc'[W] = "terminate")
  BY <1>1 DEF FirstStep, PaintRed, PingOther, PingSelf, Caller, Resume, Back
<1>2. CASE \E o \in Ops : Call(c, o)
  <2>1. PICK o \in Ops : Call(c, o)
    BY <1>2
  <2>2. ~bye /\ c = W => pc[c] = "frame"
    BY <2>1 DEF Call, InUserCode
  <2>3. CASE entry_gap
    BY <2>1, <2>2, <2>3 DEF Call
  <2>4. CASE ~entry_gap
    BY <1>1, <2>1, <2>2, <2>4 DEF Call
  <2> QED BY <2>3, <2>4
<1>3. CASE Enter(c)
  BY <1>1, <1>3 DEF Enter
<1>4. CASE PaintGreen(c)
  BY <1>4 DEF PaintGreen, Caller, Resume, Back
<1>5. CASE SwitchAlive(c) \/ SwitchGone(c) \/ SwitchZombieOther(c) \/ ZombieBeep(c)
           \/ SwitchZombieSelf(c) \/ PushZombieSelf(c)
  BY <1>5 DEF SwitchAlive, SwitchGone, SwitchZombieOther, ZombieBeep,
     SwitchZombieSelf, PushZombieSelf
<1>6. CASE TryLockTaken(c) \/ TryLockRefused(c) \/ StoreState(c) \/ Plan(c) \/ Unlock(c)
  BY <1>6 DEF TryLockTaken, TryLockRefused, StoreState, Plan, Unlock
<1>7. CASE Wait(c) \/ PushNoMemory(c) \/ PushSelf(c) \/ PushWish(c)
  BY <1>7 DEF Wait, PushNoMemory, PushSelf, PushWish
<1>8. CASE Join(c) \/ JoinTimeout(c)
  <2>1. Goto(c, "join", Caller(c)) /\ UNCHANGED loopVars
    BY <1>8 DEF Join, JoinTimeout
  <2> QED BY <2>1 DEF Caller, Resume, Back
<1> QED BY <1>2, <1>3, <1>4, <1>5, <1>6, <1>7, <1>8 DEF ApiStep, CallStep

\* Every step of a call paints red exactly when it starts to need the instance
\* and green exactly when it has stopped.
LEMMA CallRecounted ==
  ASSUME TypeOK, NEW c \in Callers, ApiStep(c)
  PROVE  Recounted(c)
<1> DEFINE Painted ==
      /\ \A d \in Callers \ {c} : pc'[d] = pc[d]
      /\ \/ Red(c)' = Red(c) /\ UNCHANGED disposable
         \/ ~Red(c) /\ Red(c)' /\ disposable' = disposable + 1
         \/ Red(c) /\ ~Red(c)' /\ LessRed
<1>0. W \in Callers /\ pc \in [Callers -> {"idle"} \cup CallPcs \cup LoopPcs]
  BY DEF Callers, TypeOK
<1>1. Painted
  <2> USE <1>0 DEF Goto, Red
  <2>1. ASSUME NEW o, FirstStep(c, o), pc[c] \in {"idle", "frame", "terminate", "enter"}
        PROVE  Painted
    <3>1. CASE UNCHANGED <<disposable, pc>>
      BY <3>1
    <3>2. CASE PaintRed(c)
      BY <2>1, <3>2 DEF PaintRed
    <3>3. CASE PingOther(c)
      BY <2>1, <3>3 DEF PingOther, Caller, Resume, Back
    <3>4. CASE PingSelf(c)
      BY <2>1, <3>4 DEF PingSelf
    <3> QED BY <2>1, <3>1, <3>2, <3>3, <3>4 DEF FirstStep
  <2>2. CASE \E o \in Ops : Call(c, o)
    <3>1. PICK o \in Ops : Call(c, o)
      BY <2>2
    <3>2. pc[c] \in {"idle", "frame", "terminate"}
      BY <3>1 DEF Call, InUserCode
    <3>3. CASE entry_gap
      BY <3>1, <3>2, <3>3 DEF Call
    <3>4. CASE ~entry_gap
      BY <2>1, <3>1, <3>2, <3>4 DEF Call
    <3> QED BY <3>3, <3>4
  <2>3. CASE Enter(c)
    BY <2>1, <2>3 DEF Enter
  <2>4. CASE PaintGreen(c)
    BY <2>4 DEF PaintGreen, Caller, Resume, Back
  <2>5. CASE PushZombieSelf(c)
    BY <2>5 DEF PushZombieSelf
  <2>6. CASE SwitchAlive(c) \/ SwitchGone(c) \/ SwitchZombieOther(c) \/ ZombieBeep(c)
             \/ SwitchZombieSelf(c)
    <3>1. CASE SwitchAlive(c) \/ SwitchGone(c)
      BY <3>1 DEF SwitchAlive, SwitchGone
    <3>2. CASE SwitchZombieOther(c)
      BY <3>2 DEF SwitchZombieOther
    <3>3. CASE ZombieBeep(c)
      BY <3>3 DEF ZombieBeep
    <3>4. CASE SwitchZombieSelf(c)
      BY <3>4 DEF SwitchZombieSelf
    <3> QED BY <2>6, <3>1, <3>2, <3>3, <3>4
  <2>7. CASE TryLockTaken(c) \/ TryLockRefused(c) \/ StoreState(c) \/ Plan(c) \/ Unlock(c)
    BY <2>7 DEF TryLockTaken, TryLockRefused, StoreState, Plan, Unlock
  <2>8. CASE Wait(c) \/ PushNoMemory(c) \/ PushSelf(c) \/ PushWish(c)
    BY <2>8 DEF Wait, PushNoMemory, PushSelf, PushWish
  <2>9. CASE Join(c) \/ JoinTimeout(c)
    <3>1. Goto(c, "join", Caller(c)) /\ UNCHANGED disposable
      BY <2>9 DEF Join, JoinTimeout
    <3> QED BY <3>1 DEF Caller, Resume, Back
  <2> QED BY <2>2, <2>3, <2>4, <2>5, <2>6, <2>7, <2>8, <2>9 DEF ApiStep, CallStep
<1>2. UNCHANGED <<bye, cont>> /\ (~bye => (pc[W] = "terminate") = (pc'[W] = "terminate"))
  BY CallEnd
<1>3. UNCHANGED RedAtTheEnd
  BY <1>2 DEF RedAtTheEnd
<1> QED BY <1>1, <1>3 DEF Recounted, Red

\* The worker thread paints green, once, at the end of a call of its own that
\* has ended the worker, and otherwise leaves the counter alone.
LEMMA LoopRecounted ==
  ASSUME TypeOK, DeathIsNamed, Late, ub = "none", LoopStep \/ AppStep
  PROVE  Recounted(W) /\ DeathIsNamed'
<1> DEFINE Said == /\ \/ Red(W)' = Red(W) /\ UNCHANGED <<disposable, RedAtTheEnd>>
                      \/ Red(W) /\ ~Red(W)' /\ LessRed /\ UNCHANGED RedAtTheEnd
                      \/ /\ UNCHANGED disposable
                         /\ Red(W) /\ ~Red(W)' /\ ~RedAtTheEnd /\ RedAtTheEnd'
                      \/ /\ UNCHANGED disposable
                         /\ ~Red(W) /\ Red(W)' /\ RedAtTheEnd /\ ~RedAtTheEnd'
                   /\ DeathIsNamed'
<1>1. W \in Callers /\ pc \in [Callers -> {"idle"} \cup CallPcs \cup LoopPcs]
  BY DEF Callers, TypeOK
<1>2. \A d \in Callers \ {W} : Red(d)' = Red(d)
  <2> SUFFICES ASSUME NEW d \in Callers \ {W} PROVE Red(d)' = Red(d)
    OBVIOUS
  <2>1. pc'[d] = pc[d]
    BY LoopFrame DEF Callers
  <2> QED BY <2>1 DEF Red
<1>3. bye => pc[W] \in ByePcs
  BY DEF Late, GoodbyeIsLate
<1>4. Said
  <2> USE <1>1, <1>3 DEF Goto, Red, RedAtTheEnd, ByePcs, DeathIsNamed, callVars,
          Unaffected
  <2>1. CASE Launch \/ Install \/ MainKill
    BY <2>1 DEF Launch, Install, MainKill
  <2>2. CASE OnStartReturns
    <3>1. cont' \in {"none", "dismiss", "destroy"}
      BY <2>2 DEF OnStartReturns, TypeOK, LifeInstructions
    <3>2. ~bye /\ ~bye' /\ UNCHANGED disposable
      BY <2>2 DEF OnStartReturns
    <3>3. pc[W] = "frame" /\ pc'[W] \in {"install", "main_kill"}
      BY <2>2 DEF OnStartReturns
    <3> QED BY <3>1, <3>2, <3>3
  <2>3. CASE RunListener \/ TakeWishes \/ ReadPlan
    BY <2>3 DEF RunListener, TakeWishes, ReadPlan
  <2>4. CASE Die \/ Rearm
    BY <2>4 DEF Die, Rearm, Resume, Back
  <2>5. CASE RunShutdown
    <3>1. shutdown_schedule \in {"none", "unattended", "attended"}
      BY DEF TypeOK
    <3> QED BY <2>5, <3>1 DEF RunShutdown
  <2>6. CASE UnattendedShutdown \/ AttendedShutdown \/ ClearWishes
    BY <2>6 DEF UnattendedShutdown, AttendedShutdown, ClearWishes
  <2>7. CASE SelfAsynch \/ SelfUnlock
    BY <2>7 DEF SelfAsynch, SelfUnlock
  <2>8. CASE SelfEnd
    BY <2>8 DEF SelfEnd
  <2>9. CASE SelfGreen
    BY <2>9 DEF SelfGreen, AfterDeath, Back
  <2>10. CASE SayBye \/ Terminate
    BY <2>10 DEF SayBye, Terminate, AfterDeath, Back
  <2>11. CASE Dispose \/ DisposeWait \/ Free \/ ShutdownScheduler
    BY <2>11 DEF Dispose, DisposeWait, Free, ShutdownScheduler, Back
  <2>12. CASE AutoShutdown \/ RunJob \/ FrameReturns
           \/ TaskEnds("stopping") \/ SchedulerReturns
    BY <2>12 DEF AutoShutdown, RunJob, FrameReturns, TaskEnds, SchedulerReturns
  <2>13. CASE AppStep
    BY <2>13 DEF AppStep, UserShutdown, RunTask, TaskEnds
  <2> QED
    BY <2>1, <2>2, <2>3, <2>4, <2>5, <2>6, <2>7, <2>8, <2>9, <2>10, <2>11, <2>12,
       <2>13 DEF LoopStep
<1> QED BY <1>2, <1>4 DEF Recounted

\* The inductive step.
LEMMA RefCountStep ==
  ASSUME TypeOK, RefCount, DeathIsNamed, Late, [Next]_vars
  PROVE  RefCount' /\ DeathIsNamed'
<1>1. CASE \E c \in Callers : ApiStep(c)
  <2>1. PICK c \in Callers : ApiStep(c)
    BY <1>1
  <2>2. DeathIsNamed'
    BY <2>1, CallFrame, CallEnd DEF DeathIsNamed, CallsLeaveAlone, CallPcs
  <2> QED BY <2>1, <2>2, CallRecounted, RecountedIsCounted
<1>2. CASE Running /\ (LoopStep \/ AppStep)
  BY <1>2, LoopRecounted, RecountedIsCounted DEF Callers, Running
<1>3. CASE UNCHANGED vars
  BY <1>3 DEF vars, RefCount, Red, RedAtTheEnd, DeathIsNamed
<1> QED BY <1>1, <1>2, <1>3 DEF Next

\* Whatever the threads call and whichever way the worker ends, the requirement
\* its disposal waits for counts exactly the calls that still use the instance,
\* also when on_worker_end calls the library inside such a call.
THEOREM RefCountIsExact == Spec => []RefCount
<1>1. Init => RefCount /\ DeathIsNamed
  <2> SUFFICES ASSUME Init PROVE RefCount /\ DeathIsNamed
    OBVIOUS
  <2>1. Reds = {} /\ ~RedAtTheEnd
    BY ThreadsAssumption DEF Init, Reds, Red, RedAtTheEnd, Callers
  <2> QED
    BY <2>1, FS_EmptySet, ThreadsAssumption DEF Init, RefCount, Reds, DeathIsNamed,
       Callers
<1>2. /\ Typed /\ Late /\ RefCount /\ DeathIsNamed /\ [Next]_vars
      => (RefCount /\ DeathIsNamed)'
  BY RefCountStep DEF Typed
<1> QED BY <1>1, <1>2, TypedInit, TypedStep, LateInit, LateStep, PTL DEF Spec

(***************************************************************************)
(* The two mutexes do not cross under a single destroyer                   *)
(***************************************************************************)
Destroying(c) ==
  op[c] \in DestroyOps /\ pc[c] \in {"enter", "switch", "trylock", "store", "plan"}

\* The destroyer that is on its way to the plan is alone, and is the one that
\* will make it: the worker thread reads no plan before.
LoneDestroyer ==
  /\ \A c \in Callers : pc[c] = "enter" => op[c] \in Ops
  /\ \A c \in Callers : pc[c] = "switch" => op[c] \in Ops \ {"ping"}
  /\ \A c \in Callers : pc[c] \in {"trylock", "store", "plan"} => op[c] \in DestroyOps
  /\ \A c \in Callers : Destroying(c) => destroys # 0 /\ future_plans = "LONG_LIFE"
  /\ \A c, d \in Callers : Destroying(c) /\ Destroying(d) => c = d
  /\ destroys = 0 => future_plans = "LONG_LIFE"
  /\ pc[W] = "lrh_kill" => future_plans # "LONG_LIFE"

\* A call that is under way keeps the destroyer alone: only Plan makes a plan.
LEMMA CallStepLone ==
  ASSUME TypeOK, LoneDestroyer, NEW c \in Callers, CallStep(c) \/ JoinTimeout(c)
  PROVE  LoneDestroyer'
<1>0. /\ W \in Callers
      /\ pc \in [Callers -> {"idle"} \cup CallPcs \cup LoopPcs]
      /\ op \in [Callers -> Ops \cup {"none"}]
  BY DEF Callers, TypeOK
<1> USE <1>0 DEF LoneDestroyer, Destroying, Goto, counters, loopVars
<1>1. ASSUME UNCHANGED <<op, destroys, future_plans>>, NEW p,
             pc' = [pc EXCEPT ![c] = p],
             p \notin {"enter", "switch", "trylock", "store", "plan", "lrh_kill"}
      PROVE  LoneDestroyer'
  BY <1>1
<1>2. CASE Enter(c)
  <2>1. UNCHANGED <<op, destroys, future_plans>> /\ pc[c] = "enter" /\ FirstStep(c, op[c])
    BY <1>2 DEF Enter, FirstStep
  <2>2. CASE UNCHANGED pc
    BY <2>1, <2>2
  <2>3. CASE op[c] # "ping" /\ PaintRed(c)
    BY <2>1, <2>3 DEF PaintRed
  <2>4. CASE PingOther(c) \/ PingSelf(c)
    BY <1>1, <2>1, <2>4 DEF PingOther, PingSelf, Caller, Resume, Back
  <2> QED BY <2>1, <2>2, <2>3, <2>4 DEF FirstStep
<1>3. CASE SwitchAlive(c)
  <2>1. /\ pc[c] = "switch" /\ UNCHANGED <<op, destroys, future_plans>>
        /\ pc' = [pc EXCEPT ![c] = IF op[c] = "push" THEN "enqueue" ELSE "trylock"]
    BY <1>3 DEF SwitchAlive
  <2>2. CASE op[c] = "push"
    BY <1>1, <2>1, <2>2
  <2>3. CASE op[c] # "push"
    BY <2>1, <2>3 DEF Ops
  <2> QED BY <2>2, <2>3
<1>4. CASE TryLockTaken(c)
  BY <1>4 DEF TryLockTaken
<1>5. CASE StoreState(c)
  <2>1. CASE Self(c)
    BY <1>1, <1>5, <2>1 DEF StoreState
  <2>2. CASE ~Self(c)
    BY <1>5, <2>2 DEF StoreState
  <2> QED BY <2>1, <2>2
<1>6. CASE Plan(c)
  <2>1. /\ Destroying(c) /\ future_plans' # "LONG_LIFE"
        /\ pc' = [pc EXCEPT ![c] = "unlock"] /\ UNCHANGED <<op, destroys>>
    BY <1>6 DEF Plan
  <2>2. \A d \in Callers : ~Destroying(d)'
    BY <2>1
  <2> QED BY <2>1, <2>2
<1>7. CASE SwitchGone(c) \/ SwitchZombieOther(c) \/ ZombieBeep(c)
           \/ SwitchZombieSelf(c) \/ PushZombieSelf(c)
  BY <1>1, <1>7 DEF SwitchGone, SwitchZombieOther, ZombieBeep, SwitchZombieSelf,
     PushZombieSelf
<1>8. CASE TryLockRefused(c)
  BY <1>1, <1>8 DEF TryLockRefused
<1>9. CASE Unlock(c)
  <2>1. PICK p \in {"green", "green_join", "wait"} :
           pc' = [pc EXCEPT ![c] = p] /\ UNCHANGED <<op, destroys, future_plans>>
    BY <1>9 DEF Unlock
  <2> QED BY <1>1, <2>1
<1>10. CASE Wait(c) \/ PushNoMemory(c) \/ PushSelf(c) \/ PushWish(c)
  BY <1>1, <1>10 DEF Wait, PushNoMemory, PushSelf, PushWish
<1>11. CASE Join(c) \/ JoinTimeout(c) \/ PaintGreen(c)
  <2>1. UNCHANGED <<op, destroys, future_plans>>
    BY <1>11 DEF Join, JoinTimeout, PaintGreen
  <2>2. pc' = [pc EXCEPT ![c] = Caller(c)] \/ pc' = [pc EXCEPT ![c] = "join"]
    BY <1>11 DEF Join, JoinTimeout, PaintGreen
  <2>3. Caller(c) \notin {"enter", "switch", "trylock", "store", "plan", "lrh_kill"}
    BY DEF Caller, Resume, Back
  <2> QED BY <1>1, <2>1, <2>2, <2>3
<1> QED
  BY <1>2, <1>3, <1>4, <1>5, <1>6, <1>7, <1>8, <1>9, <1>10, <1>11 DEF CallStep

\* With a single destroying call allowed, one that begins finds no other.
LEMMA CallLone ==
  ASSUME TypeOK, LoneDestroyer, MaxDestroys = 1, NEW c \in Callers, NEW o \in Ops,
         Call(c, o)
  PROVE  LoneDestroyer'
<1>0. /\ W \in Callers
      /\ pc \in [Callers -> {"idle"} \cup CallPcs \cup LoopPcs]
      /\ op \in [Callers -> Ops \cup {"none"}]
      /\ destroys \in 0..1
  BY DEF Callers, TypeOK
<1>1. /\ op' = [op EXCEPT ![c] = o]
      /\ o \in DestroyOps => destroys = 0 /\ destroys' = 1
      /\ o \notin DestroyOps => destroys' = destroys
      /\ UNCHANGED future_plans
      /\ pc[c] \in {"idle", "frame", "terminate"}
  BY <1>0 DEF Call, InUserCode, FirstStep, loopVars
<1>2. PICK p \in {"enter", "switch", "lrh", "other"} :
        /\ p = "switch" => o # "ping"
        /\ p # "other" => pc' = [pc EXCEPT ![c] = p]
        /\ p = "other" => pc'[c] \in {"idle", "loop", "frame", "terminate"}
                          /\ \A d \in Callers \ {c} : pc'[d] = pc[d]
  <2>1. CASE entry_gap
    BY <2>1 DEF Call
  <2>2. CASE ~entry_gap /\ UNCHANGED pc
    BY <1>1, <2>2
  <2>3. CASE o # "ping" /\ PaintRed(c)
    BY <2>3 DEF PaintRed
  <2>4. CASE PingOther(c)
    BY <1>0, <2>4 DEF PingOther, Caller, Resume, Back
  <2>5. CASE PingSelf(c)
    BY <2>5 DEF PingSelf
  <2> QED BY <2>1, <2>2, <2>3, <2>4, <2>5 DEF Call, FirstStep
<1>3. /\ \A d \in Callers \ {c} : pc'[d] = pc[d] /\ op'[d] = op[d]
      /\ op'[c] = o
      /\ pc'[c] \in {"enter", "switch", "lrh", "idle", "loop", "frame", "terminate"}
      /\ pc'[c] = "switch" => o # "ping"
  BY <1>0, <1>1, <1>2
<1>4. \A d \in Callers \ {c} : Destroying(d)' = Destroying(d)
  BY <1>3 DEF Destroying
<1>5. Destroying(c)' => o \in DestroyOps
  BY <1>3 DEF Destroying
<1>6. CASE o \in DestroyOps
  <2>1. future_plans' = "LONG_LIFE" /\ destroys' # 0
        /\ \A d \in Callers \ {c} : ~Destroying(d)'
    BY <1>0, <1>1, <1>4, <1>6 DEF LoneDestroyer
  <2> QED BY <1>0, <1>1, <1>3, <1>6, <2>1 DEF LoneDestroyer
<1>7. CASE o \notin DestroyOps
  <2>1. ~Destroying(c)' /\ UNCHANGED <<destroys, future_plans>>
    BY <1>1, <1>5, <1>7
  <2> QED BY <1>0, <1>3, <1>4, <1>7, <2>1 DEF LoneDestroyer
<1> QED BY <1>6, <1>7

\* The worker thread reads a plan that has been made.
LEMMA LoopLone ==
  ASSUME TypeOK, LoneDestroyer, LoopStep \/ AppStep
  PROVE  LoneDestroyer'
<1>0. /\ W \in Callers
      /\ pc \in [Callers -> {"idle"} \cup CallPcs \cup LoopPcs]
      /\ \A d \in Callers \ {W} : pc'[d] = pc[d]
  BY LoopFrame DEF Callers, TypeOK
<1>1. UNCHANGED <<op, destroys, future_plans>>
  BY DEF LoopStep, AppStep, Launch, OnStartReturns, Install, MainKill,
     RunListener, TakeWishes, ReadPlan, Die, Rearm,
     RunShutdown, UnattendedShutdown, AttendedShutdown, ClearWishes,
     SelfAsynch, SelfUnlock, SelfEnd, SelfGreen,
     SayBye, Terminate, Dispose, DisposeWait, Free, ShutdownScheduler,
     AutoShutdown, RunJob, FrameReturns, TaskEnds, SchedulerReturns,
     UserShutdown, RunTask, callVars, counters, Unaffected
<1>2. \/ pc'[W] = pc[W]
      \/ pc'[W] \notin {"enter", "switch", "trylock", "store", "plan", "lrh_kill"}
      \/ pc'[W] = "lrh_kill" /\ future_plans # "LONG_LIFE"
  <2> USE <1>0 DEF Goto
  <2>1. CASE Launch \/ OnStartReturns \/ Install \/ MainKill
    BY <2>1 DEF Launch, OnStartReturns, Install, MainKill
  <2>2. CASE RunListener \/ TakeWishes \/ ReadPlan \/ Die \/ Rearm
    BY <2>2 DEF RunListener, TakeWishes, ReadPlan, Die, Rearm, Resume, Back, MustDie
  <2>3. CASE RunShutdown
    BY <2>3 DEF RunShutdown, TypeOK
  <2>4. CASE UnattendedShutdown \/ AttendedShutdown \/ ClearWishes
    BY <2>4 DEF UnattendedShutdown, AttendedShutdown, ClearWishes
  <2>5. CASE SelfAsynch \/ SelfUnlock \/ SelfEnd \/ SelfGreen
    BY <2>5 DEF SelfAsynch, SelfUnlock, SelfEnd, SelfGreen, AfterDeath, Back
  <2>6. CASE SayBye \/ Terminate \/ Dispose \/ DisposeWait \/ Free \/ ShutdownScheduler
    BY <2>6 DEF SayBye, Terminate, Dispose, DisposeWait, Free, ShutdownScheduler,
       AfterDeath, Back
  <2>7. CASE AutoShutdown \/ RunJob \/ FrameReturns
             \/ TaskEnds("stopping") \/ SchedulerReturns
    BY <2>7 DEF AutoShutdown, RunJob, FrameReturns, TaskEnds, SchedulerReturns
  <2>8. CASE AppStep
    BY <2>8 DEF AppStep, UserShutdown, RunTask, TaskEnds
  <2> QED BY <2>1, <2>2, <2>3, <2>4, <2>5, <2>6, <2>7, <2>8 DEF LoopStep
<1> QED BY <1>0, <1>1, <1>2 DEF LoneDestroyer, Destroying

\* As long as a single destroying call is made, by whichever thread, the
\* worker thread never waits for a kill_mutex whose owner waits for
\* wishes_mutex, however many threads push and ping.
THEOREM OneDestroyerNoLockCycle ==
  ASSUME MaxDestroys = 1
  PROVE  Spec => []NoLockCycle
<1>1. Init => LoneDestroyer
  <2> SUFFICES ASSUME Init PROVE LoneDestroyer
    OBVIOUS
  <2>1. \A c \in Callers : pc[c] \in {"idle", "install", "launch"}
    BY DEF Init
  <2> QED
    BY <2>1 DEF Init, LoneDestroyer, Destroying, Callers
<1>2. Typed /\ LoneDestroyer /\ [Next]_vars => LoneDestroyer'
  <2> SUFFICES ASSUME TypeOK, LoneDestroyer, [Next]_vars PROVE LoneDestroyer'
    BY DEF Typed
  <2>1. CASE \E c \in Callers : ApiStep(c)
    BY <2>1, CallLone, CallStepLone DEF ApiStep
  <2>2. CASE LoopStep \/ AppStep
    BY <2>2, LoopLone
  <2>3. CASE UNCHANGED vars
    BY <2>3 DEF vars, counters, LoneDestroyer, Destroying
  <2> QED BY <2>1, <2>2, <2>3 DEF Next
<1>3. LoneDestroyer => NoLockCycle
  BY DEF LoneDestroyer, NoLockCycle, Destroying, Callers
<1> QED BY <1>1, <1>2, <1>3, TypedInit, TypedStep, PTL DEF Spec
=============================================================================
