----------------------- MODULE WorkerRefinementProofs -----------------------
(***************************************************************************)
(* Used in an orderly way, and by calls that do not come too late, the     *)
(* worker does what WorkerSpec says and no more.                           *)
(***************************************************************************)
EXTENDS WorkerSafetyProofs

(***************************************************************************)
(* Who is inside a call                                                    *)
(***************************************************************************)
\* The worker thread is inside a call that ends the worker also while
\* on_worker_end runs.
SelfInside == Red(W) \/ RedAtTheEnd

\* A step of the worker thread changes Inside by what it does to itself.
LEMMA LoopInside ==
  ASSUME TypeOK, LoopStep \/ AppStep
  PROVE  /\ SelfInside' = SelfInside => Inside' = Inside
         /\ SelfInside /\ ~SelfInside' => W \in Inside /\ Inside' = Inside \ {W}
<1>1. Callers = Threads \cup {W} /\ W \notin Threads
  BY ThreadsAssumption DEF Callers
<1>2. \A t \in Threads : Red(t)' = Red(t)
  BY LoopFrame DEF Red
<1> QED BY <1>1, <1>2 DEF Inside, SelfInside

\* A step of a call adds the caller that paints red, and takes away the one that
\* paints green.
LEMMA CallInside ==
  ASSUME TypeOK, NEW c \in Callers, ApiStep(c)
  PROVE  /\ Red(c)' = Red(c) => Inside' = Inside
         /\ ~Red(c) => \/ Inside' = Inside
                       \/ c \in Callers \ Inside /\ Inside' = Inside \cup {c}
         /\ Red(c) => \/ Inside' = Inside
                      \/ c \in Inside /\ Inside' = Inside \ {c}
<1>1. \A d \in Callers \ {c} : Red(d)' = Red(d)
  BY CallRecounted DEF Recounted
<1>2. UNCHANGED RedAtTheEnd
  BY CallEnd, CallFrame DEF RedAtTheEnd, CallsLeaveAlone, CallPcs
<1>3. ASSUME NEW d
      PROVE  d \in Inside' <=> \/ d \in Callers /\ Red(d)'
                               \/ d = W /\ RedAtTheEnd
  BY <1>2 DEF Inside
<1>4. ASSUME NEW d
      PROVE  d \in Inside <=> \/ d \in Callers /\ Red(d)
                              \/ d = W /\ RedAtTheEnd
  BY DEF Inside
<1>5. \A d \in Callers : Red(d) \in BOOLEAN /\ Red(d)' \in BOOLEAN
  BY DEF Red
<1>6. \A d : d # c => (d \in Inside' <=> d \in Inside)
  BY <1>1, <1>3, <1>4
<1>7. CASE c \in Inside <=> c \in Inside'
  BY <1>6, <1>7
<1>8. CASE c \in Inside /\ c \notin Inside'
  BY <1>3, <1>4, <1>6, <1>8
<1>9. CASE c \notin Inside /\ c \in Inside'
  BY <1>3, <1>4, <1>6, <1>9
<1> QED BY <1>7, <1>8, <1>9

(***************************************************************************)
(* Step by step                                                            *)
(***************************************************************************)
\* A worker that has just been allocated is alive, idle and in nobody's hands.
LEMMA InitRefines == Init => WSpec!Init
<1> SUFFICES ASSUME Init PROVE WSpec!Init
  OBVIOUS
<1>1. \A c \in Callers : ~Red(c)
  BY DEF Init, Red
<1>2. ~RedAtTheEnd /\ Phase = "living" /\ schedules = 0
  BY ThreadsAssumption DEF Init, RedAtTheEnd, Phase, Callers
<1> QED BY <1>1, <1>2 DEF WSpec!Init, Inside

\* A public call: it enters, it leaves, it condemns, or it gives a job.
LEMMA CallRefines ==
  ASSUME Known, IInv, ~entry_gap, NEW c \in Callers, ApiStep(c)
  PROVE  [WSpec!Next]_(WSpec!vars)
<1>1. Callers = Threads \cup {W} /\ W \notin Threads /\ NoThread \notin Callers
  BY ThreadsAssumption DEF Callers
<1>2. TypeOK
  BY DEF Known, Typed
<1> USE <1>1, <1>2, CallInside DEF WSpec!vars, WSpec!Next, Goto
<1>3. ASSUME Red(c)' = Red(c), UNCHANGED <<state, freed, schedules>>
      PROVE  UNCHANGED <<Phase, Inside, schedules>>
  BY <1>3 DEF Phase
<1>4. CASE \E o \in Ops : Call(c, o)
  <2>1. PICK o \in Ops : Call(c, o)
    BY <1>4
  <2>2. FirstStep(c, o) /\ ~freed /\ state # "DEAD"
    BY <2>1 DEF Call, IInv, Dead, FirstStep, Defined
  <2>3. UNCHANGED <<state, freed, schedules>>
    BY <2>2 DEF FirstStep, PaintRed, PingOther, PingSelf, loopVars, tasks
  <2>4. ~Red(c)
    BY <2>1 DEF Call, InUserCode, Red
  <2>5. WSpec!InLife /\ UNCHANGED Phase
    BY <2>2, <2>3 DEF WSpec!InLife, Phase
  <2> QED BY <2>3, <2>4, <2>5 DEF WSpec!Enter
<1>5. CASE PaintGreen(c) \/ PushZombieSelf(c)
  <2>1. Red(c) /\ UNCHANGED <<state, freed, schedules>>
    BY <1>5 DEF PaintGreen, PushZombieSelf, Red, tasks, loopVars
  <2> QED BY <2>1 DEF WSpec!Leave, Phase
<1>6. CASE StoreState(c)
  <2>1. Red(c)' = Red(c) /\ UNCHANGED <<freed, schedules>> /\ schedules \in Nat
    BY <1>6 DEF StoreState, Red, tasks, loopVars, TypeOK, Self
  <2>2. state = "ALIVE" /\ state' \in {"SAYS_BYE", "DYING"} /\ ~freed
    BY <1>6 DEF StoreState, IInv, Plans, Dead, Condemned
  <2>3. Phase = "living" /\ Phase' = "condemned"
    BY <2>1, <2>2 DEF Phase
  <2> QED BY <2>1, <2>3 DEF WSpec!Condemn, WSpec!InLife
<1>7. CASE Plan(c) \/ Unlock(c)
  <2>1. Red(c)' = Red(c) /\ UNCHANGED <<freed, schedules>>
    BY <1>7 DEF Plan, Unlock, Red, tasks, loopVars, TypeOK
  <2>2. c # W /\ state # "ALIVE" /\ state # "DEAD"
    BY <1>7 DEF Plan, Unlock, IInv, SelfCalls, CallPcs, Plans, KillOwner, Dead, Known, Late,
       CondemnedFirst, Deserted
  <2>3. state' # "ALIVE" /\ state' # "DEAD"
    BY <1>7, <2>2 DEF Plan, Unlock
  <2>4. UNCHANGED Phase
    BY <2>1, <2>2, <2>3 DEF Phase
  <2> QED BY <2>1, <2>4
<1>8. CASE PushSelf(c)
  <2>1. Red(c)' = Red(c) /\ UNCHANGED <<state, freed>> /\ schedules' = schedules + 1
    BY <1>8 DEF PushSelf, Red, loopVars, TypeOK
  <2>2. state # "DEAD" /\ ~freed
    BY <1>8 DEF PushSelf, Self, IInv, Dead
  <2>3. WSpec!InLife /\ UNCHANGED Phase
    BY <2>1, <2>2 DEF WSpec!InLife, Phase
  <2> QED BY <2>1, <2>3 DEF WSpec!Schedule, TypeOK
<1>9. CASE SwitchAlive(c) \/ SwitchGone(c) \/ SwitchZombieOther(c) \/ ZombieBeep(c)
           \/ SwitchZombieSelf(c)
  <2>1. UNCHANGED <<state, freed, schedules>>
    BY <1>9 DEF SwitchAlive, SwitchGone, SwitchZombieOther, ZombieBeep, SwitchZombieSelf,
       tasks, loopVars
  <2>2. /\ pc[c] \in {"switch", "zombie_beep"}
        /\ pc'[c] \in {"enqueue", "trylock", "green", "zombie_beep", "self_clear"}
    BY <1>9 DEF SwitchAlive, SwitchGone, SwitchZombieOther, ZombieBeep, SwitchZombieSelf,
       TypeOK
  <2>3. Red(c)' = Red(c)
    BY <2>2 DEF Red
  <2> QED BY <1>3, <2>1, <2>3
<1>10. CASE TryLockTaken(c) \/ TryLockRefused(c) \/ Wait(c) \/ PushNoMemory(c)
            \/ PushWish(c)
  BY <1>3, <1>10 DEF TryLockTaken, TryLockRefused, Wait, PushNoMemory, PushWish,
     Red, tasks, loopVars, TypeOK
<1>11. CASE Join(c) \/ JoinTimeout(c)
  <2>1. Goto(c, "join", Caller(c)) /\ UNCHANGED <<state, freed, schedules>>
    BY <1>11 DEF Join, JoinTimeout, tasks, loopVars
  <2>2. Red(c)' = Red(c)
    BY <2>1 DEF Red, Caller, Resume, Back, TypeOK
  <2> QED BY <1>3, <2>1, <2>2
<1>12. ~Enter(c)
  BY DEF Enter, IInv, Called
<1> QED
  BY <1>4, <1>5, <1>6, <1>7, <1>8, <1>9, <1>10, <1>11, <1>12 DEF ApiStep, CallStep

\* The worker thread: it takes wishes, runs jobs, drops them, condemns, dies, frees.
LEMMA LoopRefines ==
  ASSUME Known, IInv, ~entry_gap, ub = "none", LoopStep \/ AppStep
  PROVE  [WSpec!Next]_(WSpec!vars)
<1>1. /\ Callers = Threads \cup {W} /\ W \notin Threads /\ NoThread \notin Callers
      /\ pc \in [Callers -> {"idle"} \cup CallPcs \cup LoopPcs]
      /\ schedules \in Nat /\ wishlist \in Nat
  BY ThreadsAssumption DEF Callers, Known, Typed, TypeOK
<1>2. /\ SelfInside' = SelfInside => Inside' = Inside
      /\ SelfInside /\ ~SelfInside' => W \in Inside /\ Inside' = Inside \ {W}
  BY LoopInside DEF Known, Typed
<1> USE <1>1, <1>2 DEF WSpec!vars, WSpec!Next, Goto, SelfInside, Red, RedAtTheEnd,
        callVars, tasks, Unaffected
<1>3. ASSUME SelfInside' = SelfInside, UNCHANGED <<state, freed, schedules>>
      PROVE  UNCHANGED <<Phase, Inside, schedules>>
  BY <1>3 DEF Phase
<1>4. ASSUME SelfInside' = SelfInside, state \notin {"ALIVE", "DEAD"}, ~freed,
             UNCHANGED <<state, freed>>, schedules' = 0
      PROVE  WSpec!Condemn
  <2>1. Phase = "condemned" /\ Phase' = "condemned"
    BY <1>4 DEF Phase
  <2> QED BY <1>4, <2>1 DEF WSpec!Condemn, WSpec!InLife
<1>5. state = "DEAD" => ~bye
  BY DEF IInv, Dead
<1>6. CASE Launch \/ OnStartReturns \/ Install
  <2>1. ~SelfInside /\ ~SelfInside'
    BY <1>6 DEF Launch, OnStartReturns, Install, IInv, SelfCalls
  <2> QED BY <1>3, <1>6, <2>1 DEF Launch, OnStartReturns, Install, HandlersArmed
<1>7. CASE MainKill
  <2>1. ~SelfInside /\ ~SelfInside' /\ UNCHANGED <<freed, schedules>>
    BY <1>7 DEF MainKill, IInv, SelfCalls
  <2>2. state # "DEAD" /\ ~freed /\ state' = "DYING"
    BY <1>7 DEF MainKill, IInv, Phases, Beginning, Ending, Dead
  <2>3. WSpec!InLife /\ Phase' = "condemned"
    BY <2>1, <2>2 DEF WSpec!InLife, Phase
  <2> QED BY <2>1, <2>3 DEF WSpec!Condemn
<1>8. CASE RunListener \/ ReadPlan \/ Rearm \/ RunShutdown
  <2>1. ~bye /\ ~bye' /\ UNCHANGED <<state, freed, schedules>>
    BY <1>8 DEF RunListener, ReadPlan, Rearm, RunShutdown, IInv, SelfCalls
  <2>2. pc[W] \in {"loop", "lrh", "lrh_rearm"}
        /\ pc'[W] \in {"lrh", "lrh_kill", "loop", "frame", "unattended", "attended", "none"}
    BY <1>8, <2>1 DEF RunListener, ReadPlan, Rearm, RunShutdown, Resume, Back, Known,
       Typed, TypeOK
  <2> QED BY <1>3, <2>1, <2>2
<1>9. CASE TakeWishes
  <2>1. ~SelfInside /\ ~SelfInside' /\ UNCHANGED <<state, freed>>
        /\ schedules' = schedules + wishlist
    BY <1>9 DEF TakeWishes, IInv, SelfCalls
  <2>2. state # "DEAD" /\ ~freed
    BY <1>9 DEF TakeWishes, IInv, Dead
  <2>3. WSpec!InLife /\ UNCHANGED Phase
    BY <2>1, <2>2 DEF WSpec!InLife, Phase
  <2>4. CASE wishlist = 0
    BY <1>3, <2>1, <2>4
  <2>5. CASE wishlist # 0
    BY <2>1, <2>3, <2>5 DEF WSpec!Schedule
  <2> QED BY <2>4, <2>5
<1>10. CASE Die \/ SelfEnd \/ SelfAsynch
  <2>1. state \notin {"ALIVE", "DEAD"} /\ ~freed
    BY <1>10 DEF Die, SelfEnd, SelfAsynch, IInv, Dead, Known, Late, CondemnedFirst
  <2>2. UNCHANGED <<state, freed>> /\ schedules' = 0
    BY <1>10 DEF Die, SelfEnd, SelfAsynch, JobsCleared, SelfCleared
  <2>3. CASE Die
    <3>1. ~bye /\ cont' \in {"dismiss", "destroy"}
      BY <2>3 DEF Die, IInv, SelfCalls
    <3>2. ~SelfInside /\ ~SelfInside'
      BY <2>3, <3>1 DEF Die
    <3> QED BY <1>4, <2>1, <2>2, <3>2
  <2>4. CASE SelfEnd
    <3>1. SelfInside /\ SelfInside'
      BY <2>4 DEF SelfEnd
    <3> QED BY <1>4, <2>1, <2>2, <3>1
  <2>5. CASE SelfAsynch
    <3>1. SelfInside /\ SelfInside'
      BY <2>5 DEF SelfAsynch
    <3> QED BY <1>4, <2>1, <2>2, <3>1
  <2> QED BY <1>10, <2>3, <2>4, <2>5
<1>11. CASE UnattendedShutdown
  <2>1. ~SelfInside /\ ~SelfInside' /\ UNCHANGED freed /\ schedules' = 0
    BY <1>11 DEF UnattendedShutdown, JobsCleared, IInv, SelfCalls
  <2>2. state # "DEAD" /\ ~freed /\ state' \in {"SAYS_BYE", "DYING"}
    BY <1>11 DEF UnattendedShutdown, IInv, Dead, Condemned
  <2>3. WSpec!InLife /\ Phase' = "condemned"
    BY <2>1, <2>2 DEF WSpec!InLife, Phase
  <2> QED BY <2>1, <2>3 DEF WSpec!Condemn
<1>12. CASE AttendedShutdown \/ ClearWishes
  <2>1. /\ ~bye /\ cont' \notin {"self_dismiss", "self_destroy"}
        /\ UNCHANGED <<state, freed, schedules>>
    BY <1>12 DEF AttendedShutdown, ClearWishes, IInv, SelfCalls, Known, DeathIsNamed
  <2> QED BY <1>3, <1>12, <2>1 DEF AttendedShutdown, ClearWishes
<1>13. CASE SelfUnlock \/ SayBye
  <2>1. CASE SelfUnlock
    BY <1>3, <2>1 DEF SelfUnlock
  <2>2. CASE SayBye
    BY <1>3, <2>2 DEF SayBye
  <2> QED BY <1>13, <2>1, <2>2
<1>14. CASE SelfGreen
  <2>1. ~bye /\ ~bye' /\ SelfInside /\ ~SelfInside' /\ UNCHANGED <<state, freed, schedules>>
    BY <1>14 DEF SelfGreen, AfterDeath, Back, IInv, SelfCalls
  <2> QED BY <2>1 DEF WSpec!Leave, Phase
<1>15. CASE Terminate
  <2>1. SelfInside' = SelfInside /\ UNCHANGED <<freed, schedules>>
    BY <1>15 DEF Terminate, AfterDeath, Back
  <2>2. schedules = 0 /\ state \notin {"ALIVE", "DEAD"} /\ ~freed /\ state' = "DEAD"
    BY <1>15 DEF Terminate, IInv, Phases, Ending, Dead, Known, Late, CondemnedFirst
  <2>3. Phase = "condemned" /\ Phase' = "dead"
    BY <2>1, <2>2 DEF Phase
  <2> QED BY <2>1, <2>2, <2>3 DEF WSpec!Die
<1>16. CASE Dispose \/ DisposeWait
  <2>1. ~bye
    BY <1>5, <1>16 DEF Dispose, DisposeWait, IInv, Dead
  <2> QED BY <1>3, <1>16, <2>1 DEF Dispose, DisposeWait
<1>17. CASE Free
  <2>1. state = "DEAD" /\ ~freed /\ freed' /\ UNCHANGED <<state, schedules>>
    BY <1>17 DEF Free, IInv, Dead
  <2>2. \A t \in Threads : ~Red(t)
    BY <1>17 DEF Free, IInv, Deserted
  <2>3. ~SelfInside /\ ~SelfInside'
    BY <1>5, <1>17, <2>1 DEF Free, Back
  <2>4. Inside = {} /\ Inside' = Inside
    BY <2>2, <2>3 DEF Inside
  <2>5. Phase = "dead" /\ Phase' = "freed"
    BY <2>1 DEF Phase
  <2> QED BY <2>1, <2>4, <2>5 DEF WSpec!Free
<1>18. CASE RunJob
  <2>1. ~SelfInside /\ ~SelfInside' /\ UNCHANGED <<state, freed>>
        /\ schedules > 0 /\ schedules' = schedules - 1
    BY <1>18 DEF RunJob, IInv, SelfCalls
  <2>2. state # "DEAD" /\ ~freed
    BY <2>1 DEF IInv, Phases, Ending, Dead
  <2>3. WSpec!InLife /\ UNCHANGED Phase
    BY <2>1, <2>2 DEF WSpec!InLife, Phase
  <2> QED BY <2>1, <2>3 DEF WSpec!Run
<1>19. CASE ShutdownScheduler \/ AutoShutdown \/ FrameReturns \/ TaskEnds("stopping")
           \/ SchedulerReturns \/ AppStep
  <2>1. ~bye /\ ~bye' /\ UNCHANGED <<state, freed, schedules>>
    BY <1>19 DEF ShutdownScheduler, AutoShutdown, FrameReturns, TaskEnds, SchedulerReturns,
       AppStep, UserShutdown, RunTask, IInv, SelfCalls
  <2>2. pc[W] \in {"shutdown", "loop", "frame"}
        /\ pc'[W] \in {"loop", "frame", "exited", "dispose", "aborted"}
    BY <1>19 DEF ShutdownScheduler, AutoShutdown, FrameReturns, TaskEnds, SchedulerReturns,
       AppStep, UserShutdown, RunTask, Back
  <2> QED BY <1>3, <2>1, <2>2
<1> QED
  BY <1>6, <1>7, <1>8, <1>9, <1>10, <1>11, <1>12, <1>13, <1>14, <1>15, <1>16, <1>17,
     <1>18, <1>19 DEF LoopStep

\* Nobody changes how the worker was created.
LEMMA GapIsConstant == [Next]_vars => UNCHANGED entry_gap
<1>1. ASSUME NEW c \in Callers, ApiStep(c) PROVE UNCHANGED entry_gap
  <2>1. CASE \E o \in Ops : Call(c, o)
    BY <2>1 DEF Call, FirstStep, config
  <2>2. CASE CallStep(c) \/ JoinTimeout(c)
    BY <2>2 DEF CallStep, callVars, config, Unaffected, Enter, FirstStep, SwitchAlive, SwitchGone,
       SwitchZombieOther, ZombieBeep, SwitchZombieSelf, PushZombieSelf, TryLockTaken,
       TryLockRefused, StoreState, Plan, Unlock, Wait, Join, JoinTimeout, PushNoMemory,
       PushSelf, PushWish, PaintGreen
  <2> QED BY <1>1, <2>1, <2>2 DEF ApiStep
<1>2. CASE LoopStep
  <2> USE DEF config, callVars, Unaffected
  <2>1. CASE Launch \/ OnStartReturns \/ Install \/ MainKill \/ RunListener \/ TakeWishes
             \/ ReadPlan \/ Die \/ Rearm
    BY <2>1 DEF Launch, OnStartReturns, Install, MainKill, RunListener, TakeWishes,
       ReadPlan, Die, Rearm
  <2>2. CASE RunShutdown \/ UnattendedShutdown \/ AttendedShutdown \/ ClearWishes
             \/ SelfAsynch \/ SelfUnlock \/ SelfEnd \/ SelfGreen
    BY <2>2 DEF RunShutdown, UnattendedShutdown, AttendedShutdown, ClearWishes,
       SelfAsynch, SelfUnlock, SelfEnd, SelfGreen
  <2>3. CASE SayBye \/ Terminate \/ Dispose \/ DisposeWait \/ Free
    BY <2>3 DEF SayBye, Terminate, Dispose, DisposeWait, Free
  <2>4. CASE ShutdownScheduler \/ AutoShutdown \/ RunJob \/ FrameReturns
             \/ TaskEnds("stopping") \/ SchedulerReturns
    BY <2>4 DEF ShutdownScheduler, AutoShutdown, RunJob, FrameReturns, TaskEnds,
       SchedulerReturns
  <2> QED BY <1>2, <2>1, <2>2, <2>3, <2>4 DEF LoopStep
<1>3. CASE AppStep
  BY <1>3 DEF AppStep, config, callVars, Unaffected, UserShutdown, RunTask, TaskEnds,
     FrameReturns
<1>4. CASE UNCHANGED vars
  BY <1>4 DEF vars, config
<1> QED BY <1>1, <1>2, <1>3, <1>4 DEF Next

\* The worker implements its abstract specification: no call begins after the death, no
\* job is left to run by then, nobody comes back from a condemnation, and the instance
\* is freed under no call.
THEOREM WorkerIsWorkerSpec ==
  ASSUME Orderly
  PROVE  Spec /\ ~entry_gap => ImplementsWorkerSpec
<1>1. Known /\ IInv /\ ~entry_gap /\ [Next]_vars => [WSpec!Next]_(WSpec!vars)
  <2> SUFFICES ASSUME Known, IInv, ~entry_gap, [Next]_vars
               PROVE  [WSpec!Next]_(WSpec!vars)
    OBVIOUS
  <2>1. CASE \E c \in Callers : ApiStep(c)
    BY <2>1, CallRefines
  <2>2. CASE Running /\ (LoopStep \/ AppStep)
    BY <2>2, LoopRefines DEF Running
  <2>3. CASE UNCHANGED vars
    BY <2>3 DEF vars, tasks, WSpec!vars, Phase, Inside, Red, RedAtTheEnd
  <2> QED BY <2>1, <2>2, <2>3 DEF Next
<1>2. ~entry_gap /\ [Next]_vars => ~entry_gap'
  BY GapIsConstant
<1>3. Spec /\ ~entry_gap => [][WSpec!Next]_(WSpec!vars)
  BY <1>1, <1>2, Invariant, PTL DEF Spec
<1> QED BY <1>3, InitRefines, PTL DEF Spec, ImplementsWorkerSpec, WSpec!Spec

=============================================================================
