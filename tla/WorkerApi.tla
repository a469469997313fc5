------------------------------ MODULE WorkerApi ------------------------------
(***************************************************************************)
(* The public calls on a worker's handle: the four destroying functions,   *)
(* push_load (with or without priority) and ping.  Any thread may be       *)
(* inside one, the worker thread included when user code runs on it.       *)
(***************************************************************************)
EXTENDS WorkerState

loopVars == <<future_plans, serving, frame, bye, cont, has_returned, freed>>

(***************************************************************************)
(* Entering a call                                                         *)
(***************************************************************************)
\* requirement_paint_red(), the first thing a call but ping does.
PaintRed(c) ==
  /\ disposable' = disposable + 1
  /\ pc' = [pc EXCEPT ![c] = "switch"]
  /\ UNCHANGED <<queue, tasks, ret, ub>>

\* Where caller c continues when a call returns.
Caller(c) == IF c = W THEN Resume ELSE "idle"

\* ping from another thread: one write, the worker is not painted red.
PingOther(c) ==
  /\ Beep(TRUE)
  /\ ret' = [ret EXCEPT ![c] = IF PipeIsFull THEN "SIGNAL" ELSE "SUCCESS"]
  /\ pc' = [pc EXCEPT ![c] = Caller(c)]
  /\ UNCHANGED <<wishlist, disposable, tasks, ub>>

\* ping from the worker thread: clear_schedule(), then load_request_handler().
PingSelf(c) ==
  /\ listener_schedule' = FALSE
  /\ ret' = [ret EXCEPT ![c] = "SUCCESS"]
  /\ pc' = [pc EXCEPT ![c] = "lrh"]
  /\ UNCHANGED <<queue, disposable, schedules, shutdown_schedule,
                 shutdown_ready, user_task, ub>>

FirstStep(c, o) ==
  /\ \/ /\ freed
        /\ ub' = "use_after_free"
        /\ UNCHANGED <<queue, disposable, tasks, ret, pc>>
     \/ ~freed /\ o # "ping" /\ PaintRed(c)
     \/ ~freed /\ o = "ping" /\ ~Self(c) /\ PingOther(c)
     \/ ~freed /\ o = "ping" /\ Self(c) /\ PingSelf(c)
  /\ UNCHANGED <<config, state, locks, worker_thread, loopVars>>

\* User code on the worker thread that makes call o
InUserCode(o) ==
  \/ pc[W] = "frame" /\ o \in FrameOps[frame]
  \/ pc[W] = "terminate" /\ bye /\ o \in FrameOps["on_end"]

\* The application calls: a thread that is idle, or user code on W.  It knows
\* better than to use the handle of a worker whose on_worker_end has returned.
Call(c, o) ==
  /\ IF c = W THEN InUserCode(o)
              ELSE pc[c] = "idle" /\ o \in ThreadOps[c]
  /\ calls < MaxCalls
  /\ o \in DestroyOps => destroys < MaxDestroys
  /\ state # "DEAD"
  /\ op' = [op EXCEPT ![c] = o]
  /\ calls' = calls + 1
  /\ destroys' = IF o \in DestroyOps THEN destroys + 1 ELSE destroys
  /\ IF entry_gap
     THEN /\ pc' = [pc EXCEPT ![c] = "enter"]
          /\ UNCHANGED <<config, state, locks, queue, disposable, worker_thread,
                         tasks, loopVars, ret, ub>>
     ELSE FirstStep(c, o)

Enter(c) ==
  /\ pc[c] = "enter"
  /\ FirstStep(c, op[c])
  /\ UNCHANGED <<op, counters>>

(***************************************************************************)
(* switch (atomic_load(&worker->state))                                    *)
(***************************************************************************)
Answer(c, code) == ret' = [ret EXCEPT ![c] = code]

SwitchAlive(c) ==
  /\ state = "ALIVE"
  /\ Goto(c, "switch", IF op[c] = "push" THEN "enqueue" ELSE "trylock")
  /\ UNCHANGED <<config, state, locks, queue, disposable, worker_thread, tasks,
                 loopVars, op, ret, counters, ub>>

\* What a call that comes too late returns; `in_time' if on_worker_end may still
\* be running.
TooLate(o, in_time) ==
  CASE o = "push" -> IF in_time THEN "SUCCESS" ELSE "INVALID_HANDLE"
    [] o \in WaitingOps -> IF in_time THEN "NOT_ALONE" ELSE "DOUBLE_FREE"
    [] OTHER -> IF in_time THEN "SUCCESS" ELSE "DOUBLE_FREE"

SwitchGone(c) ==
  /\ state \in {"SAYS_BYE", "DYING", "DEAD"}
  /\ Goto(c, "switch", "green")
  /\ Answer(c, TooLate(op[c], state = "SAYS_BYE"))
  /\ UNCHANGED <<config, state, locks, queue, disposable, worker_thread, tasks,
                 loopVars, op, counters, ub>>

SwitchZombieOther(c) ==
  /\ state = "ZOMBIE"
  /\ ~Self(c)
  /\ Goto(c, "switch", "zombie_beep")
  /\ UNCHANGED <<config, state, locks, queue, disposable, worker_thread, tasks,
                 loopVars, op, ret, counters, ub>>

\* The zombie is unzombified by another beep.
ZombieBeep(c) ==
  /\ Goto(c, "zombie_beep", "green")
  /\ Beep(TRUE)
  /\ Answer(c, IF PipeIsFull THEN "SIGNAL" ELSE "SUCCESS")
  /\ UNCHANGED <<config, state, locks, wishlist, disposable, worker_thread, tasks,
                 loopVars, op, counters, ub>>

\* goto ..._self_...: the destroying functions carry on as if kill_mutex had
\* been taken.  Inside on_worker_end they end the worker a second time.
SwitchZombieSelf(c) ==
  /\ state = "ZOMBIE"
  /\ Self(c)
  /\ op[c] \in DestroyOps
  /\ Goto(c, "switch", "self_clear")
  /\ ub' = IF bye THEN "ended_twice" ELSE ub
  /\ UNCHANGED <<config, state, locks, queue, disposable, worker_thread, tasks,
                 loopVars, op, ret, counters>>

\* push: clear_schedule(), paint green, then load_request_handler().
PushZombieSelf(c) ==
  /\ state = "ZOMBIE"
  /\ Self(c)
  /\ op[c] = "push"
  /\ Goto(c, "switch", "lrh")
  /\ listener_schedule' = FALSE
  /\ LessRed
  /\ Answer(c, "SUCCESS")
  /\ UNCHANGED <<config, state, locks, queue, worker_thread, schedules,
                 shutdown_schedule, shutdown_ready, user_task, loopVars, op,
                 counters, ub>>

(***************************************************************************)
(* The destroying functions, once the state has been seen ALIVE            *)
(***************************************************************************)
TryLockTaken(c) ==
  /\ kill_mutex = NoThread
  /\ kill_mutex' = c
  /\ Goto(c, "trylock", "store")
  /\ UNCHANGED <<config, state, wishes_mutex, queue, disposable, worker_thread,
                 tasks, loopVars, op, ret, counters, ub>>

TryLockRefused(c) ==
  /\ kill_mutex # NoThread
  /\ Goto(c, "trylock", "green")
  /\ Answer(c, TooLate(op[c], on_end))
  /\ UNCHANGED <<config, state, locks, queue, disposable, worker_thread, tasks,
                 loopVars, op, counters, ub>>

\* The state is stored; the thread is detached unless it is to be joined.
StoreState(c) ==
  /\ Goto(c, "store", IF Self(c) THEN "self_clear" ELSE "plan")
  /\ state' = Condemned
  /\ Detach(Self(c) \/ op[c] \notin WaitingOps)
  /\ UNCHANGED <<config, locks, queue, disposable, tasks, loopVars, op, ret,
                 counters>>

\* Under wishes_mutex: the plan, and a beep unless one is pending already.
\* asynch_destroy and dismiss make a zombie here, the other two in Unlock.
Plan(c) ==
  LET down == wishlist = 0 /\ PipeIsFull IN
  /\ wishes_mutex = NoThread
  /\ Goto(c, "plan", "unlock")
  /\ future_plans' = IF op[c] = "dismiss" THEN "DISMISSAL" ELSE "DESTRUCTION"
  /\ Beep(wishlist = 0)
  /\ state' = IF down /\ op[c] \notin WaitingOps THEN "ZOMBIE" ELSE state
  /\ Answer(c, IF down THEN "SIGNAL" ELSE "SUCCESS")
  /\ UNCHANGED <<config, locks, wishlist, disposable, worker_thread, tasks,
                 serving, frame, bye, cont, has_returned, freed, op, counters, ub>>

Unlock(c) ==
  LET down == ret[c] = "SIGNAL" /\ op[c] \in WaitingOps IN
  /\ Goto(c, "unlock", IF op[c] \notin WaitingOps \/ down THEN "green"
                       ELSE IF OwnThread THEN "green_join" ELSE "wait")
  /\ Detach(down)
  /\ state' = IF down THEN "ZOMBIE" ELSE state
  /\ kill_mutex' = NoThread
  /\ UNCHANGED <<config, wishes_mutex, queue, disposable, tasks, loopVars, op,
                 ret, counters>>

(***************************************************************************)
(* synch_destroy and timedsynch_destroy wait                               *)
(***************************************************************************)
\* Mutation: waiting for the end of the worker, not of its scheduler.
HasReturnedAtDeath == state = "DEAD"

HasReturned == has_returned = 0

\* What a wait may answer.  The timed one goes on when the time is over, and may
\* then report ETIMEDOUT (or ERR_INVALID_TIME, for a time that is refused).
Outcomes(o) == {"SUCCESS"} \cup (IF o = "timed" THEN {"EXPIRED"} ELSE {})

\* scheduler_has_returned is green.
Wait(c) ==
  /\ HasReturned
  /\ Goto(c, "wait", "green")
  /\ \E code \in Outcomes(op[c]) : Answer(c, code)
  /\ UNCHANGED <<config, state, locks, queue, disposable, worker_thread, tasks,
                 loopVars, op, counters, ub>>

Join(c) ==
  /\ pc[W] = "exited" \/ worker_thread # "joinable"
  /\ Goto(c, "join", Caller(c))
  /\ worker_thread' = "joined"
  /\ ub' = IF worker_thread = "joinable" THEN ub ELSE "bad_join"
  /\ Answer(c, "SUCCESS")
  /\ UNCHANGED <<config, state, locks, queue, disposable, tasks, loopVars, op,
                 counters>>

\* The time is over, or refused: the thread is left to itself.
JoinTimeout(c) ==
  /\ op[c] = "timed"
  /\ Goto(c, "join", Caller(c))
  /\ Detach(TRUE)
  /\ Answer(c, "EXPIRED")
  /\ UNCHANGED <<config, state, locks, queue, disposable, tasks, loopVars, op,
                 counters>>

(***************************************************************************)
(* push_load_with_priority, once the state has been seen ALIVE             *)
(***************************************************************************)
PushNoMemory(c) ==
  /\ Goto(c, "enqueue", "green")
  /\ Answer(c, "NO_MEMORY")
  /\ UNCHANGED <<config, state, locks, queue, disposable, worker_thread, tasks,
                 loopVars, op, counters, ub>>

PushSelf(c) ==
  /\ Self(c)
  /\ Goto(c, "enqueue", "green")
  /\ schedules' = schedules + 1
  /\ Answer(c, "SUCCESS")
  /\ UNCHANGED <<config, state, locks, queue, disposable, worker_thread,
                 listener_schedule, shutdown_schedule, shutdown_ready, user_task,
                 loopVars, op, counters, ub>>

\* Under wishes_mutex.  Without a beep the list stays empty.
PushWish(c) ==
  LET down == wishlist = 0 /\ PipeIsFull IN
  /\ ~Self(c)
  /\ wishes_mutex = NoThread
  /\ Goto(c, "enqueue", "green")
  /\ wishlist' = IF down THEN 0 ELSE wishlist + 1
  /\ Beep(wishlist = 0)
  /\ Answer(c, IF down THEN "SIGNAL" ELSE "SUCCESS")
  /\ UNCHANGED <<config, state, locks, disposable, worker_thread, tasks,
                 loopVars, op, counters, ub>>

(***************************************************************************)
(* Leaving a call                                                          *)
(***************************************************************************)
PaintGreen(c) ==
  /\ \/ Goto(c, "green", Caller(c))
     \/ Goto(c, "green_join", "join")
  /\ LessRed
  /\ UNCHANGED <<config, state, locks, queue, worker_thread, tasks, loopVars,
                 op, ret, counters, ub>>

\* A step a caller takes once it is in a call; it never waits for the
\* application to do something.
CallStep(c) ==
  \/ Enter(c)
  \/ SwitchAlive(c) \/ SwitchGone(c)
  \/ SwitchZombieOther(c) \/ ZombieBeep(c) \/ SwitchZombieSelf(c) \/ PushZombieSelf(c)
  \/ TryLockTaken(c) \/ TryLockRefused(c) \/ StoreState(c) \/ Plan(c) \/ Unlock(c)
  \/ Wait(c) \/ Join(c)
  \/ PushNoMemory(c) \/ PushSelf(c) \/ PushWish(c)
  \/ PaintGreen(c)

=============================================================================
