------------------------------ MODULE EventLoop ------------------------------
(***************************************************************************)
(* The worker thread W: scheduler_launcher, the handlers the library gives *)
(* to the GNUnet scheduler, the end of a worker, and as much of the        *)
(* scheduler and of the application's code on W as they depend on.         *)
(***************************************************************************)
EXTENDS WorkerState

callVars == <<config, bye, op, counters>>

(***************************************************************************)
(* Mutations of the effects below                                          *)
(***************************************************************************)
TakeKillBriefly == kill_mutex = NoThread /\ UNCHANGED kill_mutex
MustDieByState == state # "ALIVE"
JobsKept == UNCHANGED schedules
ShutdownHandlerKept ==
  listener_schedule' = FALSE /\ UNCHANGED <<shutdown_schedule, shutdown_ready>>
ArmListener ==
  listener_schedule' = TRUE /\ UNCHANGED shutdown_schedule
AnyColour == TRUE
ReturnUnsaid == UNCHANGED has_returned

(***************************************************************************)
(* Effects that several functions share                                    *)
(***************************************************************************)
\* kill_mutex is locked by the worker thread and kept until the disposal.
TakeKill == kill_mutex = NoThread /\ kill_mutex' = W

\* `what_to_do != GNUNET_WORKER_LONG_LIFE'
MustDie == future_plans # "LONG_LIFE"

\* job_list_unschedule_and_clear(&worker->schedules)
JobsCleared == schedules' = 0

\* clear_schedule() on both handlers
HandlersCleared ==
  /\ listener_schedule' = FALSE
  /\ shutdown_schedule' = "none"
  /\ shutdown_ready' = FALSE

HandlersArmed ==
  /\ listener_schedule' = TRUE
  /\ shutdown_schedule' = "unattended"

\* Flush one byte of the pipe, if there is any.
ReadBeep == beeps' = IF beeps = 0 THEN 0 ELSE beeps - 1

\* worker_is_disposable and scheduler_has_returned, in GNUNET_WORKER_dispose()
IsDisposable == disposable = 0
SayReturned == has_returned' = 0

(***************************************************************************)
(* From the thread's start to the first iteration of the event loop        *)
(***************************************************************************)
\* scheduler_launcher() enters GNUNET_SCHEDULER_run(); on_start() is called.
Launch ==
  /\ Goto(W, "launch", "frame")
  /\ serving' = TRUE
  /\ frame' = IF destiny = "LONG_LIFE" THEN "on_start" ELSE "doomed_start"
  /\ UNCHANGED <<callVars, state, future_plans, locks, queue, disposable,
                 has_returned, freed, worker_thread, tasks, cont, ret, ub>>

\* The destiny decides; a worker freed by its own on_start() is used again.
OnStartReturns ==
  /\ frame \in {"on_start", "doomed_start"}
  /\ Goto(W, "frame", IF destiny = "LONG_LIFE" THEN "install" ELSE "main_kill")
  /\ frame' = "none"
  /\ cont' = CASE destiny = "LONG_LIFE" -> "none"
               [] destiny = "DISMISSAL" -> "dismiss"
               [] destiny = "DESTRUCTION" -> "destroy"
  /\ ub' = IF freed THEN "use_after_free" ELSE ub
  /\ UNCHANGED <<callVars, state, future_plans, locks, queue, disposable,
                 has_returned, freed, worker_thread, tasks, serving, ret>>

\* worker_main_routine(), or adopt_running_scheduler(), arms the handlers.
Install ==
  /\ Goto(W, "install", "loop")
  /\ HandlersArmed
  /\ UNCHANGED <<callVars, state, future_plans, locks, queue, disposable,
                 has_returned, freed, worker_thread, schedules, shutdown_ready,
                 user_task, serving, frame, cont, ret, ub>>

\* A destiny other than LONG_LIFE: kill_mutex is kept until the disposal.
MainKill ==
  /\ TakeKill
  /\ Goto(W, "main_kill", "clear")
  /\ Detach(state = "ALIVE")
  /\ state' = "DYING"
  /\ UNCHANGED <<callVars, future_plans, wishes_mutex, queue, disposable,
                 has_returned, freed, tasks, serving, frame, cont, ret>>

(***************************************************************************)
(* load_request_handler()                                                  *)
(***************************************************************************)
\* The select() task of the listener: the pipe can be read.
RunListener ==
  /\ listener_schedule
  /\ beeps > 0
  /\ Goto(W, "loop", "lrh")
  /\ UNCHANGED <<callVars, state, future_plans, locks, queue, disposable,
                 has_returned, freed, worker_thread, tasks, serving, frame, cont,
                 ret, ub>>

\* One byte is read (none if the pipe is empty); the worker must live, and
\* the wishes become scheduled jobs.
TakeWishes ==
  /\ wishes_mutex = NoThread
  /\ ~MustDie
  /\ Goto(W, "lrh", "lrh_rearm")
  /\ ReadBeep
  /\ schedules' = schedules + wishlist
  /\ wishlist' = 0
  /\ UNCHANGED <<callVars, state, future_plans, locks, disposable, has_returned,
                 freed, worker_thread, listener_schedule, shutdown_schedule,
                 shutdown_ready, user_task, serving, frame, cont, ret, ub>>

\* The worker must die: wishes_mutex is kept while kill_mutex is awaited.
ReadPlan ==
  /\ wishes_mutex = NoThread
  /\ MustDie
  /\ Goto(W, "lrh", "lrh_kill")
  /\ wishes_mutex' = W
  /\ ReadBeep
  /\ UNCHANGED <<callVars, state, future_plans, kill_mutex, wishlist, disposable,
                 has_returned, freed, worker_thread, tasks, serving, frame, cont,
                 ret, ub>>

\* kill_mutex is kept until the disposal; lists and handlers are cleared.  Inside
\* on_worker_end this would end the worker a second time.
Die ==
  /\ TakeKill
  /\ Goto(W, "lrh_kill", "terminate")
  /\ wishes_mutex' = NoThread
  /\ wishlist' = 0
  /\ JobsCleared
  /\ HandlersCleared
  /\ IF bye THEN ub' = "ended_twice" /\ UNCHANGED cont
            ELSE /\ cont' = IF future_plans = "DISMISSAL" THEN "dismiss" ELSE "destroy"
                 /\ UNCHANGED ub
  /\ UNCHANGED <<callVars, state, future_plans, beeps, disposable, has_returned,
                 freed, worker_thread, user_task, serving, frame, ret>>

\* The state is read after wishes_mutex has been given back.
Rearm ==
  /\ Goto(W, "lrh_rearm", Resume)
  /\ listener_schedule' = (state = "ALIVE")
  /\ UNCHANGED <<callVars, state, future_plans, locks, queue, disposable,
                 has_returned, freed, worker_thread, schedules, shutdown_schedule,
                 shutdown_ready, user_task, serving, frame, cont, ret, ub>>

(***************************************************************************)
(* The shutdown handlers                                                   *)
(***************************************************************************)
RunShutdown ==
  /\ shutdown_ready
  /\ Goto(W, "loop", shutdown_schedule)
  /\ shutdown_ready' = FALSE
  /\ UNCHANGED <<callVars, state, future_plans, locks, queue, disposable,
                 has_returned, freed, worker_thread, schedules, listener_schedule,
                 shutdown_schedule, user_task, serving, frame, cont, ret, ub>>

UnattendedShutdown ==
  /\ TakeKill
  /\ Goto(W, "unattended", "clear")
  /\ Detach(state = "ALIVE")
  /\ state' = Condemned
  /\ JobsCleared
  /\ listener_schedule' = FALSE
  /\ shutdown_schedule' = "none"
  /\ cont' = "handler"
  /\ UNCHANGED <<callVars, future_plans, wishes_mutex, queue, disposable,
                 has_returned, freed, shutdown_ready, user_task, serving, frame, ret>>

AttendedShutdown ==
  /\ TakeKill
  /\ Goto(W, "attended", "terminate")
  /\ shutdown_schedule' = "none"
  /\ cont' = "handler"
  /\ UNCHANGED <<callVars, state, future_plans, wishes_mutex, queue, disposable,
                 has_returned, freed, worker_thread, schedules, listener_schedule,
                 shutdown_ready, user_task, serving, frame, ret, ub>>

\* job_list_clear_locked(): the destiny and the unattended shutdown end here.
ClearWishes ==
  /\ wishes_mutex = NoThread
  /\ Goto(W, "clear", "terminate")
  /\ wishlist' = 0
  /\ UNCHANGED <<callVars, state, future_plans, locks, beeps, disposable,
                 has_returned, freed, worker_thread, tasks, serving, frame, cont,
                 ret, ub>>

(***************************************************************************)
(* A destroying function called by user code on the worker thread          *)
(***************************************************************************)
SelfCleared ==
  /\ wishes_mutex = NoThread
  /\ wishlist' = 0
  /\ JobsCleared

\* asynch_destroy: the end is left to attended_shutdown_handler().
SelfAsynch ==
  /\ op[W] = "asynch"
  /\ Goto(W, "self_clear", "self_unlock")
  /\ SelfCleared
  /\ listener_schedule' = FALSE
  /\ shutdown_schedule' = "attended"
  /\ shutdown_ready' = FALSE
  /\ ub' = IF shutdown_schedule = "none" THEN "null_cancel" ELSE ub
  /\ UNCHANGED <<callVars, state, future_plans, locks, beeps, disposable,
                 has_returned, freed, worker_thread, user_task, serving, frame,
                 cont, ret>>

SelfUnlock ==
  /\ Goto(W, "self_unlock", "self_green")
  /\ kill_mutex' = NoThread
  /\ ub' = IF kill_mutex = W THEN ub ELSE "bad_unlock"
  /\ UNCHANGED <<callVars, state, future_plans, wishes_mutex, queue, disposable,
                 has_returned, freed, worker_thread, tasks, serving, frame, cont,
                 ret>>

\* The others end the worker at once.
SelfEnd ==
  /\ op[W] # "asynch"
  /\ Goto(W, "self_clear", "terminate")
  /\ SelfCleared
  /\ HandlersCleared
  /\ cont' = IF op[W] = "dismiss" THEN "self_dismiss" ELSE "self_destroy"
  /\ UNCHANGED <<callVars, state, future_plans, locks, beeps, disposable,
                 has_returned, freed, worker_thread, user_task, serving, frame,
                 ret, ub>>

\* What follows the death: GNUNET_WORKER_dispose(), ..._dispose_if_guest(),
\* GNUNET_SCHEDULER_shutdown().
AfterDeath ==
  CASE cont \in {"dismiss", "self_dismiss"} -> "dispose"
    [] cont = "none" -> "shutdown"
    [] cont \in {"destroy", "self_destroy", "handler"} /\ IsGuest -> "dispose"
    [] cont \in {"destroy", "self_destroy"} /\ ~IsGuest -> "shutdown"
    [] OTHER -> Back

SelfGreen ==
  /\ Goto(W, "self_green", AfterDeath)
  /\ LessRed
  /\ ret' = [ret EXCEPT ![W] = "SUCCESS"]
  /\ UNCHANGED <<callVars, state, future_plans, locks, queue, has_returned, freed,
                 worker_thread, tasks, serving, frame, cont, ub>>

(***************************************************************************)
(* The end of a worker                                                     *)
(***************************************************************************)
\* GNUNET_WORKER_terminate(): on_worker_end runs ...
SayBye ==
  /\ pc[W] = "terminate"
  /\ on_end /\ ~bye
  /\ bye' = TRUE
  /\ UNCHANGED <<config, op, counters, state, future_plans, locks, queue,
                 disposable, has_returned, freed, worker_thread, tasks, serving,
                 frame, cont, pc, ret, ub>>

\* ... and returns, the state is stored.
Terminate ==
  /\ on_end => bye
  /\ bye' = FALSE
  /\ Goto(W, "terminate", IF cont \in {"self_dismiss", "self_destroy"}
                          THEN "self_green" ELSE AfterDeath)
  /\ state' = "DEAD"
  /\ UNCHANGED <<config, op, counters, future_plans, locks, queue, disposable, has_returned,
                 freed, worker_thread, tasks, serving, frame, cont, ret, ub>>

\* GNUNET_WORKER_dispose(), in three steps
Dispose ==
  /\ Goto(W, "dispose", "dispose_wait")
  /\ SayReturned
  /\ UNCHANGED <<callVars, state, future_plans, locks, queue, disposable, freed,
                 worker_thread, tasks, serving, frame, cont, ret, ub>>

DisposeWait ==
  /\ IsDisposable
  /\ Goto(W, "dispose_wait", "free")
  /\ serving' = FALSE
  /\ UNCHANGED <<callVars, state, future_plans, locks, queue, disposable,
                 has_returned, freed, worker_thread, tasks, frame, cont, ret, ub>>

Free ==
  /\ Goto(W, "free", CASE cont \in {"destroy", "self_destroy"} -> "shutdown"
                       [] cont = "launcher" -> "exited"
                       [] OTHER -> Back)
  /\ kill_mutex' = NoThread
  /\ freed' = TRUE
  /\ ub' = IF kill_mutex = W THEN ub ELSE "bad_unlock"
  /\ UNCHANGED <<callVars, state, future_plans, wishes_mutex, queue, disposable,
                 has_returned, worker_thread, tasks, serving, frame, cont, ret>>

(***************************************************************************)
(* The scheduler, and the application's code on the worker thread          *)
(***************************************************************************)
\* GNUNET_SCHEDULER_shutdown(): shutdown tasks become ready, and the tasks of
\* the application learn that they have to end.
ShutDown ==
  /\ shutdown_ready' = (shutdown_schedule # "none")
  /\ user_task' = IF user_task = "running" THEN "stopping" ELSE user_task

Unaffected == <<callVars, state, future_plans, locks, queue, disposable,
                has_returned, freed, worker_thread, serving, ret>>

ShutdownScheduler ==
  /\ Goto(W, "shutdown", Back)
  /\ ShutDown
  /\ cont' = "none"
  /\ UNCHANGED <<Unaffected, schedules, listener_schedule, shutdown_schedule,
                 frame, ub>>

\* A signal, or a task of the application, shuts the scheduler down.
UserShutdown ==
  /\ pc[W] = "loop"
  /\ \/ shutdown_schedule # "none" /\ ~shutdown_ready
     \/ user_task = "running"
  /\ ShutDown
  /\ UNCHANGED <<Unaffected, schedules, listener_schedule, shutdown_schedule,
                 frame, cont, pc, ub>>

\* Nothing is left but shutdown tasks: the scheduler shuts itself down.
OutOfTasks == schedules = 0 /\ ~listener_schedule /\ user_task = "none"

AutoShutdown ==
  /\ pc[W] = "loop"
  /\ OutOfTasks
  /\ shutdown_schedule # "none" /\ ~shutdown_ready
  /\ ShutDown
  /\ UNCHANGED <<Unaffected, schedules, listener_schedule, shutdown_schedule,
                 frame, cont, pc, ub>>

\* call_and_unlist_handler(): the job leaves the list, then its routine runs.
RunJob ==
  /\ schedules > 0
  /\ Goto(W, "loop", "frame")
  /\ schedules' = schedules - 1
  /\ frame' = "job"
  /\ ub' = IF freed THEN "use_after_free" ELSE ub
  /\ UNCHANGED <<Unaffected, listener_schedule, shutdown_schedule, shutdown_ready,
                 user_task, cont>>

\* A task of the application that is about to use the library.
RunTask ==
  /\ user_task = "running"
  /\ FrameOps["task"] # {} /\ calls < MaxCalls
  /\ Goto(W, "loop", "frame")
  /\ frame' = "task"
  /\ UNCHANGED <<Unaffected, tasks, cont, ub>>

FrameReturns ==
  /\ frame \in {"job", "task"}
  /\ Goto(W, "frame", "loop")
  /\ frame' = "none"
  /\ UNCHANGED <<Unaffected, tasks, cont, ub>>

TaskEnds(why) ==
  /\ pc[W] = "loop"
  /\ user_task = why
  /\ user_task' = "none"
  /\ UNCHANGED <<Unaffected, schedules, listener_schedule, shutdown_schedule,
                 shutdown_ready, frame, cont, pc, ub>>

\* GNUNET_SCHEDULER_run() returns.  A guest's caller goes on by itself;
\* scheduler_launcher() disposes of the worker unless it was dismissed, and
\* exits the process if the worker is not dead.
SchedulerReturns ==
  /\ OutOfTasks
  /\ shutdown_schedule = "none"
  /\ Goto(W, "loop", CASE IsGuest \/ ~serving -> "exited"
                       [] ~IsGuest /\ serving /\ state = "DEAD" -> "dispose"
                       [] OTHER -> "aborted")
  /\ cont' = "launcher"
  /\ UNCHANGED <<Unaffected, tasks, frame, ub>>

\* A step of the library or of the scheduler on W; jobs and tasks that have
\* been told to end do so.
LoopStep ==
  \/ Launch \/ OnStartReturns \/ Install \/ MainKill
  \/ RunListener \/ TakeWishes \/ ReadPlan \/ Die \/ Rearm
  \/ RunShutdown \/ UnattendedShutdown \/ AttendedShutdown \/ ClearWishes
  \/ SelfAsynch \/ SelfUnlock \/ SelfEnd \/ SelfGreen
  \/ SayBye \/ Terminate \/ Dispose \/ DisposeWait \/ Free \/ ShutdownScheduler
  \/ AutoShutdown \/ RunJob \/ FrameReturns \/ TaskEnds("stopping")
  \/ SchedulerReturns

\* What only the application decides, and need not ever do.
AppStep == UserShutdown \/ RunTask \/ TaskEnds("running")

=============================================================================
