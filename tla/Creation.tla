------------------------------- MODULE Creation -------------------------------
(***************************************************************************)
(* How threads become workers, and what is left of it when the workers are *)
(* gone: create, start_serving and adopt_running_scheduler with all their  *)
(* failures, the launchers that run in new threads, the thread-local       *)
(* `currently_serving_as' and the memory of the instances.  A thread may   *)
(* serve as several workers, one after the other.  What happens between    *)
(* the arming of a worker's handlers and its end is in Worker; here it is  *)
(* the single step End.                                                    *)
(***************************************************************************)
EXTENDS Integers, FiniteSets

CONSTANTS
  Threads,          \* all the threads there may ever be
  Application,      \* those that exist from the start
  NULL,             \* no worker
  MaxWorkers        \* bound: instances allocated in a behaviour

Workers == 1..MaxWorkers
Makers == {"create", "start_serving", "adopt"}

ASSUME CreationAssumption ==
  /\ Application \subseteq Threads
  /\ MaxWorkers \in Nat
  /\ NULL \notin Workers

VARIABLES
  made,         \* number of instances allocated so far
  used,         \* the instances in memory
  maker,        \* which function made each instance
  mastered,     \* the instances with a master routine
  dead,         \* the workers in the state WORKER_IS_DEAD
  serving,      \* currently_serving_as, per thread
  saved,        \* what each thread's save_handle points to
  pc,           \* where each thread is
  arg,          \* the worker a thread is making, or was launched with
  launched,     \* the argument of the scheduler_launcher() a thread is in
  sched,        \* the scheduler a thread is in
  armed,        \* the worker whose handlers that scheduler has
  fault

instances == <<made, used, maker, mastered>>
thread == <<serving, pc, arg>>
scheduler == <<launched, sched, armed>>

vars == <<instances, dead, thread, saved, scheduler, fault>>

TypeOK ==
  /\ made \in 0..MaxWorkers
  /\ used \subseteq 1..made
  /\ maker \in [Workers -> Makers]
  /\ mastered \subseteq Workers /\ dead \subseteq Workers
  /\ serving \in [Threads -> Workers \cup {NULL}]
  /\ saved \in [Threads -> Workers \cup {NULL}]
  /\ pc \in [Threads -> {"code", "new_thread", "save", "install",
                         "launch", "master", "launched", "gone", "aborted"}]
  /\ arg \in [Threads -> Workers \cup {NULL}]
  /\ \A t \in Threads :
       pc[t] \in {"new_thread", "save", "install", "launch", "master"} => arg[t] # NULL
  /\ launched \in [Threads -> Workers \cup {NULL}]
  /\ sched \in [Threads -> {"none", "starting", "running", "stopping"}]
  /\ armed \in [Threads -> Workers \cup {NULL}]
  /\ fault \in {"none", "use_after_free", "double_free"}

Init ==
  /\ made = 0
  /\ used = {} /\ mastered = {} /\ dead = {}
  /\ maker = [w \in Workers |-> "create"]
  /\ serving = [t \in Threads |-> NULL]
  /\ saved = [t \in Threads |-> NULL]
  /\ pc = [t \in Threads |-> IF t \in Application THEN "code" ELSE "gone"]
  /\ arg = [t \in Threads |-> NULL]
  /\ launched = [t \in Threads |-> NULL]
  /\ sched = [t \in Threads |-> "none"]
  /\ armed = [t \in Threads |-> NULL]
  /\ fault = "none"

Goto(t, from, to) == pc[t] = from /\ pc' = [pc EXCEPT ![t] = to]

\* The instance is read or written.
Touch(w) == fault' = IF w \in used THEN fault ELSE "use_after_free"

(***************************************************************************)
(* Mutations                                                               *)
(***************************************************************************)
Unpassed(t) == NULL
Kept(w) == UNCHANGED <<used, fault>>
StillServing(t) == UNCHANGED serving
DismissalIgnored(t) == FALSE
DismissalPresumed(t) == TRUE
Unarmed(t, w) == UNCHANGED armed

(***************************************************************************)
(* Effects that several functions share                                    *)
(***************************************************************************)
\* The argument given to the routine of a new thread
Passed(t) == arg[t]

\* GNUNET_WORKER_unallocate()
Unallocate(w) ==
  /\ used' = used \ {w}
  /\ fault' = IF w \in used THEN fault ELSE "double_free"

\* currently_serving_as, read and written
IsServing(t) == serving[t] # NULL
Serve(t, w) == serving' = [serving EXCEPT ![t] = w]
ServeNobody(t) == serving' = [serving EXCEPT ![t] = NULL]

\* The handlers of a worker enter the scheduler of its thread.
Arm(t, w) == armed' = [armed EXCEPT ![t] = w]

(***************************************************************************)
(* The three functions                                                     *)
(***************************************************************************)
\* Else the answer is ERR_ALREADY_SERVING, or the call is not a legal one: a
\* scheduler inside a scheduler, or a guest without a host.
MayMake(t, f) ==
  CASE f = "create" -> TRUE
    [] f = "start_serving" -> ~IsServing(t) /\ sched[t] = "none"
    [] f = "adopt" -> ~IsServing(t) /\ sched[t] = "running"

\* malloc() and pipe2() succeed; when they do not, nothing changes.  The memory
\* has never been used before: what is stale stays so.
Allocate(t, f, has_master) ==
  LET w == made + 1 IN
  /\ MayMake(t, f)
  /\ made < MaxWorkers
  /\ f = "create" => ~has_master
  /\ made' = w
  /\ used' = used \cup {w}
  /\ maker' = [maker EXCEPT ![w] = f]
  /\ mastered' = IF has_master THEN mastered \cup {w} ELSE mastered
  /\ arg' = [arg EXCEPT ![t] = w]
  /\ IF f = "adopt" THEN Serve(t, w) ELSE UNCHANGED serving
  /\ Goto(t, "code", IF has_master \/ f = "create" THEN "new_thread"
                     ELSE IF f = "adopt" THEN "install" ELSE "save")
  /\ UNCHANGED <<dead, saved, scheduler, fault>>

\* pthread_create(), or thread_create_detached() for a master.  A new thread, be
\* it under the name of one that is gone, serves nobody.
NewThread(t, u) ==
  /\ pc[t] = "new_thread" /\ pc[u] = "gone"
  /\ pc' = [pc EXCEPT ![t] = IF maker[arg[t]] = "adopt" THEN "install" ELSE "save",
                      ![u] = IF maker[arg[t]] = "create" THEN "launch" ELSE "master"]
  /\ arg' = [arg EXCEPT ![u] = Passed(t)]
  /\ ServeNobody(u)
  /\ saved' = [saved EXCEPT ![u] = NULL]
  /\ UNCHANGED <<instances, dead, scheduler, fault>>

\* Mutation: the function goes on after the failure.
NoThreadForgotten(t) ==
  /\ Goto(t, "new_thread", "save")
  /\ Unallocate(arg[t])
  /\ UNCHANGED <<made, maker, mastered, dead, serving, arg, saved, scheduler>>

\* ERR_THREAD_CREATE: currently_serving_as keeps the freed guest.
NoThread(t) ==
  /\ Goto(t, "new_thread", "code")
  /\ Unallocate(arg[t])
  /\ UNCHANGED <<made, maker, mastered, dead, serving, arg, saved, scheduler>>

\* adopt_running_scheduler() arms the handlers.
Install(t) ==
  /\ Goto(t, "install", "save")
  /\ Arm(t, serving[t])
  /\ Touch(serving[t])
  /\ UNCHANGED <<instances, dead, serving, arg, saved, launched, sched>>

\* `if (save_handle) *save_handle = worker', then scheduler_launcher() for the
\* thread that starts serving.
Save(t) ==
  /\ Goto(t, "save", IF maker[arg[t]] = "start_serving" THEN "launch" ELSE "code")
  /\ \/ saved' = [saved EXCEPT ![t] = arg[t]]
     \/ UNCHANGED saved
  /\ UNCHANGED <<instances, dead, serving, arg, scheduler, fault>>

(***************************************************************************)
(* The launchers                                                           *)
(***************************************************************************)
\* scheduler_launcher() enters the scheduler, which calls on_worker_start.
Launch(t) ==
  /\ Goto(t, "launch", "code")
  /\ Serve(t, arg[t])
  /\ launched' = [launched EXCEPT ![t] = arg[t]]
  /\ sched' = [sched EXCEPT ![t] = "starting"]
  /\ UNCHANGED <<instances, dead, arg, saved, armed, fault>>

\* on_worker_start returns LONG_LIFE.
Settle(t) ==
  /\ pc[t] = "code" /\ sched[t] = "starting"
  /\ Arm(t, launched[t])
  /\ sched' = [sched EXCEPT ![t] = "running"]
  /\ Touch(launched[t])
  /\ UNCHANGED <<instances, dead, thread, saved, launched>>

\* master_launcher(): the routine, its data and the handle are in the instance.
EnterMaster(t) ==
  /\ Goto(t, "master", "code")
  /\ ServeNobody(t)
  /\ saved' = [saved EXCEPT ![t] = arg[t]]
  /\ Touch(arg[t])
  /\ UNCHANGED <<instances, dead, arg, scheduler>>

\* `!currently_serving_as', at the end of scheduler_launcher()
Dismissed(t) == ~IsServing(t)

\* GNUNET_SCHEDULER_run() has returned.  The worker is disposed of, unless it
\* has been dismissed; the process exits if it is not dead.
LauncherEnds(t) ==
  LET w == launched[t] IN
  /\ Goto(t, "launched", IF ~Dismissed(t) /\ w \notin dead THEN "aborted"
                         ELSE IF maker[w] = "create" THEN "gone" ELSE "code")
  /\ launched' = [launched EXCEPT ![t] = NULL]
  /\ IF Dismissed(t) \/ w \notin dead THEN UNCHANGED <<serving, used, fault>>
     ELSE IF w \in used THEN ServeNobody(t) /\ Unallocate(w)
     ELSE Touch(w) /\ UNCHANGED <<serving, used>>
  /\ UNCHANGED <<made, maker, mastered, dead, arg, saved, sched, armed>>

(***************************************************************************)
(* Workers and schedulers end                                              *)
(***************************************************************************)
\* The worker thread t serves as, for the library's own handlers
Current(t) == IF sched[t] = "starting" THEN launched[t] ELSE armed[t]

\* Nothing makes a worker wait for its master's thread to begin.
Die(t, w) ==
  /\ pc[t] = "code"
  /\ w = Current(t) /\ w # NULL
  /\ dead' = dead \cup {w}
  /\ armed' = [armed EXCEPT ![t] = NULL]
  /\ UNCHANGED <<made, maker, mastered, arg, saved, launched, pc>>

\* A dismissed worker leaves the scheduler to the application ...
Dismiss(t, w) ==
  /\ Die(t, w)
  /\ ServeNobody(t) /\ Unallocate(w)
  /\ sched' = [sched EXCEPT ![t] = "running"]

\* ... a destroyed one shuts it down, and leaves the rest to its launcher ...
Destroy(t, w) ==
  /\ Die(t, w)
  /\ maker[w] # "adopt"
  /\ sched' = [sched EXCEPT ![t] = "stopping"]
  /\ UNCHANGED <<serving, used, fault>>

\* ... if it has one.
DestroyGuest(t, w) ==
  /\ Die(t, w)
  /\ maker[w] = "adopt"
  /\ ServeNobody(t) /\ Unallocate(w)
  /\ sched' = [sched EXCEPT ![t] = "stopping"]

\* The handlers of a worker keep a scheduler running.
SchedulerReturns(t) ==
  /\ sched[t] \in {"running", "stopping"} /\ armed[t] = NULL
  /\ Goto(t, "code", IF launched[t] = NULL THEN "code" ELSE "launched")
  /\ sched' = [sched EXCEPT ![t] = "none"]
  /\ UNCHANGED <<instances, dead, serving, arg, saved, launched, armed, fault>>

(***************************************************************************)
(* The application                                                         *)
(***************************************************************************)
\* get_data() of get_current_handle()
ReadOwnData(t) ==
  /\ pc[t] = "code" /\ IsServing(t)
  /\ Touch(serving[t])
  /\ UNCHANGED <<instances, dead, thread, saved, scheduler>>

\* GNUNET_SCHEDULER_run(), by the application itself
RunScheduler(t) ==
  /\ pc[t] = "code" /\ sched[t] = "none"
  /\ sched' = [sched EXCEPT ![t] = "running"]
  /\ UNCHANGED <<instances, dead, thread, saved, launched, armed, fault>>

MasterReturns(t) ==
  /\ t \notin Application /\ sched[t] = "none"
  /\ Goto(t, "code", "gone")
  /\ UNCHANGED <<instances, dead, serving, arg, saved, scheduler, fault>>

Next ==
  /\ fault = "none"
  /\ \E t \in Threads :
       \/ \E f \in Makers, has_master \in BOOLEAN : Allocate(t, f, has_master)
       \/ \E u \in Threads : NewThread(t, u)
       \/ NoThread(t) \/ Install(t) \/ Save(t)
       \/ Launch(t) \/ Settle(t) \/ EnterMaster(t) \/ LauncherEnds(t)
       \/ \E w \in Workers : Dismiss(t, w) \/ Destroy(t, w) \/ DestroyGuest(t, w)
       \/ SchedulerReturns(t) \/ ReadOwnData(t) \/ RunScheduler(t)
       \/ MasterReturns(t)

Spec == Init /\ [][Next]_vars

-----------------------------------------------------------------------------
(***************************************************************************)
(* Properties                                                              *)
(***************************************************************************)
\* An instance that its maker has freed again, for want of a thread
Refused(w) == w \in 1..made \ (used \cup dead)

\* adopt_running_scheduler() leaves the pointer to a refused guest behind.
Stray(t) == serving[t] # NULL /\ Refused(serving[t]) /\ maker[serving[t]] = "adopt"

\* `currently_serving_as == worker', by which the library tells the worker
\* thread from the others, is true of one thread at most, and of a live
\* instance unless the thread is stray; it is true wherever the handlers of a
\* worker may run.
ServingIsOwn ==
  \A t \in Threads :
    /\ serving[t] # NULL =>
         /\ serving[t] \in used \/ Stray(t)
         /\ \A u \in Threads \ {t} : serving[u] # serving[t]
    /\ armed[t] # NULL => armed[t] = serving[t] /\ ~Stray(t)

\* No instance is leaked: it is in the hands of the function that makes it, or
\* of a launcher or a scheduler that will dispose of it.
EveryInstanceHasAnEnd ==
  \A w \in used : \E t \in Threads :
    \/ /\ arg[t] = w
       /\ \/ pc[t] \in {"new_thread", "install", "launch"}
          \/ pc[t] = "save" /\ maker[w] = "start_serving"
    \/ launched[t] = w /\ serving[t] = w
    \/ armed[t] = w

\* The branch in scheduler_launcher() that "has a bug" behind it is not reached,
\* even when the same scheduler is adopted again after a dismissal.
NoAbort == \A t \in Threads : pc[t] # "aborted"

\* Of a creation that failed for want of a thread nothing is ever found again:
\* no handle, no launcher, no master, no handlers; a guest is left only in
\* currently_serving_as.
RefusalsLeaveNothing ==
  \A w \in Workers, t \in Threads : Refused(w) =>
    /\ saved[t] # w /\ launched[t] # w /\ armed[t] # w
    /\ pc[t] \in {"new_thread", "save", "install", "launch", "master"} => arg[t] # w
    /\ serving[t] = w => maker[w] = "adopt"

\* Nobody frees an instance twice, and freed memory is used in two places only:
\* by the thread of a master whose worker has died before it began, and by a
\* stray thread that asks for its data or leaves its launcher.
UsesAfterFree ==
  [][fault' # fault =>
       /\ fault' = "use_after_free"
       /\ \E t \in Threads :
            \/ EnterMaster(t) /\ arg[t] \in dead
            \/ Stray(t) /\ (ReadOwnData(t) \/ LauncherEnds(t))]_vars

\* scheduler_launcher() returns when the worker it was launched with is gone,
\* and leaves a thread that may serve again, unless it is stray.
ReturnMeansGone ==
  [][\A t \in Threads : launched[t] # NULL /\ launched'[t] = NULL =>
       launched[t] \notin used' /\ (serving'[t] = NULL \/ Stray(t))]_vars

\* "The call was no-op": a creation that fails for want of a thread leaves
\* neither memory, nor a handle in save_handle or currently_serving_as.
FailureIsNoOp ==
  [][\A t \in Threads : pc[t] = "new_thread" /\ pc'[t] = "code" =>
       /\ arg[t] \notin used'
       /\ saved'[t] # arg[t] /\ serving'[t] # arg[t]]_vars
=============================================================================
