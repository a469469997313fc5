----------------------------- MODULE WorkerState -----------------------------
(***************************************************************************)
(* The state of one GNUNET_WORKER_Instance (src/src/worker.h), of the      *)
(* GNUnet scheduler its thread runs, and of the threads that hold its      *)
(* handle.  WorkerApi has the steps of the public calls, EventLoop those   *)
(* of the worker thread, Worker composes the two.                          *)
(*                                                                         *)
(* A step is one access to state that two threads share: an atomic load or *)
(* store, a (try)lock, one critical section of wishes_mutex, one painting  *)
(* of a Requirement.  What only the worker thread reads or writes is       *)
(* changed in the step that precedes or follows it.                        *)
(***************************************************************************)
EXTENDS Integers, FiniteSets

CONSTANTS
  Threads,        \* application threads that hold the handle
  W,              \* the thread that runs the scheduler
  NoThread,       \* the owner of an unlocked mutex
  ThreadOps,      \* [Threads -> SUBSET Ops]: calls each thread may make
  FrameOps,       \* [Frames -> SUBSET Ops]: calls user code on W may make
  Modes,          \* ways of becoming a worker, subset of Flags
  EndRoutines,    \* subset of BOOLEAN: may on_worker_end be non-NULL?
  Destinies,      \* what on_worker_start may return
  UserTasks,      \* initial values of user_task
  MaxCalls,       \* bound: API calls in a behaviour
  MaxDestroys,    \* bound: destroying calls in a behaviour
  PipeCapacity,   \* bytes the non-blocking pipe can hold
  EntryGaps       \* subset of BOOLEAN: may the worker die between a call and
                  \* its first step?

Callers == Threads \cup {W}

DestroyOps == {"asynch", "synch", "timed", "dismiss"}
WaitingOps == {"synch", "timed"}
Ops == DestroyOps \cup {"push", "ping"}

\* User code on the worker thread: on_worker_start (of a worker that is to live,
\* or not), on_worker_end, a job pushed through the library, a task the
\* application gave to the scheduler itself.
Frames == {"on_start", "doomed_start", "on_end", "job", "task"}

Flags == {"OWN_THREAD", "NONE", "IS_GUEST"}
States == {"ALIVE", "SAYS_BYE", "DYING", "ZOMBIE", "DEAD"}
LifeInstructions == {"LONG_LIFE", "DESTRUCTION", "DISMISSAL"}
Returns == {"none", "SUCCESS", "SIGNAL", "NOT_ALONE", "DOUBLE_FREE", "EXPIRED",
            "INVALID_HANDLE", "NO_MEMORY"}

\* Where GNUNET_WORKER_terminate was called from, hence what follows it.
Continuations == {"none", "dismiss", "destroy", "handler",
                  "self_dismiss", "self_destroy", "launcher"}

CallPcs == {"enter", "switch", "trylock", "store", "plan", "unlock", "wait",
            "green", "green_join", "join", "enqueue", "zombie_beep"}
LoopPcs == {"launch", "frame", "install", "loop", "lrh", "lrh_kill", "lrh_rearm",
            "main_kill", "unattended", "attended", "clear", "terminate",
            "self_clear", "self_unlock", "self_green", "dispose",
            "dispose_wait", "free", "shutdown", "exited", "aborted"}

Faults == {"none", "use_after_free", "bad_detach", "bad_join", "bad_unlock",
           "null_cancel", "ended_twice"}

ASSUME ThreadsAssumption ==
  /\ IsFiniteSet(Threads)
  /\ W \notin Threads
  /\ NoThread \notin Callers

ASSUME OpsAssumption ==
  /\ ThreadOps \in [Threads -> SUBSET Ops]
  /\ FrameOps \in [Frames -> SUBSET Ops]

ASSUME ConfigAssumption ==
  /\ Modes \subseteq Flags
  /\ EndRoutines \subseteq BOOLEAN
  /\ Destinies \subseteq LifeInstructions
  /\ UserTasks \subseteq {"none", "running"}
  /\ EntryGaps \subseteq BOOLEAN

ASSUME BoundsAssumption ==
  /\ MaxCalls \in Nat
  /\ MaxDestroys \in Nat
  /\ PipeCapacity \in Nat \ {0}

VARIABLES
  flags, on_end,       \* const fields: how it was created, on_terminate # NULL
  destiny,             \* what on_worker_start will return
  entry_gap,           \* calls take a first step of their own
  state,               \* atomic
  future_plans,        \* under wishes_mutex
  kill_mutex,          \* owner
  wishes_mutex,        \* owner, when it is kept from one step to the next
  wishlist,            \* number of jobs in the list, under wishes_mutex
  beeps,               \* bytes in the pipe beep_fd
  disposable,          \* worker_is_disposable.req_unfulfillment
  has_returned,        \* scheduler_has_returned.req_unfulfillment
  freed,               \* GNUNET_WORKER_unallocate has run
  worker_thread,       \* what the C library knows of an owned thread
  schedules,           \* number of jobs scheduled, worker thread only
  listener_schedule,   \* is it non-NULL?  worker thread only
  shutdown_schedule,   \* the handler it names, worker thread only
  shutdown_ready,      \* the scheduler has been told to run it
  user_task,           \* a task of the application in the same scheduler
  serving,             \* currently_serving_as = worker, on W
  frame,               \* user code W is in
  bye,                 \* on_worker_end is running
  cont,                \* continuation of the death under way
  pc, op, ret,         \* per caller: program counter, call, last result
  calls, destroys,     \* counters for the bounds
  ub                   \* first undefined behaviour met

config == <<flags, on_end, destiny, entry_gap>>
locks == <<kill_mutex, wishes_mutex>>
queue == <<wishlist, beeps>>
tasks == <<schedules, listener_schedule, shutdown_schedule, shutdown_ready, user_task>>
counters == <<calls, destroys>>

vars == <<config, state, future_plans, locks, queue, disposable, has_returned,
          freed, worker_thread, tasks, serving, frame, bye, cont, pc, op, ret,
          counters, ub>>

\* The type invariant: every variable stays in its domain, the pipe within
\* its capacity and the calls within their bounds.
TypeOK ==
  /\ flags \in Flags
  /\ on_end \in BOOLEAN
  /\ destiny \in LifeInstructions
  /\ entry_gap \in BOOLEAN
  /\ state \in States
  /\ future_plans \in LifeInstructions
  /\ kill_mutex \in Callers \cup {NoThread}
  /\ wishes_mutex \in {W, NoThread}
  /\ wishlist \in Nat
  /\ beeps \in 0..PipeCapacity
  /\ disposable \in Nat
  /\ has_returned \in 0..1
  /\ freed \in BOOLEAN
  /\ worker_thread \in {"joinable", "detached", "joined"}
  /\ schedules \in Nat
  /\ listener_schedule \in BOOLEAN
  /\ shutdown_schedule \in {"none", "unattended", "attended"}
  /\ shutdown_ready \in BOOLEAN
  /\ user_task \in {"none", "running", "stopping"}
  /\ serving \in BOOLEAN
  /\ frame \in Frames \cup {"none"}
  /\ bye \in BOOLEAN
  /\ cont \in Continuations
  /\ pc \in [Callers -> {"idle"} \cup CallPcs \cup LoopPcs]
  /\ \A t \in Threads : pc[t] \in {"idle"} \cup CallPcs
  /\ op \in [Callers -> Ops \cup {"none"}]
  /\ ret \in [Callers -> Returns]
  /\ calls \in 0..MaxCalls
  /\ destroys \in 0..MaxDestroys
  /\ ub \in Faults

(***************************************************************************)
(* What GNUNET_WORKER_allocate leaves behind.  A worker that owns its      *)
(* thread, or serves in the caller's, is about to enter scheduler_launcher;*)
(* a guest is about to be installed into the scheduler already running.    *)
(***************************************************************************)
Init ==
  /\ flags \in Modes
  /\ on_end \in EndRoutines
  /\ destiny \in Destinies
  /\ entry_gap \in EntryGaps
  /\ state = "ALIVE"
  /\ future_plans = "LONG_LIFE"
  /\ kill_mutex = NoThread
  /\ wishes_mutex = NoThread
  /\ wishlist = 0
  /\ beeps = 0
  /\ disposable = 0
  /\ has_returned = 1
  /\ freed = FALSE
  /\ worker_thread = "joinable"
  /\ schedules = 0
  /\ listener_schedule = FALSE
  /\ shutdown_schedule = "none"
  /\ shutdown_ready = FALSE
  /\ user_task \in UserTasks
  /\ serving = (flags = "IS_GUEST")
  /\ frame = "none"
  /\ bye = FALSE
  /\ cont = "none"
  /\ pc = [c \in Callers |-> IF c # W THEN "idle"
                             ELSE IF flags = "IS_GUEST" THEN "install"
                             ELSE "launch"]
  /\ op = [c \in Callers |-> "none"]
  /\ ret = [c \in Callers |-> "none"]
  /\ calls = 0
  /\ destroys = 0
  /\ ub = "none"

OwnThread == flags = "OWN_THREAD"
IsGuest == flags = "IS_GUEST"

\* `currently_serving_as == worker', evaluated by thread c
Self(c) == c = W /\ serving

\* Caller c moves from one program counter to another.
Goto(c, from, to) == pc[c] = from /\ pc' = [pc EXCEPT ![c] = to]

\* Where W continues when a handler or a call returns.
Back == IF frame = "none" THEN "loop" ELSE "frame"
Resume == IF bye THEN "terminate" ELSE Back

PipeIsFull == beeps = PipeCapacity

(***************************************************************************)
(* Mutations: each is a mistake one could make in the definition it is     *)
(* named after, below.                                                     *)
(***************************************************************************)
CondemnedSilently == "DYING"
BeepLost(wanted) == UNCHANGED beeps
BeepUnbounded(wanted) == beeps' = IF wanted THEN beeps + 1 ELSE beeps
DetachNever(wanted) == UNCHANGED <<worker_thread, ub>>
DetachAnyway(wanted) ==
  IF OwnThread
  THEN /\ worker_thread' = "detached"
       /\ ub' = IF worker_thread = "joinable" THEN ub ELSE "bad_detach"
  ELSE UNCHANGED <<worker_thread, ub>>
LessRedForgotten == UNCHANGED disposable

(***************************************************************************)
(* Effects that several functions share                                    *)
(***************************************************************************)
\* The state a destroyer leaves: on_terminate ? WORKER_SAYS_BYE : WORKER_IS_DYING
Condemned == IF on_end THEN "SAYS_BYE" ELSE "DYING"

\* write(beep_fd[1], &BEEP_CODE, 1): fails (EAGAIN) on a full pipe.
Beep(wanted) == beeps' = IF wanted /\ ~PipeIsFull THEN beeps + 1 ELSE beeps

\* pthread_detach(worker_thread), on the condition given, if it is our thread
Detach(wanted) ==
  IF wanted /\ OwnThread
  THEN /\ worker_thread' = "detached"
       /\ ub' = IF worker_thread = "joinable" THEN ub ELSE "bad_detach"
  ELSE UNCHANGED <<worker_thread, ub>>

\* requirement_paint_green() on worker_is_disposable
LessRed == disposable' = IF disposable = 0 THEN 0 ELSE disposable - 1

=============================================================================
