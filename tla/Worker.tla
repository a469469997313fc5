-------------------------------- MODULE Worker --------------------------------
(***************************************************************************)
(* A worker and the threads that use it: the calls of WorkerApi interleaved*)
(* with the event loop of EventLoop, the properties they have together.    *)
(***************************************************************************)
EXTENDS WorkerApi, EventLoop

\* The behaviour ends when the worker thread is done and no call is pending,
\* or is undefined from here on.
Done ==
  \/ ub # "none"
  \/ pc[W] = "aborted"
  \/ pc[W] = "exited" /\ \A t \in Threads : pc[t] = "idle"

Running == ub = "none" /\ pc[W] # "aborted"

\* A step of caller c through the public calls.
ApiStep(c) == (\E o \in Ops : Call(c, o)) \/ CallStep(c) \/ JoinTimeout(c)

Next ==
  \/ /\ Running
     /\ \/ \E c \in Callers : ApiStep(c)
        \/ LoopStep
        \/ AppStep
  \/ Done /\ UNCHANGED vars

Spec == Init /\ [][Next]_vars

\* A thread inside a call takes its next step unless a lock or a wait keeps it
\* from doing so, and so does the worker thread; jobs return.  Nothing makes
\* the application call, shut the scheduler down, end a task of its own, or a
\* time limit expire.
Fairness ==
  /\ \A c \in Callers : WF_vars(Running /\ CallStep(c))
  /\ WF_vars(Running /\ LoopStep)

FairSpec == Spec /\ Fairness

-----------------------------------------------------------------------------
(***************************************************************************)
(* Safety                                                                  *)
(***************************************************************************)
\* Caller c has painted worker_is_disposable red and not yet green.
Red(c) ==
  \/ pc[c] \in {"switch", "trylock", "store", "plan", "unlock", "wait", "green",
                "green_join", "enqueue", "zombie_beep",
                "self_clear", "self_unlock", "self_green"}

\* The worker thread has, in a call that ends the worker and is not over, while
\* on_worker_end may make another one.
RedAtTheEnd ==
  (pc[W] = "terminate" \/ bye) /\ cont \in {"self_dismiss", "self_destroy"}

\* worker_is_disposable counts exactly the calls that still need the instance:
\* every path out of every call paints green once.
RefCount ==
  disposable = Cardinality({c \in Callers : Red(c)}) + IF RedAtTheEnd THEN 1 ELSE 0

\* The instance is never freed under a call that is using it, unless the call was
\* overtaken before its first step.
FreeIsQuiescent ==
  freed /\ ~entry_gap => ~RedAtTheEnd /\ \A c \in Callers : ~Red(c)

\* The worker thread does not give up kill_mutex between the death of the
\* worker and its disposal, whatever the path (see the note in
\* GNUNET_WORKER_dispose): nobody else can start destroying it.
KillIsKept == state = "DEAD" /\ ~freed => kill_mutex = W

\* A wish is never left in the list with an empty pipe: the push that finds the
\* list non-empty does not write a beep, relying on an earlier one.
BeepPending == wishlist > 0 /\ wishes_mutex = NoThread => beeps > 0

\* Once a plan is made, a listener that is armed has a beep to wake it, even
\* when the plan found the pipe full and made a zombie.
PlanIsHeard ==
  /\ future_plans # "LONG_LIFE"
  /\ pc[W] = "loop"
  /\ listener_schedule
  => beeps > 0

\* No job runs, or is left to the scheduler, after on_worker_end has returned.
NoJobAfterEnd == state = "DEAD" => schedules = 0

\* scheduler_launcher() never finds the event loop cut off: its comment says
\* that GNUNET_SCHEDULER_add_shutdown() has a bug then.
NoAbort == pc[W] # "aborted"

\* gnunet_worker_lib.h on the synchronous destructions: "only zero grants that the
\* scheduler is not running anymore when this function returns".
SynchMeansDown ==
  \A t \in Threads :
    pc[t] = "idle" /\ op[t] \in WaitingOps /\ ret[t] = "SUCCESS"
    => cont = "launcher" \/ pc[W] = "exited"

\* So it is, for a worker that is neither a guest nor dismissed by its own
\* on_worker_start.
SchedulerIsDown == ~IsGuest /\ destiny # "DISMISSAL" => SynchMeansDown

\* An owned thread is joined or detached once the calls are over, and never
\* both (the ub of Detach and Join).
ThreadReleased ==
  OwnThread /\ pc[W] = "exited" /\ (\A t \in Threads : pc[t] = "idle")
  => worker_thread # "joinable"

\* Neither use after free, nor a thread joined or detached twice, nor a mutex
\* unlocked by a thread that does not hold it.
NoUndefinedBehaviour == entry_gap \/ ub = "none"

\* The only way to undefined behaviour: a call that the worker's end overtakes
\* before its first step.
OnlyEntryIsUnsafe == ub \in {"none", "use_after_free"}

\* An on_worker_end makes late destructions safe: none is told "double free"
\* before it has returned.
NoDoubleFreeBeforeEnd ==
  on_end /\ destiny = "LONG_LIFE" =>
  \A c \in Callers : ret[c] = "DOUBLE_FREE" => state = "DEAD"

\* The worker thread, holding wishes_mutex, does not wait for the kill_mutex of
\* a destroyer that waits for wishes_mutex.
NoLockCycle ==
  ~ /\ pc[W] = "lrh_kill"
    /\ \E t \in Threads : kill_mutex = t /\ pc[t] = "plan"

\* The worker thread does not lock a kill_mutex it holds already.
NoSelfLock ==
  kill_mutex = W => pc[W] \notin {"lrh_kill", "main_kill", "unattended", "attended"}

-----------------------------------------------------------------------------
(***************************************************************************)
(* Action properties                                                       *)
(***************************************************************************)
\* A dead worker stays dead.
DeadIsFinal == [][state = "DEAD" => state' = "DEAD"]_vars

-----------------------------------------------------------------------------
(***************************************************************************)
(* Refinement                                                              *)
(***************************************************************************)
Phase == CASE freed -> "freed"
           [] ~freed /\ state = "DEAD" -> "dead"
           [] ~freed /\ state = "ALIVE" -> "living"
           [] OTHER -> "condemned"

Inside == {c \in Callers : Red(c)} \cup (IF RedAtTheEnd THEN {W} ELSE {})

WSpec == INSTANCE WorkerSpec WITH Users <- Callers, phase <- Phase,
                                  users <- Inside, backlog <- schedules

\* The worker of WorkerSpec: no call begins after the death, no job is left to
\* run by then, nobody comes back from a condemnation, and the instance is freed
\* under no call.
ImplementsWorkerSpec == WSpec!Spec

-----------------------------------------------------------------------------
(***************************************************************************)
(* Liveness                                                                *)
(***************************************************************************)
\* A plan to destroy or dismiss is carried out to the last byte.
PlanIsCarriedOut == future_plans # "LONG_LIFE" ~> freed

\* Every call returns.
CallsReturn == \A t \in Threads : pc[t] # "idle" ~> pc[t] = "idle"

\* A wish does not stay in the list of a worker: it is scheduled or dropped.
WishesAreTaken == wishlist > 0 ~> wishlist = 0 \/ freed

=============================================================================
