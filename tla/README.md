# Verification of libgnunetworker

`libgnunetworker` lets any thread of a program hand work to the single thread
that runs a GNUnet scheduler. The library is small (`src/src/worker.c`,
`src/src/worker.h`, `src/src/requirement.h` and the public header
`src/src/include/gnunet_worker_lib.h`) and almost all of it is concurrency: an
atomic state, three mutexes, a pipe, two hand-made condition variables, and an
object that frees itself. This directory holds TLA+ modules translated from
that code, TLC configurations that check them on small instances, and TLAPS
proofs of the results that hold for every instance.

    tlc -workers 4 -config OneDestroyer.cfg MCWorker.tla
    tlc -workers 4 -config JobLists.cfg MCJobLists.tla
    tlc -workers 4 -config Creation.cfg MCCreation.tla
    tlc -config OneWaiter.cfg Requirement.tla
    for m in Worker WorkerSafety WorkerRefinement JobLists Creation Requirement
    do tlapm ${m}Proofs.tla; done
    tlapm JobListsLemmas.tla


## 1. The system

### Components

| component | state | operations |
|---|---|---|
| **Public calls** (`worker.c` 756-1987) | `state` (atomic), `future_plans`, `wishlist`, `kill_mutex`, `wishes_mutex`, `beep_fd`, `worker_is_disposable`, `scheduler_has_returned`, `worker_thread` | `asynch_destroy`, `synch_destroy`, `timedsynch_destroy`, `dismiss`, `push_load[_with_priority]`, `ping`, each from another thread or from the worker thread itself |
| **Event loop** (`worker.c` 150-737) | `schedules`, `listener_schedule`, `shutdown_schedule`, the thread-local `currently_serving_as`, and whatever the scheduler holds | `scheduler_launcher`, `worker_main_routine`, `load_request_handler`, `call_and_unlist_handler`, `attended_shutdown_handler`, `unattended_shutdown_handler`, `GNUNET_WORKER_terminate`, `GNUNET_WORKER_dispose[_if_guest]`, `GNUNET_WORKER_unallocate` |
| **Requirement** (`requirement.h`) | `req_mutex`, `req_cond`, `req_unfulfillment` | `paint_red`, `paint_green`, `wait_for_green`, `timedwait_for_green` |
| **Job lists** (`worker.c` 150-335, 412-454, 523-566, 1674-1730) | two doubly linked lists of `GNUNET_WORKER_JobList` | push at the head, reverse and splice, unlink the job that runs, cancel and free |
| **Creation and adoption** (`worker.c` 740-813, 1744-1934) | the instance, `currently_serving_as`, the pipe, the thread | `allocate`, `create`, `start_serving`, `adopt_running_scheduler` |
| **Master** (`worker.c` 665-687) | a new detached thread that reads the instance once | `master_launcher` |
| **Accessors** | none | `get_data`, `get_current_handle` |
| **Examples** (`src/examples/`) | globals of each program | users of the library |
| **Build system, translations** | none at run time | |

### How they interact

The *calls* and the *event loop* share one `GNUNET_WORKER_Instance`. A call first
paints `worker_is_disposable` red, and paints it green when it no longer needs
the instance; `GNUNET_WORKER_dispose()` waits for green before it frees. A push
enters its wish under `wishes_mutex` and writes a byte (a *beep*) to a
non-blocking pipe, but only if the list was empty. A destroyer tries
`kill_mutex`, stores the state, writes its plan under `wishes_mutex` and beeps
likewise; if the pipe is full the worker becomes a *zombie*, which later calls
wake up with further beeps. The scheduler runs `load_request_handler()` when
the pipe can be read: it reads one byte, then either schedules the wishes and
listens again, or locks `kill_mutex` for good and ends the worker. A synchronous
destroyer joins an owned thread, or waits for `scheduler_has_returned`.
A worker may also end by its own destiny (`on_start`), by a shutdown of the
scheduler, or by a call made in user code on the worker thread.

The *job lists* are where calls and event loop meet: pushes add to `wishlist`
under `wishes_mutex`, `load_request_handler()` takes the whole list, turns it
around and splices it before `schedules`, which the worker thread then has to
itself. The *creation* functions hand a new instance to a launcher
(`scheduler_launcher`), to the scheduler that is already running, or, when a
thread is refused, to `free()`. Who must free the instance in the end is decided
by the thread-local `currently_serving_as`, which is also how every call tells
the worker thread from the others. A *master* is one more thread, started with
the instance as its argument.

### What is hard, and what correctness means

* *Calls*: every one paints green exactly once on every path; the instance is
  not freed under a call; a thread is joined or detached once; the answer is
  true (SUCCESS of a synchronous destruction means the scheduler is down, DOUBLE
  FREE means that the end is over); two destroyers, or a destroyer and a push,
  interleave between the load of the state and the locks they take later.
* *Event loop*: `kill_mutex` is kept from death to disposal on every path; no
  job runs after `on_worker_end`; a mutex is not locked twice; the shutdown
  handler has run before the scheduler returns; a plan is always heard; with the
  calls, no two locks are taken in opposite orders.
* *Requirement*: mutual exclusion, no lost wakeup, waits that end.
* *Job lists*: the links are whole whenever somebody walks them; no job is lost,
  run twice or falls out of them; wishes reach the scheduler in their order; no task is
  cancelled that the scheduler does not have.
* *Creation*: a failed creation leaves nothing behind; every instance has exactly
  one party that will free it; where it is read after that; a thread serves as
  one worker at a time, and `scheduler_launcher()` recognises a dismissal.

`PROJECT.json` lists these hazards line by line with the properties aimed at
each.


## 2. The modules

| module | models | lines of TLA+ |
|---|---|---|
| `WorkerState` | the fields of the instance, the scheduler as far as the library uses it, `GNUNET_WORKER_allocate` as `Init`, effects several functions share | 240 |
| `WorkerApi` | the six public calls, step by step, from any thread | 275 |
| `EventLoop` | the worker thread: launch, handlers, shutdown, death, disposal, and user code on that thread | 390 |
| `Worker` | their composition, fairness, the properties, the refinement of `WorkerSpec` | 170 |
| `WorkerSpec` | what a worker promises: calls that begin only before its death, a backlog that is empty by then, an instance freed under no call | 70 |
| `WorkerInvariant` | what an orderly use of a worker is, and the inductive invariant of a worker that is used so | 225 |
| `MCWorker` | instances: who may call what | 35 |
| `JobLists`, `MCJobLists` | `wishlist` and `schedules` pointer by pointer, with the memory of their cells | 345 |
| `JobQueue` | what the two lists are for: a queue of wishes and a set of scheduled jobs | 60 |
| `Creation`, `MCCreation` | `create`, `start_serving`, `adopt_running_scheduler`, the launchers, `currently_serving_as`, several workers and threads | 370 |
| `RequirementSpec` | what a Requirement promises: a counter painted at once | 50 |
| `Requirement` | `requirement.h` down to its mutex and condition variable, shown to implement `RequirementSpec` | 225 |
| `WorkerProofs` | what holds of every worker: types, the count of calls, wishes with a beep | 1190 |
| `WorkerSafetyProofs`, `WorkerRefinementProofs` | what holds of one that is used in an orderly way: the safety properties, the refinement of `WorkerSpec` | 1360 + 350 |
| `JobListsLemmas`, `JobListsProofs` | doubly linked lists; the properties of `JobLists` and the refinement of `JobQueue` | 690 + 2260 |
| `CreationProofs`, `RequirementProofs` | theorems about `Creation` and `Requirement` | 910 + 185 |

The modules divide the instance between them. `Worker` has one instance and all
its locks, and counts jobs and paintings. `JobLists` has the cells those jobs
are, and `Requirement` the mutex and condition variable behind those paintings.
`Creation` has many instances and threads, and takes the whole life of `Worker`
between the arming of the handlers and the disposal as one step (`Dismiss`,
`Destroy`, `DestroyGuest`).

### Correspondence to the code

A **step** of `Worker` is one access to state that two threads share: an atomic
load or store, a lock or trylock, one critical section of `wishes_mutex`, one
painting of a Requirement, one join. What only the worker thread touches is
changed in the step before or after it. `pc[c]` says where caller `c` is:

| `pc` | code |
|---|---|
| `enter` | called, first painting not done yet (only if `entry_gap`) |
| `switch` | before `switch (atomic_load(&worker->state))` |
| `trylock`, `store`, `plan`, `unlock` | `pthread_mutex_trylock`, `atomic_store`, the section under `wishes_mutex`, `pthread_mutex_unlock` |
| `wait`, `green_join`, `join` | `requirement_[timed]wait_for_green`, the painting before the join, `pthread_join` |
| `enqueue` | the rest of `push_load_with_priority` once the state was seen alive |
| `zombie_beep`, `green` | the beep for a zombie, the last painting |
| `self_clear`, `self_unlock`, `self_green` | the branches `currently_serving_as == worker` |
| `launch`, `frame`, `install`, `main_kill` | `scheduler_launcher`, user code, the end of `worker_main_routine` |
| `loop`, `lrh`, `lrh_kill`, `lrh_rearm` | the scheduler's loop, `load_request_handler` |
| `unattended`, `attended`, `clear` | the shutdown handlers |
| `terminate`, `dispose`, `dispose_wait`, `free`, `shutdown` | the end of a worker |

`cont` remembers which function called `GNUNET_WORKER_terminate()`, hence what
follows it. `frame` is the user code the worker thread is in; a call made there
suspends it. `bye` says that `on_worker_end` is running (`pc[W]` is `terminate`,
or inside a call it has made). `destiny` is what `on_worker_start` will return, and
`entry_gap` whether calls take a first step before they paint; both are chosen
in `Init` and kept. Undefined behaviour is recorded in `ub` and ends the
behaviour. Jobs are counted, not told apart. The scheduler is modelled from the way the
library uses it: it runs ready tasks in any order, shuts itself down when only
shutdown tasks are left, and returns when nothing is left. A task of the
application in the same scheduler (`user_task`) may keep it running.

`worker_is_disposable` and `scheduler_has_returned` appear in `Worker` as plain
counters; `Requirement` shows that the real thing implements such a counter
(theorem `RequirementIsCounter`), and that its waits end.

In `JobLists` one iteration of a loop is a step, so that pushes interleave with a
list that is half turned around; the code under `wishes_mutex` without a loop is
one step. `free` leaves the fields of a cell as they were, `malloc` may give it
again. Any of the lists may be cleared first, as `unattended_shutdown_handler`
and the destroying functions do. In `Creation` `pc[t]` is where thread `t` is:
`new_thread`, `install`, `save` inside one of the three functions; `launch`,
`master` at the start of a thread's routine; `launched` when
`GNUNET_SCHEDULER_run()` has returned; `code` in the application's hands. A
thread under the name of one that is gone is a new thread.

Next to a definition a few operators state mistakes one could make in it (for
instance `BeepLost` for `Beep`); `PROJECT.json` pairs each property with the
one that breaks it. They take no part in the model.

### Assumptions of the model

* The application does not begin a call once the state is `DEAD`: the header
  declares it illegal after `on_worker_end` has returned. Without an
  `on_worker_end` the application has no way to know; the assumption is the
  same.
* Unless `entry_gap` is `TRUE`, a call and its first painting are one step: the
  instance is not freed between the two. `OneDestroyer` takes both values; the
  properties that rest on the assumption say so (`entry_gap \/ ...`).
* `pthread_*` functions succeed where the code does not look at their result.
  `malloc` may fail (`PushNoMemory`), the pipe may be full, threads may be
  refused (`NoThread`).
* `on_worker_end` makes any call but a ping in `OneDestroyer`, and none in the
  other runs; `on_worker_start` at most pushes, and only if it then returns
  LONG_LIFE. What happens beyond is in the second table of section 4.
* A refused time (EINVAL) ends a timed wait like one that is over.
* `Creation`: a scheduler is not run inside a scheduler. Any new thread may be
  refused, and a worker may end before its master's thread has read it.
* `Requirement`: once the time of a timed wait is over, `pthread_cond_timedwait`
  returns ETIMEDOUT and nothing else, whether it is called then (`BlockNoMore`) or
  has been asleep (`WakeLate`); before that it may return for no reason.
* Everything is sequentially consistent, as the C11 default for the atomics and
  the mutexes guarantee. `schedules` and the two schedule fields are touched by
  one thread at a time; `worker_thread` is taken as written before the new
  thread reads it, which `pthread_create()` does not promise.


## 3. The runs

The bounds are constants: `MaxCalls` calls in a behaviour, `MaxDestroys` of them
destroying ones, `PipeCapacity` bytes in the pipe. Two application threads and
the worker thread call. A race in this code is between two actors (destroyer and
destroyer, destroyer and push, call and end of the worker) and needs one call of
each, plus one that fills the pipe or wakes a zombie: three or four calls reach
all of it. A pipe of one byte makes full pipes common; two bytes let a beep be
pending and another one be written.

| run | instance | states | shows |
|---|---|---|---|
| `OneDestroyer` | every kind of worker and destiny, an `on_worker_end` that makes calls, with and without entry gap; 3 calls, 1 destruction | 1 560 000 | with a single destroying call nothing goes wrong: counts, locks, threads, jobs, undefined behaviour, answers; an overtaken entry is the *only* unsafe place |
| `Retry` | 4 calls, 2 destructions by one thread, pings on the worker thread, pipe of one byte | 1 990 000 | zombies: retries, beeps that cannot be written, no wish or plan without a beep |
| `ManyDestroyers` | both threads and the worker thread destroy and push; 3 calls, 2 destructions, symmetric threads | 2 000 000 | what survives when two destroyers race: the worker of `WorkerSpec` |
| `Liveness` | as OneDestroyer, pipe of one byte, no task of the application, no `on_worker_end` | 187 000 | plans carried out, calls return, wishes taken |
| `JobLists` | 4 cells, symmetric | 244 000 | the lists: links, memory, order, refinement of `JobQueue` |
| `Creation` | 3 workers, 3 threads of which one exists from the start; the others symmetric | 1 050 000 | creation: memory, `currently_serving_as`, every refusal of a thread, early ends, several workers in one thread |
| `OneWaiter` | 3 painters, one waiter that may use either wait | 20 600 | the Requirement: exclusion, no lost wakeup, refinement with liveness |

Symmetry is sound where it is used: the permuted threads (or cells) have the same
calls and those runs check no liveness. The deadlock check of `ManyDestroyers` is
off because a deadlock is real there (`LockCycle`), that of `Creation` because a use of
freed memory ends a behaviour; in every other run TLC also checks that the actors
never all wait. The state counts are rounded. Four
cells make a list of three that is reversed while a fourth job is pushed, or
scheduled already. Three workers let one thread serve twice while another worker
is being made.

Two bounds are more than bounds. `DeadIsFinal` and `ImplementsWorkerSpec` hold for
two destroying calls, and fail for three that race (section 4). They also need
the worker thread not to ping itself (same section).

### The properties

*Worker*: `TypeOK`; `RefCount` (the Requirement counts exactly the calls that
need the instance); `FreeIsQuiescent` (no free under a call); `KillIsKept`
(`kill_mutex` stays locked from death to disposal); `BeepPending` (a wish in an
unlocked list has a beep); `PlanIsHeard` (a plan has a beep as long as the
listener is armed, zombies included); `NoAbort` (the launcher never meets its
"should not happen" branch); `ThreadReleased`, `NoUndefinedBehaviour` (a thread
is joined or detached exactly once, no use after free, no foreign unlock, no
second end from inside `on_worker_end`); `NoLockCycle`, `NoSelfLock` (lock order);
`NoJobAfterEnd`; `SchedulerIsDown` (the answer 0 of a synchronous destruction is
true of a worker that is neither a guest nor dismissed by its `on_worker_start`;
without that premise it is `SynchMeansDown`, which `GuestSynch` refutes);
`NoDoubleFreeBeforeEnd`; `OnlyEntryIsUnsafe`; `DeadIsFinal` (action property);
`ImplementsWorkerSpec` (refinement); `PlanIsCarriedOut`, `CallsReturn`,
`WishesAreTaken` (liveness).

*JobLists*: `TypeOK`; `WellLinked` (both lists can be walked both ways through
memory in use, at any moment); `EveryJobHasAPlace` (each cell in use is in one
list, or in hand, or running; a wish pushed after the last clearing is in a list
that nobody visits again, section 4); `TasksAreListed` (between two
pieces of library code the listed jobs are the scheduler's tasks, so that a clearing
leaves none behind); `MemorySafe`
(no double free, no cancellation of a task that is not there);
`ImplementsQueue` (refinement).

*Creation*: `TypeOK`; `ServingIsOwn` (`currently_serving_as` names an instance in
memory, or a guest whose master's thread was refused, the same for no two threads, and
the right one where handlers run); `EveryInstanceHasAnEnd` (somebody will free it);
`NoAbort`; `RefusalsLeaveNothing` (of an instance that was refused a thread no
handle, launcher, master or handlers are left, and only a guest in
`currently_serving_as`); and two action properties, `ReturnMeansGone` and
`UsesAfterFree`: nothing is freed twice, and freed memory is used in two places
only. These are real. One is a master whose worker died before it began
(`worker.c:682`), the other a thread that a refused adoption has left with a
*stray* pointer (1907), when it asks for its handle or returns to its launcher (708).
What the documentation says instead, `FailureIsNoOp`, is refuted by `FailedAdoption`.

*Requirement*: `TypeOK`, `Owned`, `NoLostWakeup`, `ImplementsCounter` (safety
part of the refinement), `ImplementsRequirement` (with its liveness).

### Fairness

`FairSpec` of `Worker` assumes weak fairness of each caller's steps inside a call
and of the worker thread's own steps, since threads are scheduled and jobs
return. Nothing is assumed of what the application decides: it need not call,
shut the scheduler down, or end its task, and no time limit has to expire
(`JoinTimeout`). The `Liveness` run has no task of the application, because such
a task may keep the scheduler alive for ever by itself; what it then does to a
plan is run `LostListener`. `Requirement` assumes weak fairness of each step,
strong fairness of `Lock` (a thread is not refused a mutex others release
infinitely often), and that time passes; nobody has to paint and no wakeup has
to be spurious.


## 4. Where the code and its documentation disagree

Each of these is a run with one property, which TLC finds violated:

| run | place | what happens |
|---|---|---|
| `LockCycle` | `worker.c:497` | The state is loaded first and `kill_mutex` tried later (868): a second destroyer that saw the worker alive gets the mutex after the first one has released it. It then waits for `wishes_mutex` with `kill_mutex` held; `load_request_handler` waits the other way round. Deadlock. |
| `LostListener` | `worker.c:570` | A wish is handled after a destroyer has stored the state and before it has written its plan: the listener is not armed again, and the beep of the plan is never read while a task of the application keeps the scheduler running. |
| `GuestSynch` | `worker.c:516` | For a guest, `scheduler_has_returned` is painted green before the scheduler is told to shut down: `synch_destroy` answers 0 too early. |
| `FailedAdoption` | `worker.c:1907` | When the master's thread is refused, `adopt_running_scheduler` frees the guest and leaves `currently_serving_as` pointing to it: the failed call was not a no-op. |
| `TimedWait` | `requirement.h:154` | The loop around `pthread_cond_timedwait` ignores ETIMEDOUT: in the trace every call after the time limit returns it at once (`BlockNoMore`), and the loop calls again, for ever. A loop that tested the answer would satisfy `TimedWaitEnds`. |

Further disagreements met while modelling. The model has the steps that lead to
each; the table gives the instance and the property that show it, which none of the
runs above uses.

| place | what happens | to see it |
|---|---|---|
| `worker.c:868` | the late destroyer of `LockCycle` detaches the owned thread a second time | two destroyers, no pipe full, `NoUndefinedBehaviour` |
| `worker.c:868`, 851 | three destroyers: one is past its trylock when the worker thread ends a zombie; it then stores the state of a dead worker, which is no longer dead | `MaxDestroys = 3`, `DeadIsFinal` |
| `worker.c:841` | a call overtaken by the end of the worker before its first painting uses freed memory | `entry_gap`, `ub = "none"` |
| `worker.c:851`, 286 | a destroying call from `on_worker_end` while the state is ZOMBIE ends the worker a second time | full pipe, two destructions, destroying calls in `on_end`, `NoUndefinedBehaviour` |
| `worker.c:497` | a ping from `on_worker_end`, when a plan was made before, locks the `kill_mutex` its own thread holds | pings in `on_end`, `NoSelfLock` |
| `worker.c:1622` | a push from `on_worker_end` to a zombie runs `load_request_handler` there, which locks the `kill_mutex` its own thread holds | `PipeCapacity = 1`, pushes in `on_end`, `NoSelfLock` |
| `worker.c:1622` | a push from `on_worker_start` to a zombie ends the worker before its handlers are armed; they are then armed for a dead worker | `PipeCapacity = 1`, pushes in `on_start`, `NoSelfLock` |
| `worker.c:1141` | `synch_destroy` of a zombie answers 0 after a beep, without waiting | `PipeCapacity = 1`, two destructions, `SchedulerIsDown` |
| `worker.c:626` | `on_start` returns DISMISSAL while a thread is in `synch_destroy`: it answers 0, the scheduler runs on | `Destinies = {"DISMISSAL"}`, `SynchMeansDown` |
| `worker.c:623` | jobs pushed by an `on_start` that returns a destiny stay scheduled | pushes in `doomed_start`, `NoJobAfterEnd` |
| `worker.c:921` | `asynch_destroy` from `on_start` cancels a NULL task | destroying calls in `on_start`, `NoUndefinedBehaviour` |
| `worker.c:1712` | a push that saw the worker alive enters its wish after the list was cleared; it is not freed with the instance | invariant `freed => wishlist = 0` |
| `worker.c:358`, 1977 | the same late push after an `asynch_destroy` on the worker thread, then a ping there: the job is scheduled, outlives `on_worker_end` and runs on a freed worker | pings in jobs, `NoJobAfterEnd` |
| `worker.c:620` | after a destiny `on_worker_end` runs in the state WORKER_IS_DYING: destroyers are told DOUBLE FREE before it has returned | `NoDoubleFreeBeforeEnd` without its premise on `destiny` |
| `worker.c:999`, 851, 1137, 1366 | a zombie destroyed from its own thread ends without `kill_mutex` | `PipeCapacity = 1`, destroying calls in jobs, two destructions, `KillIsKept` |
| `worker.c:682` | the master's launcher reads an instance that `on_worker_start` has ended already | `Creation` as it is, invariant `fault = "none"`; `UsesAfterFree` says that this is one of two places |
| `worker.c:708`, 1907 | a worker is dismissed, its thread adopts the scheduler and is refused the master's thread: `scheduler_launcher` takes the pointer left behind for its own worker, not dismissed, and reads that, which is freed | `Creation`, invariant `pc[t] = "launched" => ~Stray(t)` |

By reading only: `requirement.h:115` (one `signal` for several waiters: two
synchronous destroyers of a worker without its own thread), `worker.c:653` (a
ping in `on_start` leaves a second listener behind), `worker.c:1775`
(`pthread_create` writes `worker_thread` while the new thread may detach itself
through it).


## 5. The proofs

TLAPS checks every theorem for all threads, cells, calls, bounds and kinds of
worker, from the named assumptions on the constants and the hypotheses below.

### What holds of every worker

| theorem | states | strengthening |
|---|---|---|
| `WorkerProofs!TypeCorrect` | `Spec => []TypeOK` | `ShutdownIsNamed`: a shutdown task that is ready names its handler. `RunShutdown` takes its program counter from that name, so `TypeOK` alone is not inductive. |
| `WorkerProofs!BeepIsPending` | `Spec => []BeepPending` | `WishesKept`: `wishes_mutex` is held between two steps exactly while the worker thread, which has read the beep, waits for `kill_mutex`. |
| `WorkerProofs!RefCountIsExact` | `Spec => []RefCount` | `DeathIsNamed`: a death under way is attributed to what started it. `Red` depends on `cont` in `GNUNET_WORKER_terminate`, whose callers paint green or not. |
| `WorkerProofs!OneDestroyerNoLockCycle` | with `MaxDestroys = 1`, `Spec => []NoLockCycle` | `LoneDestroyer`: while the only destroyer has not written its plan, no plan exists, so the worker thread is not on its way to `kill_mutex`. |

`RefCountIsExact` goes through `Recounted(c)`: a step of caller `c` adds `c` to the
callers that are red and one to the counter, or removes it from both, or changes
neither, and leaves the other callers alone. One lemma shows it for the calls,
one for the event loop, one that it carries the cardinality along. A
`worker_is_disposable` that is painted once too often, or once too rarely, on
any path breaks it. Since `on_worker_end` may call while a call that ends the
worker is itself still red, the count has a second term (`RedAtTheEnd`), and the
proof needs `Late`: whoever is in `GNUNET_WORKER_terminate` has stored a state
other than ALIVE before, so that a call made there takes the short way out.

### What holds of a worker that is used in an orderly way

The other properties of `Worker` do not hold of every use: section 4 has the
sequences that break them. `Orderly` (module `WorkerInvariant`) is a condition on the
constants, that is, on what the application does, and keeps these out:

| condition | without it |
|---|---|
| `OneDestroyer`: one destroying call, or one caller that destroys as often as it likes | the late destroyer of `LockCycle` |
| nothing is called by an `on_worker_start` that then ends the worker; one that does not may push | jobs left behind, a cancelled NULL task, two listeners (`worker.c:623`, 921, 653) |
| `on_worker_end` does not ping | `worker.c:497`: it locks the mutex its thread holds |
| user code does not both ping and `asynch_destroy` on the worker thread | `worker.c:1977`: a job scheduled after the list was cleared |
| `Roomy`, if `on_worker_start` or `on_worker_end` push: only the last call can find the pipe full | `worker.c:1622`: the push wakes a zombie from inside its own end, or before its beginning |

Any number of threads may push and ping, jobs may call everything but what the
table excludes, the pipe may have any size (unless `Roomy` is needed), every kind of
worker, destiny and shutdown is allowed. The instances of `OneDestroyer`, `Retry`
and `Liveness` are orderly. The properties that `ManyDestroyers` checks with two
racing destroyers are proved for the orderly use only.

| theorem of `WorkerSafetyProofs` | states, under `Orderly` |
|---|---|
| `KillMutexIsKept` | `Spec => []KillIsKept` |
| `NeverLocksTwice`, `NeverCrossed` | `[]NoSelfLock`, `[]NoLockCycle` |
| `NeverAborts` | `[]NoAbort` |
| `ThreadIsReleasedOnce` | `[](ThreadReleased /\ NoUndefinedBehaviour /\ OnlyEntryIsUnsafe)` |
| `JobsEndBeforeTheWorker` | `[]NoJobAfterEnd` |
| `ListenersHear` | `[]PlanIsHeard` |
| `FreedUnderNobody` | `[]FreeIsQuiescent` |
| `OnlyTheDeadTellDoubleFree` | `[]NoDoubleFreeBeforeEnd` |
| `ZeroMeansDown` | with `MaxDestroys = 1` as well, `[]SchedulerIsDown` (a second call on a zombie does not wait) |
| `NoResurrection` | `DeadIsFinal` |
| `WorkerRefinementProofs!WorkerIsWorkerSpec` | `Spec /\ ~entry_gap => ImplementsWorkerSpec` |

All of them follow from one invariant, `IInv`. None of the properties is inductive: each says
what is so at the end of a long way, and `IInv` describes the way. `Called` and
`SelfCalls` say which calls can be where, from what user code; `Framed` and `Phases`
divide the life of the worker thread into the part before the handlers are armed, the
part in which a shutdown task is scheduled, and the end, when nothing is;
`KillOwner` names the one who holds `kill_mutex` by the program counters, in both
directions; `Plans` follows the state of the worker from the condemnation to the plan
and `Heard` the beep of that plan; `Attended` describes the worker that has left
its end to `attended_shutdown_handler()`; `Dead`, `Deserted` and `ThreadOwner` say what is
left to do after the end and who may still do it; `Zombies` and `BeepsAreCalled` that
a pipe with room for all calls but the last makes no zombie that user code could meet;
`Told` and `Answered` what the answers rest on. TLC has checked `IInv` on the instances of
`OneDestroyer` and `Retry` (`MCWorker` extends `WorkerInvariant`: replace their
invariants by `IInv`). The proof has a lemma per
part of the invariant and groups of actions; what every worker has (`Known`) is
taken from `WorkerProofs`.

The refinement maps each step to a step of `WorkerSpec` or to a stutter. Who
is inside a call (`Inside`) changes with the counter, which is `CallRecounted`
again; the death is a step of `WorkerSpec` only if the backlog is empty, which is
`Phases`; the free only if nobody is inside, which is `Deserted`.

### Job lists

| theorem of `JobListsProofs` | states |
|---|---|
| `TypeCorrect`, `BothWays`, `NoneLeakedNorShared`, `TheSchedulerKnows`, `NothingTwice` | `Spec =>` `[]TypeOK`, `[]WellLinked`, `[]EveryJobHasAPlace`, `[]TasksAreListed`, `[]MemorySafe` |
| `ListsAreAQueue` | `Spec => ImplementsQueue` |

They hold for any finite set of cells and lists of any length, with no further
hypothesis. `Shape(w, nw, s, ns, a, na, b, nb)` says that the pointers hold four
doubly linked lists: the wishes `w`, the jobs `s`, the cells the worker thread has
ahead of it (`a`, from `iter`) and behind it (`b`, from `first_wish`), each a function
on `1..n` with its length; that they share no cell and make up the memory in use;
and which of them the scheduler has been handed. The list that is half turned around is
two lists, whose first cells point at each other: `CellTurned` of `JobListsLemmas` moves a
cell from the one to the other. The invariant is `Shape` of the lists that `Chain`
reads off the pointers. Nothing is proved by induction over a list: a step names the lists it
leaves, `ChainIs` shows that they are what `Chain` gives, and that a list has
no more cells than there are is the pigeonhole of `FiniteSetTheorems`; this is
where the set of cells must be finite, as memory is. `WalkIs` needs the one recursive
function of the module for a given list only, which is a statement about a
function and not an induction over data.

For the refinement the order matters: `LastWished` (a wish pushed in front is last in
the queue) and `FirstTurned` (turning one cell around keeps the order of the jobs on
their way) are equations between sequences, proved element by element.

### Creation and Requirement

| theorem | states | strengthening |
|---|---|---|
| `CreationProofs!TypeCorrect`, `ServingIsOwnAlways`, `NothingIsLeaked`, `LaunchersNeverAbort`, `RefusedAreForgotten` | `Spec =>` `[]TypeOK`, `[]ServingIsOwn`, `[]EveryInstanceHasAnEnd`, `[]NoAbort`, `[]RefusalsLeaveNothing` | `IInv`, see below |
| `CreationProofs!FreedMemoryIsUsedByTwo`, `LauncherOutlivesWorker` | `Spec => UsesAfterFree`, `Spec => ReturnMeansGone` | the same |
| `RequirementProofs!TypeCorrect`, `MutexProtects` | `Spec => []TypeOK`, `Spec => []Owned` | `Roles`: painters paint, waiters wait. |
| `RequirementProofs!OneWaiterIsWoken` | with one waiter, `Spec => []NoLostWakeup` | the same |
| `RequirementProofs!RequirementIsCounter` | `Spec => ImplementsCounter` | the same; each step maps to a painting, the begin or end of a wait, or a stutter |

The theorems about `Creation` have no hypothesis: every thread may be refused, a
worker may end at once. They
share one inductive invariant. None of the properties is inductive by
itself, for each hands the instance over to another: `Makes` says that a worker
in the making is alive and known to one thread; `Begins` that a thread which
begins has no past; `Serves` and `Launches` tie `currently_serving_as` to the
launcher's argument and to the handlers armed, unless the thread is stray, which is
what lets the launcher trust it; `Seeks` that nobody else has in hand an instance
for which a thread is being sought. `RefusalsLeaveNothing` is part of it: a master
that does not find its instance cannot have been refused, so its worker has died,
and the same goes for the launcher of a stray thread. TLC confirmed the conjuncts
first; one lemma per action proves that it preserves them.

### Only model-checked

All liveness (`PlanIsCarriedOut`, `CallsReturn`, `WishesAreTaken`, the liveness part of
`ImplementsRequirement`, whose safety part is `RequirementIsCounter`): liveness under
fairness and `ENABLED` are out of the prover's reach. And what
`ManyDestroyers` shows of two destroyers that race: it holds up to the bound given in
section 3 and not for every bound, so that there is no theorem without a hypothesis
like `Orderly`. Every other invariant and action property of the passing runs is a
theorem.


## 6. Not modelled, and what could follow

Every function of the library that changes state is now an action of a module.
What is left:

| next | what |
|---|---|
| proofs about two racing destroyers | `FreeIsQuiescent`, `NoAbort` and the refinement of `WorkerSpec` for `MaxDestroys = 2`: the invariant would have to describe the late destroyer of `LockCycle` exactly |
| two waiters on one Requirement, a second listener | extensions of `Requirement` and `EventLoop`; both begin with a fault that is listed already |
| an instance with `Worker` and `JobLists` at once | the two share `wishes_mutex` and the clearing; today each has its own view of them |

Left out for good: `GNUNET_WORKER_get_data` and `get_current_handle` beyond what
`ReadOwnData` says of them (they change nothing), the failures of `malloc` and
`pipe2` in `allocate` (nothing has happened by then), logging, the build system,
translations, and the examples, which are programs of users: what they do with a
worker is among what the threads of `Worker` and `Creation` may do. The GNUnet
scheduler, POSIX threads and the pipe are external: modelled from the way the
library uses them.
