----------------------------- MODULE Requirement -----------------------------
(***************************************************************************)
(* src/src/requirement.h at the level of its POSIX mutex and condition     *)
(* variable.  Some threads paint, some wait.                               *)
(***************************************************************************)
EXTENDS Integers, FiniteSets

CONSTANTS
  Painters,         \* threads that paint red and green
  Waiters,          \* threads that may call requirement_wait_for_green()
  TimedWaiters,     \* threads that may call requirement_timedwait_for_green()
  NoThread,         \* the owner of an unlocked mutex
  InitialValue,     \* REQ_INIT_GREEN = 0 or REQ_INIT_RED = 1
  MaxRed            \* bound on the unfulfillment

AllWaiters == Waiters \cup TimedWaiters
Procs == Painters \cup AllWaiters

PaintOps == {"red", "green"}
WaitOps == {"wait", "timedwait"}

ASSUME ProcsAssumption ==
  /\ Painters \cap AllWaiters = {}
  /\ NoThread \notin Procs

ASSUME ValuesAssumption ==
  /\ InitialValue \in {0, 1}
  /\ MaxRed \in Nat \ {0}

VARIABLES
  req_mutex,         \* owner
  req_cond,          \* the threads blocked on the condition variable
  req_unfulfillment,
  late,              \* absolute_time has passed
  pc,                \* per thread: program counter
  op,                \* per thread: the function it is in
  retval             \* per thread: what the last pthread_cond_[timed]wait gave

vars == <<req_mutex, req_cond, req_unfulfillment, late, pc, op, retval>>

TypeOK ==
  /\ req_mutex \in Procs \cup {NoThread}
  /\ req_cond \subseteq AllWaiters
  /\ req_unfulfillment \in Nat
  /\ late \in BOOLEAN
  /\ pc \in [Procs -> {"idle", "lock", "paint", "test", "asleep", "unlock"}]
  /\ op \in [Procs -> PaintOps \cup WaitOps]
  /\ retval \in [Procs -> {"EOK", "ETIMEDOUT"}]

\* requirement_init()
Init ==
  /\ req_mutex = NoThread
  /\ req_cond = {}
  /\ req_unfulfillment = InitialValue
  /\ late = FALSE
  /\ pc = [p \in Procs |-> "idle"]
  /\ op = [p \in Procs |-> IF p \in Painters THEN "red" ELSE "wait"]
  /\ retval = [p \in Procs |-> "EOK"]

Goto(p, from, to) == pc[p] = from /\ pc' = [pc EXCEPT ![p] = to]

\* The functions a thread may call
OpsOf(p) ==
  {o \in PaintOps \cup WaitOps :
     \/ o \in PaintOps /\ p \in Painters
     \/ o = "wait" /\ p \in Waiters
     \/ o = "timedwait" /\ p \in TimedWaiters}

\* The calls.  A painter may paint green more often than red.
Call(p, o) ==
  /\ Goto(p, "idle", "lock")
  /\ o \in OpsOf(p)
  /\ o = "red" => req_unfulfillment < MaxRed
  /\ op' = [op EXCEPT ![p] = o]
  /\ retval' = [retval EXCEPT ![p] = "EOK"]
  /\ UNCHANGED <<req_mutex, req_cond, req_unfulfillment, late>>

\* pthread_mutex_lock(), also the one inside pthread_cond_wait()
Lock(p) ==
  /\ req_mutex = NoThread
  /\ Goto(p, "lock", IF op[p] \in WaitOps THEN "test" ELSE "paint")
  /\ req_mutex' = p
  /\ UNCHANGED <<req_cond, req_unfulfillment, late, op, retval>>

PaintRed(p) ==
  /\ op[p] = "red"
  /\ Goto(p, "paint", "unlock")
  /\ req_unfulfillment' = req_unfulfillment + 1
  /\ UNCHANGED <<req_mutex, req_cond, late, op, retval>>

\* absolute_time has passed, for a thread that has one.
Expired(p) == late /\ op[p] = "timedwait"

\* Mutations of Signal, Less, FindGreen and Block
SignalNobody == UNCHANGED req_cond
LessForever == req_unfulfillment' = req_unfulfillment - 1
FindAnything(p) ==
  /\ Goto(p, "test", "unlock")
  /\ UNCHANGED <<req_mutex, req_cond, req_unfulfillment, late, op, retval>>
BlockHolding(p) ==
  /\ req_unfulfillment # 0 /\ ~Expired(p)
  /\ Goto(p, "test", "asleep")
  /\ req_cond' = req_cond \cup {p}
  /\ UNCHANGED <<req_mutex, req_unfulfillment, late, op, retval>>

\* Already green stays green.
Less == req_unfulfillment' = IF req_unfulfillment < 1 THEN req_unfulfillment
                             ELSE req_unfulfillment - 1

\* pthread_cond_signal() wakes one of the threads blocked, if there is any.
Signal ==
  IF req_cond = {} THEN UNCHANGED req_cond
  ELSE \E w \in req_cond : req_cond' = req_cond \ {w}

PaintGreen(p) ==
  /\ op[p] = "green"
  /\ Goto(p, "paint", "unlock")
  /\ Less
  /\ IF req_unfulfillment' < 1 THEN Signal ELSE UNCHANGED req_cond
  /\ UNCHANGED <<req_mutex, late, op, retval>>

\* while (requirement->req_unfulfillment) pthread_cond_[timed]wait(...)
Block(p) ==
  /\ req_unfulfillment # 0 /\ ~Expired(p)
  /\ Goto(p, "test", "asleep")
  /\ req_cond' = req_cond \cup {p}
  /\ req_mutex' = NoThread
  /\ UNCHANGED <<req_unfulfillment, late, op, retval>>

\* pthread_cond_timedwait() called when absolute_time has passed: it gives the
\* mutex back, takes it again and returns ETIMEDOUT.  The loop does not look at
\* that.
BlockNoMore(p) ==
  /\ req_unfulfillment # 0 /\ Expired(p)
  /\ Goto(p, "test", "lock")
  /\ req_mutex' = NoThread
  /\ retval' = [retval EXCEPT ![p] = "ETIMEDOUT"]
  /\ UNCHANGED <<req_cond, req_unfulfillment, late, op>>

FindGreen(p) ==
  /\ req_unfulfillment = 0
  /\ Goto(p, "test", "unlock")
  /\ UNCHANGED <<req_mutex, req_cond, req_unfulfillment, late, op, retval>>

\* Signalled
Wake(p) ==
  /\ p \notin req_cond
  /\ Goto(p, "asleep", "lock")
  /\ retval' = [retval EXCEPT ![p] = "EOK"]
  /\ UNCHANGED <<req_mutex, req_cond, req_unfulfillment, late, op>>

\* Spurious wakeups are allowed by POSIX, until the time has passed.
WakeSpuriously(p) ==
  /\ p \in req_cond /\ ~Expired(p)
  /\ Goto(p, "asleep", "lock")
  /\ req_cond' = req_cond \ {p}
  /\ retval' = [retval EXCEPT ![p] = "EOK"]
  /\ UNCHANGED <<req_mutex, req_unfulfillment, late, op>>

\* The time passes while the thread is blocked in pthread_cond_timedwait().
WakeLate(p) ==
  /\ p \in req_cond /\ Expired(p)
  /\ Goto(p, "asleep", "lock")
  /\ req_cond' = req_cond \ {p}
  /\ retval' = [retval EXCEPT ![p] = "ETIMEDOUT"]
  /\ UNCHANGED <<req_mutex, req_unfulfillment, late, op>>

Unlock(p) ==
  /\ Goto(p, "unlock", "idle")
  /\ req_mutex' = NoThread
  /\ UNCHANGED <<req_cond, req_unfulfillment, late, op, retval>>

TimePasses ==
  /\ ~late
  /\ late' = TRUE
  /\ UNCHANGED <<req_mutex, req_cond, req_unfulfillment, pc, op, retval>>

Step(p) ==
  \/ PaintRed(p) \/ PaintGreen(p)
  \/ Block(p) \/ BlockNoMore(p) \/ FindGreen(p) \/ Wake(p) \/ WakeLate(p)
  \/ Unlock(p)

Next ==
  \/ \E p \in Procs, o \in PaintOps \cup WaitOps : Call(p, o)
  \/ \E p \in Procs : Lock(p) \/ Step(p) \/ WakeSpuriously(p)
  \/ TimePasses

Spec == Init /\ [][Next]_vars

\* A thread in a call goes on, and is not refused the mutex for ever.  Time
\* passes.  Nobody has to paint, and no wakeup has to be spurious.
FairSpec ==
  /\ Spec
  /\ \A p \in Procs : WF_vars(Step(p)) /\ SF_vars(Lock(p))
  /\ WF_vars(TimePasses)

-----------------------------------------------------------------------------
\* The mutex protects the counter and the tests of it: a thread is at work on
\* them only while it owns it, and the owner is always at work.
Owned == \A p \in Procs : pc[p] \in {"paint", "test", "unlock"} <=> req_mutex = p

\* No wakeup is lost between the test of the counter, the sleep and the signal:
\* nobody is blocked while the requirement is green.  This is so with a single
\* waiter; of two, pthread_cond_signal() would leave one blocked.
NoLostWakeup == req_unfulfillment = 0 => req_cond = {}

\* The functions implement the abstract counter; a wait is over as soon as it
\* has found the requirement green.
Abstract == INSTANCE RequirementSpec WITH
  Waiters <- AllWaiters,
  unfulfillment <- req_unfulfillment,
  waiting <- {p \in AllWaiters : pc[p] \in {"lock", "test", "asleep"}}

ImplementsCounter == Abstract!Safety
ImplementsRequirement == Abstract!Spec

\* "with a time limit": a timed wait does not outlast its time.  The code calls
\* pthread_cond_timedwait() again when it has returned ETIMEDOUT.
TimedWaitEnds ==
  \A w \in TimedWaiters :
    late /\ pc[w] # "idle" /\ op[w] = "timedwait" ~> pc[w] = "idle"

=============================================================================
