------------------------------ MODULE JobLists ------------------------------
(***************************************************************************)
(* The two doubly linked lists of a worker, pointer by pointer: `wishlist',*)
(* to which any thread adds under wishes_mutex, and `schedules', which only*)
(* the worker thread touches.  The memory is a set of cells that malloc()  *)
(* gives and free() takes back.  A loop of the code is one step per        *)
(* iteration; a critical section without a loop is one step.               *)
(***************************************************************************)
EXTENDS Integers, Sequences, SequencesExt

CONSTANTS
  Cells,        \* addresses of GNUNET_WORKER_JobList instances
  NULL

ASSUME CellsAssumption == IsFiniteSet(Cells) /\ NULL \notin Cells

Pointers == Cells \cup {NULL}

VARIABLES
  used,               \* the cells malloc() has given
  next, prev,         \* the fields of each cell
  wishlist, schedules,
  tasks,              \* the jobs the scheduler knows, in the order of arrival
  held,               \* the worker thread holds wishes_mutex
  alive,              \* the lists have not been cleared
  left,               \* the lists that remain to be cleared
  pc,                 \* of the worker thread
  iter, first_wish, last_wish,  \* its local pointers
  running,            \* the job it runs, NULL between jobs or in other code
  fault

cells == <<used, next, prev>>
heads == <<wishlist, schedules>>
locals == <<iter, first_wish, last_wish>>

vars == <<cells, heads, tasks, held, alive, left, pc, locals, running, fault>>

TypeOK ==
  /\ used \subseteq Cells
  /\ next \in [Cells -> Pointers] /\ prev \in [Cells -> Pointers]
  /\ {wishlist, schedules, iter, first_wish, last_wish, running} \subseteq Pointers
  /\ ToSet(tasks) \subseteq Cells
  /\ held \in BOOLEAN /\ alive \in BOOLEAN
  /\ left \subseteq {"wishlist", "schedules"}
  /\ pc \in {"loop", "frame", "reverse", "schedule", "splice", "clear",
             "clear_wishes", "unschedule"}
  /\ fault \in {"none", "double_free", "bad_cancel"}

\* on_worker_start runs first.
Init ==
  /\ used = {}
  /\ next = [c \in Cells |-> NULL] /\ prev = [c \in Cells |-> NULL]
  /\ wishlist = NULL /\ schedules = NULL
  /\ tasks = <<>>
  /\ held = FALSE
  /\ alive = TRUE
  /\ left = {}
  /\ pc = "frame"
  /\ iter = NULL /\ first_wish = NULL /\ last_wish = NULL
  /\ running = NULL
  /\ fault = "none"

\* Where the worker thread goes on: in user code or in the scheduler's loop.
InFrame == pc \in {"loop", "frame"}
Goto(from, to) == pc = from /\ pc' = to

\* free(): the fields keep what they held.
Freed(c) ==
  /\ used' = used \ {c}
  /\ fault' = IF c \in used THEN fault ELSE "double_free"

(***************************************************************************)
(* Mutations                                                               *)
(***************************************************************************)
ReverseForward ==
  /\ next' = [next EXCEPT ![iter] = prev[iter]]
  /\ UNCHANGED prev
SpliceOver == UNCHANGED <<next, prev>>
SpliceForward ==
  IF schedules = NULL THEN UNCHANGED <<next, prev>>
  ELSE next' = [next EXCEPT ![last_wish] = schedules] /\ UNCHANGED prev
UnlistFirst(j) ==
  IF schedules = j THEN schedules' = next[j] /\ UNCHANGED <<next, prev>>
  ELSE UNCHANGED <<schedules, next, prev>>
WishesKept == UNCHANGED wishlist
WishAfter == next[iter]

(***************************************************************************)
(* Pushing                                                                 *)
(***************************************************************************)
\* A new cell in front of a list.
Link(c, head) ==
  /\ next' = [next EXCEPT ![c] = head]
  /\ prev' = IF head = NULL THEN [prev EXCEPT ![c] = NULL]
             ELSE [prev EXCEPT ![c] = NULL, ![head] = c]

\* By another thread, under wishes_mutex.  The state was seen ALIVE some time
\* ago: the lists may have been cleared in between.  (Without a beep the cell is
\* freed again and an empty list stays empty: nothing changes.)
PushWish(c) ==
  /\ ~held
  /\ c \notin used
  /\ Link(c, wishlist)
  /\ used' = used \cup {c}
  /\ wishlist' = c
  /\ UNCHANGED <<schedules, tasks, held, alive, left, pc, locals, running, fault>>

\* By user code on the worker thread.
PushSelf(c) ==
  /\ pc = "frame" /\ alive
  /\ c \notin used
  /\ used' = used \cup {c}
  /\ Link(c, schedules)
  /\ schedules' = c
  /\ tasks' = Append(tasks, c)
  /\ UNCHANGED <<wishlist, held, alive, left, pc, locals, running, fault>>

(***************************************************************************)
(* load_request_handler(), run by the scheduler or by a ping in user code  *)
(***************************************************************************)
WishesTaken == wishlist' = NULL

TakeWishes ==
  /\ InFrame /\ ~held
  /\ last_wish' = wishlist
  /\ iter' = wishlist
  /\ first_wish' = NULL
  /\ WishesTaken
  /\ pc' = IF wishlist = NULL THEN pc ELSE "reverse"
  /\ UNCHANGED <<cells, schedules, tasks, held, alive, left, running, fault>>

\* The list is turned around, cell by cell.
SwapLinks ==
  /\ next' = [next EXCEPT ![iter] = prev[iter]]
  /\ prev' = [prev EXCEPT ![iter] = next[iter]]

TurnAround ==
  /\ Goto("reverse", IF next[iter] = NULL THEN "schedule" ELSE "reverse")
  /\ first_wish' = iter
  /\ iter' = IF next[iter] = NULL THEN iter ELSE next[iter]
  /\ SwapLinks
  /\ UNCHANGED <<used, heads, tasks, held, alive, left, last_wish, running, fault>>

\* Each wish becomes a task, the oldest one first.
ThisWish == iter

Schedule ==
  /\ Goto("schedule", IF next[iter] = NULL THEN "splice" ELSE "schedule")
  /\ tasks' = Append(tasks, ThisWish)
  /\ iter' = next[iter]
  /\ UNCHANGED <<cells, heads, held, alive, left, first_wish, last_wish, running,
                 fault>>

\* The wishes go in front of the jobs scheduled before.
JoinLists ==
  IF schedules = NULL THEN UNCHANGED <<next, prev>>
  ELSE /\ next' = [next EXCEPT ![last_wish] = schedules]
       /\ prev' = [prev EXCEPT ![schedules] = last_wish]

Back == IF running = NULL THEN {"loop", "frame"} ELSE {"frame"}

Splice ==
  /\ pc = "splice" /\ pc' \in Back
  /\ JoinLists
  /\ schedules' = first_wish
  /\ UNCHANGED <<used, wishlist, tasks, held, alive, left, locals, running, fault>>

(***************************************************************************)
(* call_and_unlist_handler()                                               *)
(***************************************************************************)
Unlist(j) ==
  /\ schedules' = IF schedules = j THEN next[j] ELSE schedules
  /\ next' = IF schedules # j /\ prev[j] # NULL
             THEN [next EXCEPT ![prev[j]] = next[j]] ELSE next
  /\ prev' = IF next[j] # NULL THEN [prev EXCEPT ![next[j]] = prev[j]] ELSE prev

Run(i) ==
  /\ Goto("loop", "frame")
  /\ running' = tasks[i]
  /\ tasks' = RemoveAt(tasks, i)
  /\ Unlist(tasks[i])
  /\ UNCHANGED <<used, wishlist, held, alive, left, locals, fault>>

JobReturns ==
  /\ running # NULL
  /\ Goto("frame", "loop")
  /\ Freed(running)
  /\ running' = NULL
  /\ UNCHANGED <<next, prev, heads, tasks, held, alive, left, locals>>

\* User code that is not a job: on_worker_start, a task of the application.
OtherCode ==
  /\ running = NULL
  /\ Goto("frame", "loop") \/ Goto("loop", "frame")
  /\ UNCHANGED <<cells, heads, tasks, held, alive, left, locals, running, fault>>

(***************************************************************************)
(* The lists are cleared when the worker ends: the wishes first, or the    *)
(* jobs first (unattended_shutdown_handler, asynch_destroy).               *)
(***************************************************************************)
BeginClear ==
  /\ InFrame /\ alive
  /\ alive' = FALSE
  /\ left' = {"wishlist", "schedules"}
  /\ pc' = "clear"
  /\ UNCHANGED <<cells, heads, tasks, held, locals, running, fault>>

\* job_list_clear_locked(): wishes_mutex is held for the whole loop.
BeginClearWishes ==
  /\ "wishlist" \in left /\ ~held
  /\ left' = left \ {"wishlist"}
  /\ wishlist' = NULL
  /\ iter' = wishlist
  /\ held' = (wishlist # NULL)
  /\ Goto("clear", IF wishlist = NULL THEN "clear" ELSE "clear_wishes")
  /\ UNCHANGED <<cells, schedules, tasks, alive, first_wish, last_wish, running,
                 fault>>

\* free((iter = iter->next)->prev), and the last one by itself
FreeOne(stage) ==
  /\ Goto(stage, IF next[iter] = NULL THEN "clear" ELSE stage)
  /\ iter' = next[iter]
  /\ UNCHANGED <<next, prev, heads, alive, left, first_wish, last_wish, running>>

Victim == IF next[iter] = NULL THEN iter ELSE prev[next[iter]]

ClearWish ==
  /\ FreeOne("clear_wishes")
  /\ Freed(Victim)
  /\ held' = (next[iter] # NULL)
  /\ UNCHANGED tasks

BeginUnschedule ==
  /\ "schedules" \in left
  /\ left' = left \ {"schedules"}
  /\ schedules' = NULL
  /\ iter' = schedules
  /\ Goto("clear", IF schedules = NULL THEN "clear" ELSE "unschedule")
  /\ UNCHANGED <<cells, wishlist, tasks, held, alive, first_wish, last_wish,
                 running, fault>>

\* The task is cancelled before the cell is freed.
Unschedule ==
  /\ FreeOne("unschedule")
  /\ used' = used \ {Victim}
  /\ \/ \E i \in 1..Len(tasks) : tasks[i] = iter /\ tasks' = RemoveAt(tasks, i)
     \/ iter \notin ToSet(tasks) /\ UNCHANGED tasks
  /\ fault' = CASE iter \notin ToSet(tasks) -> "bad_cancel"
                [] Victim \notin used -> "double_free"
                [] OTHER -> fault
  /\ UNCHANGED held

Cleared ==
  /\ left = {}
  /\ pc = "clear" /\ pc' \in Back
  /\ UNCHANGED <<cells, heads, tasks, held, alive, left, locals, running, fault>>

Next ==
  /\ fault = "none"
  /\ \/ \E c \in Cells : PushWish(c) \/ PushSelf(c)
     \/ TakeWishes \/ TurnAround \/ Schedule \/ Splice
     \/ \E i \in 1..Len(tasks) : Run(i)
     \/ JobReturns \/ OtherCode
     \/ BeginClear \/ BeginClearWishes \/ ClearWish
     \/ BeginUnschedule \/ Unschedule \/ Cleared

Spec == Init /\ [][Next]_vars

-----------------------------------------------------------------------------
\* The pointers one meets following the field f from p: p, f[p], f[f[p]] ...
Walk(f, p) ==
  LET at[i \in Nat] == IF i = 0 THEN p
                       ELSE IF at[i - 1] = NULL THEN NULL ELSE f[at[i - 1]]
  IN  at

\* Those before NULL, at most one more than there are cells
ChainOf(f, p) ==
  LET at == Walk(f, p)
      listed == {i \in 0..Cardinality(Cells) : at[i] # NULL}
  IN  [i \in 1..Cardinality(listed) |-> at[i - 1]]

Chain(p) == ChainOf(next, p)

\* The jobs taken from the wishlist and not yet handed to the scheduler, the
\* oldest one first.
OnTheirWay ==
  CASE pc = "reverse" -> Reverse(Chain(iter)) \o Chain(first_wish)
    [] pc = "schedule" -> Chain(iter)
    [] OTHER -> <<>>

(***************************************************************************)
(* Properties                                                              *)
(***************************************************************************)
\* Both lists can be walked both ways, and only through memory in use: each
\* cell is the `prev' of its `next', and nothing comes before the first.
\* Unlisting a job, and the freeing loops, rely on it.
WellLinked ==
  \A head \in {wishlist, schedules} :
    LET list == Chain(head) IN
    /\ ToSet(list) \subseteq used
    /\ \A i \in 1..Len(list) : prev[list[i]] = IF i = 1 THEN NULL ELSE list[i - 1]

\* The cells the worker thread holds on to while it is at work on a list
InHand ==
  CASE pc = "splice" -> Chain(first_wish)
    [] pc = "schedule" -> Chain(first_wish)
    [] pc \in {"clear_wishes", "unschedule"} -> Chain(iter)
    [] OTHER -> OnTheirWay

\* No job falls out of the lists and none is in two places: every cell in use is
\* in exactly one of the two lists or in the hands of the worker thread.  (A wish
\* pushed after the last clearing has its place too, in a list nobody visits.)
EveryJobHasAPlace ==
  LET places == <<ToSet(Chain(wishlist)), ToSet(Chain(schedules)), ToSet(InHand),
                  {running} \ {NULL}>>
  IN  /\ used = UNION ToSet(places)
      /\ \A i, j \in 1..Len(places) : i # j => places[i] \cap places[j] = {}

\* Between two pieces of library code the list of scheduled jobs is the list of
\* the tasks the scheduler has for them: clearing the list leaves no task behind
\* that would run on freed memory, and cancels none that has run.
TasksAreListed == InFrame => ToSet(tasks) = ToSet(Chain(schedules))

\* Nothing is freed twice, no task is cancelled that the scheduler has not.
MemorySafe == fault = "none"

\* The two lists are a queue.
Queue == INSTANCE JobQueue WITH
  Jobs <- Cells,
  wishes <- Reverse(Chain(wishlist)),
  taken <- OnTheirWay,
  scheduled <- tasks

ImplementsQueue == Queue!Spec
=============================================================================
