--------------------------- MODULE RequirementSpec ---------------------------
(***************************************************************************)
(* What a Requirement (src/src/requirement.h) promises, without its mutex  *)
(* and its condition variable: a counter that is painted red and green at  *)
(* once, and waits that end only while it is green.  Worker uses           *)
(* worker_is_disposable and scheduler_has_returned in this form.           *)
(***************************************************************************)
EXTENDS Integers

CONSTANTS
  Waiters,          \* threads that may wait
  InitialValue      \* REQ_INIT_GREEN = 0 or REQ_INIT_RED = 1

VARIABLES
  unfulfillment,
  waiting           \* the threads inside a wait

vars == <<unfulfillment, waiting>>

Init ==
  /\ unfulfillment = InitialValue
  /\ waiting = {}

PaintRed == unfulfillment' = unfulfillment + 1 /\ UNCHANGED waiting

\* Painting a green requirement green changes nothing.
PaintGreen ==
  /\ unfulfillment > 0
  /\ unfulfillment' = unfulfillment - 1
  /\ UNCHANGED waiting

BeginWait(w) ==
  /\ w \notin waiting
  /\ waiting' = waiting \cup {w}
  /\ UNCHANGED unfulfillment

EndWait(w) ==
  /\ w \in waiting
  /\ unfulfillment = 0
  /\ waiting' = waiting \ {w}
  /\ UNCHANGED unfulfillment

Next == PaintRed \/ PaintGreen \/ \E w \in Waiters : BeginWait(w) \/ EndWait(w)

Safety == Init /\ [][Next]_vars

\* A wait does not outlast a requirement that stays green.
Spec == Safety /\ \A w \in Waiters : WF_vars(EndWait(w))

=============================================================================
