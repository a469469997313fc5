------------------------------ MODULE WorkerSpec ------------------------------
(***************************************************************************)
(* What the library promises of a worker, whoever uses it and however it   *)
(* ends: the calls it is used by, the jobs it has been given, its life and *)
(* its death.  Worker implements it.                                       *)
(***************************************************************************)
EXTENDS Naturals

CONSTANT Users    \* the threads that may be inside a call

VARIABLES
  phase,    \* "living", "condemned", "dead", "freed"
  users,    \* the threads that are inside a call
  backlog   \* jobs the scheduler will run

vars == <<phase, users, backlog>>

Init == phase = "living" /\ users = {} /\ backlog = 0

InLife == phase \in {"living", "condemned"}

\* A call needs a worker whose on_worker_end has not returned.
Enter ==
  /\ InLife
  /\ \E u \in Users \ users : users' = users \cup {u}
  /\ UNCHANGED <<phase, backlog>>

Leave ==
  /\ \E u \in users : users' = users \ {u}
  /\ UNCHANGED <<phase, backlog>>

\* Jobs are added to a worker in life, and run, or are dropped, before its death.
Schedule ==
  /\ InLife
  /\ backlog' \in Nat
  /\ backlog' > backlog
  /\ UNCHANGED <<phase, users>>

Run ==
  /\ InLife
  /\ backlog > 0
  /\ backlog' = backlog - 1
  /\ UNCHANGED <<phase, users>>

\* There is no way back from a condemnation, which may drop the jobs.
Condemn ==
  /\ InLife
  /\ phase' = "condemned"
  /\ backlog' \in {0, backlog}
  /\ UNCHANGED users

\* on_worker_end returns: no job will ever run again.
Die ==
  /\ phase = "condemned"
  /\ backlog = 0
  /\ phase' = "dead"
  /\ UNCHANGED <<users, backlog>>

\* The instance outlives the calls that use it.
Free ==
  /\ phase = "dead"
  /\ users = {}
  /\ phase' = "freed"
  /\ UNCHANGED <<users, backlog>>

Next == Enter \/ Leave \/ Schedule \/ Run \/ Condemn \/ Die \/ Free

Spec == Init /\ [][Next]_vars

=============================================================================
