------------------------------ MODULE JobQueue ------------------------------
(***************************************************************************)
(* What the two job lists of a worker are for: jobs wished by other        *)
(* threads are handed to the scheduler once, in the order of the wishes;   *)
(* jobs pushed by the worker thread are handed over at once; whatever the  *)
(* scheduler has not run when the worker ends is dropped.  JobLists does   *)
(* it with two linked lists.                                               *)
(***************************************************************************)
EXTENDS Integers, Sequences, SequencesExt

CONSTANT Jobs

VARIABLES
  wishes,       \* the jobs nobody has taken yet
  taken,        \* the jobs on their way to the scheduler
  scheduled     \* the jobs handed over, in that order, and not run yet

vars == <<wishes, taken, scheduled>>

Pending == ToSet(wishes) \cup ToSet(taken) \cup ToSet(scheduled)

Init == wishes = <<>> /\ taken = <<>> /\ scheduled = <<>>

Wish(j) ==
  /\ j \notin Pending
  /\ wishes' = Append(wishes, j)
  /\ UNCHANGED <<taken, scheduled>>

PushSelf(j) ==
  /\ j \notin Pending
  /\ scheduled' = Append(scheduled, j)
  /\ UNCHANGED <<wishes, taken>>

Take ==
  /\ taken = <<>>
  /\ taken' = wishes
  /\ wishes' = <<>>
  /\ UNCHANGED scheduled

HandOver ==
  /\ taken # <<>>
  /\ scheduled' = Append(scheduled, Head(taken))
  /\ taken' = Tail(taken)
  /\ UNCHANGED wishes

\* The scheduler runs, or cancels, the job it likes: it knows the priorities.
Leave(i) ==
  /\ scheduled' = RemoveAt(scheduled, i)
  /\ UNCHANGED <<wishes, taken>>

DropWishes ==
  /\ wishes' = <<>>
  /\ UNCHANGED <<taken, scheduled>>

Next ==
  \/ \E j \in Jobs : Wish(j) \/ PushSelf(j)
  \/ Take \/ HandOver \/ DropWishes
  \/ \E i \in 1..Len(scheduled) : Leave(i)

Spec == Init /\ [][Next]_vars
=============================================================================
