-------------------------- MODULE RequirementProofs --------------------------
(***************************************************************************)
(* Theorems about Requirement, for any painters, waiters and bounds.       *)
(***************************************************************************)
EXTENDS Requirement, TLAPS

(***************************************************************************)
(* The inductive invariant                                                 *)
(***************************************************************************)

\* Painters paint and waiters wait: each is only where its function takes it.
Roles ==
  \A p \in Procs :
    /\ op[p] \in WaitOps <=> p \in AllWaiters
    /\ pc[p] = "paint" => op[p] \in PaintOps
    /\ pc[p] \in {"test", "asleep"} => op[p] \in WaitOps

IInv == TypeOK /\ Owned /\ Roles

\* requirement_init() establishes the invariant.
LEMMA InitIInv == Init => IInv
<1> SUFFICES ASSUME Init PROVE TypeOK /\ Owned /\ Roles
  BY DEF IInv
<1> USE ProcsAssumption, ValuesAssumption DEF Init, PaintOps, WaitOps
<1>1. op \in [Procs -> PaintOps \cup WaitOps] /\ late \in BOOLEAN
  OBVIOUS
<1>2. TypeOK
  BY <1>1 DEF TypeOK
<1>3. Owned /\ Roles
  BY DEF Owned, Roles, Procs
<1> QED BY <1>2, <1>3

\* A painting leaves a natural number, wakes only who was blocked.
LEMMA PaintKeepsDomains ==
  ASSUME req_unfulfillment \in Nat, req_cond \subseteq AllWaiters
  PROVE  /\ Less => req_unfulfillment' \in Nat
         /\ Signal => req_cond' \subseteq AllWaiters
  BY DEF Less, Signal

\* Every step keeps it.
LEMMA StepIInv == IInv /\ [Next]_vars => IInv'
<1> SUFFICES ASSUME IInv, [Next]_vars PROVE IInv'
  OBVIOUS
<1> USE ProcsAssumption DEF IInv, TypeOK, Owned, Roles, Goto, PaintOps, WaitOps
<1>1. ASSUME NEW p \in Procs, NEW o \in PaintOps \cup WaitOps, Call(p, o)
      PROVE  IInv'
  BY <1>1 DEF Call, OpsOf, Procs, AllWaiters
<1>2. ASSUME NEW p \in Procs, Lock(p) PROVE IInv'
  BY <1>2 DEF Lock
<1>3. ASSUME NEW p \in Procs, PaintRed(p) PROVE IInv'
  BY <1>3 DEF PaintRed
<1>4. ASSUME NEW p \in Procs, PaintGreen(p) PROVE IInv'
  <2>1. req_unfulfillment' \in Nat /\ req_cond' \subseteq AllWaiters
    BY <1>4, PaintKeepsDomains DEF PaintGreen
  <2> QED BY <1>4, <2>1 DEF PaintGreen
<1>5. ASSUME NEW p \in Procs, Block(p) \/ BlockNoMore(p) PROVE IInv'
  BY <1>5 DEF Block, BlockNoMore, Expired
<1>6. ASSUME NEW p \in Procs, FindGreen(p) PROVE IInv'
  BY <1>6 DEF FindGreen
<1>7. ASSUME NEW p \in Procs, Wake(p) \/ WakeSpuriously(p) \/ WakeLate(p) PROVE IInv'
  BY <1>7 DEF Wake, WakeSpuriously, WakeLate, Expired
<1>8. ASSUME NEW p \in Procs, Unlock(p) PROVE IInv'
  BY <1>8 DEF Unlock
<1>9. CASE TimePasses
  BY <1>9 DEF TimePasses
<1>10. CASE UNCHANGED vars
  BY <1>10 DEF vars
<1> QED
  BY <1>1, <1>2, <1>3, <1>4, <1>5, <1>6, <1>7, <1>8, <1>9, <1>10 DEF Next, Step

(***************************************************************************)
(* Safety                                                                  *)
(***************************************************************************)

\* The counter is never negative, whatever the threads paint.
THEOREM TypeCorrect == Spec => []TypeOK
<1>1. IInv => TypeOK
  BY DEF IInv
<1> QED BY <1>1, InitIInv, StepIInv, PTL DEF Spec

\* Mutual exclusion: who is at work on the counter owns the mutex.
THEOREM MutexProtects == Spec => []Owned
<1>1. IInv => Owned
  BY DEF IInv
<1> QED BY <1>1, InitIInv, StepIInv, PTL DEF Spec

\* With one thread that waits, as the worker thread does on
\* worker_is_disposable, the single pthread_cond_signal() is enough: nobody
\* sleeps while the requirement is green.
THEOREM OneWaiterIsWoken ==
  ASSUME NEW w, AllWaiters = {w}
  PROVE  Spec => []NoLostWakeup
<1>1. Init => NoLostWakeup
  BY DEF Init, NoLostWakeup
<1>2. IInv /\ NoLostWakeup /\ [Next]_vars => NoLostWakeup'
  <2> SUFFICES ASSUME IInv, NoLostWakeup, [Next]_vars PROVE NoLostWakeup'
    OBVIOUS
  <2> USE DEF IInv, TypeOK, NoLostWakeup
  <2>1. ASSUME NEW p \in Procs, PaintGreen(p) PROVE NoLostWakeup'
    <3>1. req_cond \subseteq {w} /\ (Signal => req_cond' = {})
      BY DEF Signal
    <3> QED BY <2>1, <3>1 DEF PaintGreen, Less
  <2>2. ASSUME NEW p \in Procs, PaintRed(p) \/ Block(p) \/ BlockNoMore(p)
                                \/ FindGreen(p) \/ Unlock(p)
        PROVE  NoLostWakeup'
    BY <2>2 DEF PaintRed, Block, BlockNoMore, FindGreen, Unlock
  <2>3. ASSUME NEW p \in Procs, Wake(p) \/ WakeSpuriously(p) \/ WakeLate(p) \/ Lock(p)
        PROVE  NoLostWakeup'
    BY <2>3 DEF Wake, WakeSpuriously, WakeLate, Lock
  <2>4. CASE TimePasses \/ UNCHANGED vars
    BY <2>4 DEF TimePasses, vars
  <2>5. ASSUME NEW p \in Procs, NEW o \in PaintOps \cup WaitOps, Call(p, o)
        PROVE  NoLostWakeup'
    BY <2>5 DEF Call
  <2> QED BY <2>1, <2>2, <2>3, <2>4, <2>5 DEF Next, Step
<1> QED BY <1>1, <1>2, InitIInv, StepIInv, PTL DEF Spec

(***************************************************************************)
(* Refinement                                                              *)
(***************************************************************************)
InWait == {p \in AllWaiters : pc[p] \in {"lock", "test", "asleep"}}

\* A new Requirement is a new counter.
LEMMA InitRefines == Init => Abstract!Init
  BY DEF Init, Abstract!Init, Procs

\* Every step paints the counter, begins or ends a wait, or leaves both alone.
LEMMA StepRefines == IInv /\ [Next]_vars => [Abstract!Next]_(Abstract!vars)
<1> SUFFICES ASSUME IInv, [Next]_vars
             PROVE  Abstract!Next \/ UNCHANGED <<req_unfulfillment, InWait>>
  BY DEF Abstract!vars, InWait
<1> USE ProcsAssumption DEF IInv, TypeOK, Roles, Goto, InWait, PaintOps, WaitOps
<1>1. AllWaiters \subseteq Procs /\ \A p \in Painters : p \in Procs /\ p \notin AllWaiters
  BY DEF Procs
<1>2. ASSUME NEW p \in Procs, NEW o \in PaintOps \cup WaitOps, Call(p, o)
      PROVE  Abstract!Next \/ UNCHANGED <<req_unfulfillment, InWait>>
  <2>1. CASE p \in AllWaiters
    <3>1. p \notin InWait /\ InWait' = InWait \cup {p}
      BY <1>1, <1>2, <2>1 DEF Call
    <3> QED BY <1>2, <2>1, <3>1 DEF Call, Abstract!Next, Abstract!BeginWait
  <2>2. CASE p \notin AllWaiters
    <3>1. InWait' = InWait
      BY <1>1, <1>2, <2>2 DEF Call
    <3> QED BY <1>2, <3>1 DEF Call
  <2> QED BY <2>1, <2>2
<1>3. ASSUME NEW p \in Procs,
             \/ Lock(p) \/ Block(p) \/ BlockNoMore(p)
             \/ Wake(p) \/ WakeSpuriously(p) \/ WakeLate(p)
      PROVE  UNCHANGED <<req_unfulfillment, InWait>>
  <2>1. InWait' = InWait
    BY <1>1, <1>3 DEF Lock, Block, BlockNoMore, Wake, WakeSpuriously,
       WakeLate, Expired
  <2> QED BY <1>3, <2>1 DEF Lock, Block, BlockNoMore, Wake, WakeSpuriously,
       WakeLate, Expired
<1>4. ASSUME NEW p \in Procs, PaintRed(p)
      PROVE  Abstract!Next
  <2>1. InWait' = InWait
    BY <1>1, <1>4 DEF PaintRed
  <2> QED BY <1>4, <2>1 DEF PaintRed, Abstract!Next, Abstract!PaintRed
<1>5. ASSUME NEW p \in Procs, PaintGreen(p)
      PROVE  Abstract!Next \/ UNCHANGED <<req_unfulfillment, InWait>>
  <2>1. InWait' = InWait
    BY <1>1, <1>5 DEF PaintGreen
  <2> QED BY <1>5, <2>1 DEF PaintGreen, Less, Abstract!Next, Abstract!PaintGreen
<1>6. ASSUME NEW p \in Procs, FindGreen(p)
      PROVE  Abstract!Next
  <2>1. p \in AllWaiters /\ p \in InWait /\ InWait' = InWait \ {p}
    BY <1>1, <1>6 DEF FindGreen
  <2> QED BY <1>6, <2>1 DEF FindGreen, Abstract!Next, Abstract!EndWait
<1>7. ASSUME NEW p \in Procs, Unlock(p)
      PROVE  UNCHANGED <<req_unfulfillment, InWait>>
  <2>1. InWait' = InWait
    BY <1>1, <1>7 DEF Unlock
  <2> QED BY <1>7, <2>1 DEF Unlock
<1>8. CASE TimePasses \/ UNCHANGED vars
  BY <1>8 DEF TimePasses, vars
<1> QED
  BY <1>2, <1>3, <1>4, <1>5, <1>6, <1>7, <1>8 DEF Next, Step

\* With its mutex and its condition variable, and whatever wakes its threads, a
\* Requirement is a counter painted at once, and a wait ends only on green.
THEOREM RequirementIsCounter == Spec => ImplementsCounter
<1> QED
  BY InitIInv, StepIInv, InitRefines, StepRefines, PTL
  DEF Spec, ImplementsCounter, Abstract!Safety
=============================================================================
