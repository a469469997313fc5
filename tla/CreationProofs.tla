---------------------------- MODULE CreationProofs ----------------------------
(***************************************************************************)
(* Theorems about Creation, for any threads and any number of workers,     *)
(* whichever threads are refused and however soon a worker ends.           *)
(***************************************************************************)
EXTENDS Creation, TLAPS

Pcs == {"code", "new_thread", "save", "install", "launch", "master", "launched",
        "gone", "aborted"}

\* The domains of the variables, as TypeOK has them, and none of the threads
\* names a worker that is still to be made.
Domains ==
  /\ made \in 0..MaxWorkers
  /\ used \subseteq 1..made /\ dead \subseteq 1..made
  /\ maker \in [Workers -> Makers]
  /\ mastered \subseteq Workers
  /\ serving \in [Threads -> 1..made \cup {NULL}]
  /\ saved \in [Threads -> 1..made \cup {NULL}]
  /\ pc \in [Threads -> Pcs]
  /\ arg \in [Threads -> 1..made \cup {NULL}]
  /\ \A t \in Threads :
       pc[t] \in {"new_thread", "save", "install", "launch", "master"} => arg[t] # NULL
  /\ launched \in [Threads -> 1..made \cup {NULL}]
  /\ sched \in [Threads -> {"none", "starting", "running", "stopping"}]
  /\ armed \in [Threads -> 1..made \cup {NULL}]
  /\ fault \in {"none", "use_after_free", "double_free"}

Guest(w) == maker[w] = "adopt"

\* Thread t is making the worker arg[t] and would have to free it.
Making(t) ==
  \/ pc[t] \in {"new_thread", "install", "launch"}
  \/ pc[t] = "save" /\ maker[arg[t]] = "start_serving"

\* A worker in the making is alive, made by one thread, and served by nobody
\* but, if it is a guest, by the thread that makes it.
Makes ==
  \A t \in Threads : Making(t) =>
    /\ arg[t] \in used /\ arg[t] \notin dead
    /\ Guest(arg[t]) => serving[t] = arg[t] /\ sched[t] = "running"
                        /\ armed[t] = NULL /\ pc[t] # "launch"
    /\ ~Guest(arg[t]) => pc[t] # "install" /\ \A u \in Threads : serving[u] # arg[t]
    /\ \A u \in Threads : u # t /\ Making(u) => arg[u] # arg[t]

\* Nothing is left of the past of a thread that begins, or begins to serve; of
\* one that is gone, at most a stray pointer.
Begins ==
  \A t \in Threads :
    /\ \/ pc[t] \in {"gone", "master", "launch"}
       \/ pc[t] \in {"new_thread", "save"} /\ maker[arg[t]] = "start_serving"
       => launched[t] = NULL /\ armed[t] = NULL /\ sched[t] = "none"
    /\ \/ pc[t] \in {"master", "launch"}
       \/ pc[t] \in {"new_thread", "save"} /\ maker[arg[t]] = "start_serving"
       => serving[t] = NULL

\* A thread that is not stray serves as the worker it was launched with, or as a
\* guest that is being made or has its handlers in the scheduler.
Serves ==
  \A t \in Threads :
    /\ serving[t] # NULL =>
         \/ armed[t] = serving[t] \/ launched[t] = serving[t]
         \/ pc[t] \in {"new_thread", "install"} /\ arg[t] = serving[t] /\ Guest(arg[t])
         \/ Stray(t)
    /\ armed[t] # NULL =>
         /\ sched[t] \in {"running", "stopping"} /\ armed[t] \notin dead
         /\ ~Guest(armed[t]) => launched[t] = armed[t]

\* The worker of a launcher is freed only after its dismissal, and dead unless
\* its handlers are armed or to be armed.
Launches ==
  \A t \in Threads :
    /\ launched[t] # NULL =>
         /\ ~Guest(launched[t])
         /\ serving[t] = launched[t] \/ launched[t] \notin used
         /\ sched[t] # "none" \/ pc[t] = "launched"
         /\ serving[t] = launched[t] /\ launched[t] \notin dead
            => armed[t] = launched[t] \/ sched[t] = "starting"
    /\ pc[t] = "launched" => launched[t] # NULL /\ sched[t] = "none"
    /\ sched[t] = "starting" => /\ launched[t] # NULL /\ serving[t] = launched[t]
                                /\ armed[t] = NULL /\ launched[t] \notin dead

\* While a thread is sought for a worker nobody else has it in hand, so that a
\* refusal takes it from nobody.
Seeks ==
  \A t \in Threads : pc[t] = "new_thread" =>
    \A u \in Threads :
      /\ u # t /\ pc[u] \in {"new_thread", "save", "install", "launch", "master"}
         => arg[u] # arg[t]
      /\ saved[u] # arg[t]

IInv ==
  /\ Domains /\ Makes /\ Begins /\ Serves /\ Launches /\ Seeks
  /\ ServingIsOwn /\ EveryInstanceHasAnEnd /\ NoAbort /\ RefusalsLeaveNothing

\* The new instance is made by one thread, and known to no other.
LEMMA AllocateInv ==
  ASSUME IInv, NEW t \in Threads, NEW f \in Makers, NEW m \in BOOLEAN, Allocate(t, f, m)
  PROVE  IInv'
<1> USE CreationAssumption
    DEF Workers, Goto, Guest, Making, Allocate, MayMake, IsServing, Serve,
        IInv, Domains, Makes, Begins, Serves, Launches, Seeks, NoAbort,
        RefusalsLeaveNothing, ServingIsOwn, Refused, Stray, instances, thread, scheduler
<1> DEFINE w == made + 1
<1>a. w \in Workers /\ w \notin 1..made /\ 1..made' = 1..made \cup {w} /\ w # NULL
  OBVIOUS
<1>b. maker'[w] = f /\ \A x \in 1..made : maker'[x] = maker[x]
  BY <1>a DEF Makers
<1>c. /\ arg'[t] = w /\ \A v \in Threads \ {t} : arg'[v] = arg[v] /\ pc'[v] = pc[v]
      /\ used' = used \cup {w} /\ UNCHANGED <<dead, saved, scheduler, fault>>
  OBVIOUS
<1>d. /\ pc[t] = "code" /\ pc'[t] \in {"new_thread", "install", "save"}
      /\ pc'[t] = "install" => f = "adopt"
      /\ f = "adopt" => pc'[t] # "save"
      /\ f = "create" => pc'[t] = "new_thread"
  OBVIOUS
<1>e. /\ f = "adopt" => serving[t] = NULL /\ sched[t] = "running"
                         /\ serving' = [serving EXCEPT ![t] = w]
      /\ f # "adopt" => UNCHANGED serving
      /\ f = "start_serving" => serving[t] = NULL /\ sched[t] = "none"
  OBVIOUS
<1>0. f \in {"create", "start_serving", "adopt"}
  BY DEF Makers
<1> USE <1>a, <1>b, <1>c, <1>d, <1>e, <1>0
<1>1. Domains'
  <2>1. pc' \in [Threads -> Pcs]
    BY DEF Pcs
  <2>2. used' \subseteq 1..made' /\ dead' \subseteq 1..made' /\ made' \in 0..MaxWorkers
    BY <1>0
  <2>3. /\ arg' \in [Threads -> 1..made' \cup {NULL}]
        /\ serving' \in [Threads -> 1..made' \cup {NULL}]
    BY <1>0
  <2>4. /\ maker' \in [Workers -> Makers] /\ mastered' \subseteq Workers
    BY <1>0
  <2>5. \A v \in Threads :
           pc'[v] \in {"new_thread", "save", "install", "launch", "master"} => arg'[v] # NULL
    BY <1>0
  <2>6. /\ saved' \in [Threads -> 1..made' \cup {NULL}]
        /\ launched' \in [Threads -> 1..made' \cup {NULL}]
        /\ armed' \in [Threads -> 1..made' \cup {NULL}]
    BY <1>0
  <2> QED BY <1>0, <2>1, <2>2, <2>3, <2>4, <2>5, <2>6
<1>2. Makes'
  <2>1. \A v \in Threads \ {t} : Making(v)' => Making(v) /\ arg[v] \in 1..made
    BY <1>0
  <2> QED BY <1>0, <2>1
<1>3. Begins'
  BY <1>0
<1>4. Serves'
  OBVIOUS
<1>5. Launches'
  BY <1>0
<1>6. Seeks'
  OBVIOUS
<1>7. ServingIsOwn'
  BY <1>0
<1>8. EveryInstanceHasAnEnd'
  <2> SUFFICES ASSUME NEW x \in used'
               PROVE  \E v \in Threads :
                        \/ arg'[v] = x /\ Making(v)'
                        \/ launched'[v] = x /\ serving'[v] = x
                        \/ armed'[v] = x
    <3> HIDE DEF IInv, Allocate, w
    <3> QED BY DEF EveryInstanceHasAnEnd
  <2>1. CASE x = w
    <3>1. arg'[t] = x /\ Making(t)'
      BY <2>1
    <3> QED BY <3>1
  <2>2. CASE x \in used
    <3>1. PICK v \in Threads : \/ arg[v] = x /\ Making(v)
                               \/ launched[v] = x /\ serving[v] = x
                               \/ armed[v] = x
      BY <2>2 DEF EveryInstanceHasAnEnd
    <3>2. CASE arg[v] = x /\ Making(v)
      <4>1. arg'[v] = x /\ Making(v)'
        BY <2>2, <3>2
      <4> QED BY <4>1
    <3>3. CASE launched[v] = x /\ serving[v] = x
      <4>1. launched'[v] = x /\ serving'[v] = x
        BY <2>2, <3>3
      <4> QED BY <4>1
    <3>4. CASE armed[v] = x
      BY <3>4
    <3> QED BY <3>1, <3>2, <3>3, <3>4
  <2> QED BY <2>1, <2>2
<1>9. NoAbort' /\ RefusalsLeaveNothing'
  OBVIOUS
<1> QED BY <1>1, <1>2, <1>3, <1>4, <1>5, <1>6, <1>7, <1>8, <1>9

\* A new thread begins without a past.
LEMMA NewThreadInv ==
  ASSUME IInv, NEW t \in Threads, NEW u \in Threads, NewThread(t, u)
  PROVE  IInv'
<1> USE CreationAssumption
    DEF Workers, Goto, Guest, Making, NewThread, Passed, ServeNobody,
        IInv, Domains, Makes, Begins, Serves, Launches, Seeks, NoAbort,
        RefusalsLeaveNothing, ServingIsOwn, Refused, Stray, instances, thread, scheduler
<1>1. Domains'
  <2>1. t # u /\ arg[t] \in 1..made
    OBVIOUS
  <2>2. pc' \in [Threads -> Pcs]
    BY DEF Pcs
  <2>3. arg' \in [Threads -> 1..made \cup {NULL}]
    BY <2>1
  <2>4. \A v \in Threads :
           pc'[v] \in {"new_thread", "save", "install", "launch", "master"} => arg'[v] # NULL
    BY <2>1
  <2> QED BY <2>2, <2>3, <2>4 DEF Makers
<1>2. Makes'
  OBVIOUS
<1>3. Begins'
  OBVIOUS
<1>4. Serves'
  OBVIOUS
<1>5. Launches'
  OBVIOUS
<1>6. Seeks'
  OBVIOUS
<1>7. ServingIsOwn'
  OBVIOUS
<1>8. EveryInstanceHasAnEnd'
  <2> SUFFICES ASSUME NEW w \in used'
               PROVE  \E v \in Threads :
                        \/ arg'[v] = w /\ Making(v)'
                        \/ launched'[v] = w /\ serving'[v] = w
                        \/ armed'[v] = w
    BY DEF EveryInstanceHasAnEnd
  <2>1. PICK v \in Threads : \/ arg[v] = w /\ Making(v)
                             \/ launched[v] = w /\ serving[v] = w
                             \/ armed[v] = w
    BY DEF EveryInstanceHasAnEnd
  <2>2. CASE v = t /\ arg[t] = w /\ maker[w] = "create"
    <3>1. arg'[u] = w /\ pc'[u] = "launch"
      BY <2>2
    <3> QED BY <3>1
  <2>3. CASE v = t /\ arg[t] = w /\ maker[w] # "create"
    <3>1. arg'[t] = w /\ Making(t)'
      BY <2>3 DEF Makers
    <3> QED BY <3>1
  <2>4. CASE armed[v] = w \/ (launched[v] = w /\ serving[v] = w)
    BY <2>4
  <2>5. CASE v # t /\ arg[v] = w /\ Making(v)
    <3>1. arg'[v] = w /\ Making(v)'
      BY <2>5
    <3> QED BY <3>1
  <2> QED BY <2>1, <2>2, <2>3, <2>4, <2>5
<1>9. NoAbort' /\ RefusalsLeaveNothing'
  OBVIOUS
<1> QED BY <1>1, <1>2, <1>3, <1>4, <1>5, <1>6, <1>7, <1>8, <1>9

\* An instance that finds no thread is freed by the function that made it.
LEMMA NoThreadInv ==
  ASSUME IInv, NEW t \in Threads, NoThread(t)
  PROVE  IInv'
<1> USE CreationAssumption
    DEF Workers, Goto, Guest, Making, NoThread, Unallocate,
        IInv, Domains, Makes, Begins, Serves, Launches, Seeks, NoAbort,
        RefusalsLeaveNothing, ServingIsOwn, Refused, Stray, instances, thread, scheduler
<1>1. Domains'
  <2>1. pc' \in [Threads -> Pcs]
    BY DEF Pcs
  <2>2. used' \subseteq 1..made' /\ dead' \subseteq 1..made'
    OBVIOUS
  <2>3. fault' \in {"none", "use_after_free", "double_free"}
    OBVIOUS
  <2> QED BY <2>1, <2>2, <2>3 DEF Makers, Pcs
<1>2. Makes'
  OBVIOUS
<1>3. Begins'
  OBVIOUS
<1>4. Serves'
  OBVIOUS
<1>5. Launches'
  OBVIOUS
<1>6. Seeks'
  OBVIOUS
<1>7. ServingIsOwn'
  OBVIOUS
<1>8. EveryInstanceHasAnEnd'
  BY DEF EveryInstanceHasAnEnd
<1>9. NoAbort' /\ RefusalsLeaveNothing'
  OBVIOUS
<1> QED BY <1>1, <1>2, <1>3, <1>4, <1>5, <1>6, <1>7, <1>8, <1>9

\* A guest passes from the function that makes it to the scheduler.
LEMMA InstallInv ==
  ASSUME IInv, NEW t \in Threads, Install(t)
  PROVE  IInv'
<1> USE CreationAssumption
    DEF Workers, Goto, Guest, Making, Install, Arm, Touch,
        IInv, Domains, Makes, Begins, Serves, Launches, Seeks, NoAbort,
        RefusalsLeaveNothing, ServingIsOwn, Refused, Stray, instances, thread, scheduler
<1>1. Domains'
  BY DEF Pcs, Makers
<1>2. Makes'
  OBVIOUS
<1>3. Begins'
  OBVIOUS
<1>4. Serves'
  OBVIOUS
<1>5. Launches'
  OBVIOUS
<1>6. Seeks'
  OBVIOUS
<1>7. ServingIsOwn'
  OBVIOUS
<1>8. EveryInstanceHasAnEnd'
  BY DEF EveryInstanceHasAnEnd
<1>9. NoAbort' /\ RefusalsLeaveNothing'
  OBVIOUS
<1> QED BY <1>1, <1>2, <1>3, <1>4, <1>5, <1>6, <1>7, <1>8, <1>9

\* Saving the handle hands a worker over to nobody.
LEMMA SaveInv ==
  ASSUME IInv, NEW t \in Threads, Save(t)
  PROVE  IInv'
<1> USE CreationAssumption
    DEF Workers, Goto, Guest, Making, Save,
        IInv, Domains, Makes, Begins, Serves, Launches, Seeks, NoAbort,
        RefusalsLeaveNothing, ServingIsOwn, Refused, Stray, instances, thread, scheduler
<1>1. Domains'
  <2>1. pc' \in [Threads -> Pcs]
    BY DEF Pcs
  <2>2. used' \subseteq 1..made' /\ dead' \subseteq 1..made'
    OBVIOUS
  <2>3. fault' \in {"none", "use_after_free", "double_free"}
    OBVIOUS
  <2>4. saved' \in [Threads -> 1..made \cup {NULL}]
    <3>1. CASE saved' = [saved EXCEPT ![t] = arg[t]]
      BY <3>1
    <3>2. CASE UNCHANGED saved
      BY <3>2
    <3> QED BY <3>1, <3>2
  <2> QED BY <2>1, <2>2, <2>3, <2>4 DEF Makers, Pcs
<1>2. Makes'
  OBVIOUS
<1>3. Begins'
  OBVIOUS
<1>4. Serves'
  OBVIOUS
<1>5. Launches'
  OBVIOUS
<1>6. Seeks'
  OBVIOUS
<1>7. ServingIsOwn'
  OBVIOUS
<1>8. EveryInstanceHasAnEnd'
  BY DEF EveryInstanceHasAnEnd
<1>9. NoAbort' /\ RefusalsLeaveNothing'
  OBVIOUS
<1> QED BY <1>1, <1>2, <1>3, <1>4, <1>5, <1>6, <1>7, <1>8, <1>9

\* A launcher serves as the worker it was given.
LEMMA LaunchInv ==
  ASSUME IInv, NEW t \in Threads, Launch(t)
  PROVE  IInv'
<1> USE CreationAssumption
    DEF Workers, Goto, Guest, Making, Launch, Serve,
        IInv, Domains, Makes, Begins, Serves, Launches, Seeks, NoAbort,
        RefusalsLeaveNothing, ServingIsOwn, Refused, Stray, instances, thread, scheduler
<1>1. Domains'
  BY DEF Pcs, Makers
<1>2. Makes'
  OBVIOUS
<1>3. Begins'
  OBVIOUS
<1>4. Serves'
  OBVIOUS
<1>5. Launches'
  OBVIOUS
<1>6. Seeks'
  OBVIOUS
<1>7. ServingIsOwn'
  <2>1. \A u \in Threads : serving[u] # arg[t]
    OBVIOUS
  <2>2. arg[t] \in used /\ armed[t] = NULL /\ UNCHANGED <<used, armed>>
    OBVIOUS
  <2> QED BY <2>1, <2>2
<1>8. EveryInstanceHasAnEnd'
  BY DEF EveryInstanceHasAnEnd
<1>9. NoAbort' /\ RefusalsLeaveNothing'
  OBVIOUS
<1> QED BY <1>1, <1>2, <1>3, <1>4, <1>5, <1>6, <1>7, <1>8, <1>9

\* A worker that lives on has its handlers armed.
LEMMA SettleInv ==
  ASSUME IInv, NEW t \in Threads, Settle(t)
  PROVE  IInv'
<1> USE CreationAssumption
    DEF Workers, Goto, Guest, Making, Settle, Arm, Touch,
        IInv, Domains, Makes, Begins, Serves, Launches, Seeks, NoAbort,
        RefusalsLeaveNothing, ServingIsOwn, Refused, Stray, instances, thread, scheduler
<1>1. Domains'
  BY DEF Pcs, Makers
<1>2. Makes'
  OBVIOUS
<1>3. Begins'
  OBVIOUS
<1>4. Serves'
  OBVIOUS
<1>5. Launches'
  OBVIOUS
<1>6. Seeks'
  OBVIOUS
<1>7. ServingIsOwn'
  OBVIOUS
<1>8. EveryInstanceHasAnEnd'
  BY DEF EveryInstanceHasAnEnd
<1>9. NoAbort' /\ RefusalsLeaveNothing'
  OBVIOUS
<1> QED BY <1>1, <1>2, <1>3, <1>4, <1>5, <1>6, <1>7, <1>8, <1>9

\* A master finds its instance.
LEMMA EnterMasterInv ==
  ASSUME IInv, NEW t \in Threads, EnterMaster(t)
  PROVE  IInv'
<1> USE CreationAssumption
    DEF Workers, Goto, Guest, Making, EnterMaster, ServeNobody, Touch,
        IInv, Domains, Makes, Begins, Serves, Launches, Seeks, NoAbort,
        RefusalsLeaveNothing, ServingIsOwn, Refused, Stray, instances, thread, scheduler
<1>1. Domains'
  BY DEF Pcs, Makers
<1>2. Makes'
  OBVIOUS
<1>3. Begins'
  OBVIOUS
<1>4. Serves'
  OBVIOUS
<1>5. Launches'
  OBVIOUS
<1>6. Seeks'
  OBVIOUS
<1>7. ServingIsOwn'
  OBVIOUS
<1>8. EveryInstanceHasAnEnd'
  BY DEF EveryInstanceHasAnEnd
<1>9. NoAbort' /\ RefusalsLeaveNothing'
  OBVIOUS
<1> QED BY <1>1, <1>2, <1>3, <1>4, <1>5, <1>6, <1>7, <1>8, <1>9

\* A launcher frees its worker, dead, unless the worker was dismissed.
LEMMA LauncherEndsInv ==
  ASSUME IInv, NEW t \in Threads, LauncherEnds(t)
  PROVE  IInv'
<1> USE CreationAssumption
    DEF Workers, Goto, Guest, Making, LauncherEnds, Dismissed, IsServing, ServeNobody, Unallocate, Touch,
        IInv, Domains, Makes, Begins, Serves, Launches, Seeks, NoAbort,
        RefusalsLeaveNothing, ServingIsOwn, Refused, Stray, instances, thread, scheduler
<1>1. Domains'
  <2>1. pc' \in [Threads -> Pcs]
    BY DEF Pcs
  <2>2. used' \subseteq 1..made' /\ dead' \subseteq 1..made'
    <3>1. used' \subseteq used /\ UNCHANGED <<dead, made>>
      OBVIOUS
    <3> QED BY <3>1
  <2>3. fault' \in {"none", "use_after_free", "double_free"}
    OBVIOUS
  <2>4. serving' \in [Threads -> 1..made \cup {NULL}]
    OBVIOUS
  <2>5. launched' \in [Threads -> 1..made \cup {NULL}]
    OBVIOUS
  <2> QED BY <2>1, <2>2, <2>3, <2>4, <2>5 DEF Makers, Pcs
<1>2. Makes'
  OBVIOUS
<1>3. Begins'
  OBVIOUS
<1>4. Serves'
  OBVIOUS
<1>5. Launches'
  OBVIOUS
<1>6. Seeks'
  OBVIOUS
<1>7. ServingIsOwn'
  OBVIOUS
<1>8. EveryInstanceHasAnEnd'
  <2> DEFINE w == launched[t]
  <2>1. w \notin used' /\ used' \subseteq used
    OBVIOUS
  <2>2. \A v \in Threads : armed'[v] = armed[v] /\ arg'[v] = arg[v]
    OBVIOUS
  <2>3. \A v \in Threads : Making(v) => Making(v)'
    OBVIOUS
  <2>4. \A v \in Threads \ {t} : launched'[v] = launched[v] /\ serving'[v] = serving[v]
    OBVIOUS
  <2> SUFFICES ASSUME NEW x \in used'
               PROVE  \E v \in Threads :
                        \/ arg'[v] = x /\ Making(v)'
                        \/ launched'[v] = x /\ serving'[v] = x
                        \/ armed'[v] = x
    BY DEF EveryInstanceHasAnEnd
  <2>5. PICK v \in Threads : \/ arg[v] = x /\ Making(v)
                             \/ launched[v] = x /\ serving[v] = x
                             \/ armed[v] = x
    BY <2>1 DEF EveryInstanceHasAnEnd
  <2>6. x # w
    BY <2>1
  <2>7. CASE launched[v] = x /\ serving[v] = x
    BY <2>4, <2>6, <2>7
  <2>8. CASE (arg[v] = x /\ Making(v)) \/ armed[v] = x
    BY <2>2, <2>3, <2>8
  <2> QED BY <2>5, <2>7, <2>8
<1>9. NoAbort' /\ RefusalsLeaveNothing'
  <2>1. CASE serving[t] # NULL
    <3>1. launched[t] \in dead
      <4>1. launched[t] # NULL /\ sched[t] = "none" /\ armed[t] = NULL
        OBVIOUS
      <4>2. CASE serving[t] = launched[t]
        BY <2>1, <4>1, <4>2
      <4>3. CASE launched[t] \notin used
        BY <4>1, <4>3
      <4> QED BY <4>1, <4>2, <4>3
    <3>2. pc'[t] # "aborted"
      BY <2>1, <3>1
    <3>3. RefusalsLeaveNothing'
      BY <2>1, <3>1, <3>2
    <3> QED BY <3>2, <3>3
  <2>2. CASE serving[t] = NULL
    BY <2>2
  <2> QED BY <2>1, <2>2
<1> QED BY <1>1, <1>2, <1>3, <1>4, <1>5, <1>6, <1>7, <1>8, <1>9

\* A dismissed worker is freed; its scheduler goes on.
LEMMA DismissInv ==
  ASSUME IInv, NEW t \in Threads, NEW w \in Workers, Dismiss(t, w)
  PROVE  IInv'
<1> USE CreationAssumption
    DEF Workers, Goto, Guest, Making, Dismiss, Die, Current, ServeNobody, Unallocate,
        IInv, Domains, Makes, Begins, Serves, Launches, Seeks, NoAbort,
        RefusalsLeaveNothing, ServingIsOwn, Refused, Stray, instances, thread, scheduler
<1>1. Domains'
  <2>1. pc' \in [Threads -> Pcs]
    BY DEF Pcs
  <2>2. used' \subseteq 1..made' /\ dead' \subseteq 1..made'
    <3>1. w \in 1..made /\ used' \subseteq used /\ dead' = dead \cup {w} /\ made' = made
      OBVIOUS
    <3>2. used \subseteq 1..made /\ dead \subseteq 1..made
      OBVIOUS
    <3> HIDE DEF IInv, Dismiss, Die, Domains
    <3> QED BY <3>1, <3>2
  <2>3. fault' \in {"none", "use_after_free", "double_free"}
    OBVIOUS
  <2>4. armed' \in [Threads -> 1..made \cup {NULL}]
    OBVIOUS
  <2> QED BY <2>1, <2>2, <2>3, <2>4 DEF Makers, Pcs
<1>2. Makes'
  OBVIOUS
<1>3. Begins'
  OBVIOUS
<1>4. Serves'
  OBVIOUS
<1>5. Launches'
  OBVIOUS
<1>6. Seeks'
  OBVIOUS
<1>7. ServingIsOwn'
  OBVIOUS
<1>8. EveryInstanceHasAnEnd'
  BY DEF EveryInstanceHasAnEnd
<1>9. NoAbort' /\ RefusalsLeaveNothing'
  OBVIOUS
<1> QED BY <1>1, <1>2, <1>3, <1>4, <1>5, <1>6, <1>7, <1>8, <1>9

\* A destroyed worker is left, dead, to its launcher.
LEMMA DestroyInv ==
  ASSUME IInv, NEW t \in Threads, NEW w \in Workers, Destroy(t, w)
  PROVE  IInv'
<1> USE CreationAssumption
    DEF Workers, Goto, Guest, Making, Destroy, Die, Current,
        IInv, Domains, Makes, Begins, Serves, Launches, Seeks, NoAbort,
        RefusalsLeaveNothing, ServingIsOwn, Refused, Stray, instances, thread, scheduler
<1>1. Domains'
  <2>1. pc' \in [Threads -> Pcs]
    BY DEF Pcs
  <2>2. used' \subseteq 1..made' /\ dead' \subseteq 1..made'
    <3>1. w \in 1..made /\ used' \subseteq used /\ dead' = dead \cup {w} /\ made' = made
      OBVIOUS
    <3>2. used \subseteq 1..made /\ dead \subseteq 1..made
      OBVIOUS
    <3> HIDE DEF IInv, Destroy, Die, Domains
    <3> QED BY <3>1, <3>2
  <2>3. fault' \in {"none", "use_after_free", "double_free"}
    OBVIOUS
  <2>4. armed' \in [Threads -> 1..made \cup {NULL}]
    OBVIOUS
  <2> QED BY <2>1, <2>2, <2>3, <2>4 DEF Makers, Pcs
<1>2. Makes'
  OBVIOUS
<1>3. Begins'
  OBVIOUS
<1>4. Serves'
  OBVIOUS
<1>5. Launches'
  OBVIOUS
<1>6. Seeks'
  OBVIOUS
<1>7. ServingIsOwn'
  OBVIOUS
<1>8. EveryInstanceHasAnEnd'
  BY DEF EveryInstanceHasAnEnd
<1>9. NoAbort' /\ RefusalsLeaveNothing'
  OBVIOUS
<1> QED BY <1>1, <1>2, <1>3, <1>4, <1>5, <1>6, <1>7, <1>8, <1>9

\* A destroyed guest is freed.
LEMMA DestroyGuestInv ==
  ASSUME IInv, NEW t \in Threads, NEW w \in Workers, DestroyGuest(t, w)
  PROVE  IInv'
<1> USE CreationAssumption
    DEF Workers, Goto, Guest, Making, DestroyGuest, Die, Current, ServeNobody, Unallocate,
        IInv, Domains, Makes, Begins, Serves, Launches, Seeks, NoAbort,
        RefusalsLeaveNothing, ServingIsOwn, Refused, Stray, instances, thread, scheduler
<1>1. Domains'
  <2>1. pc' \in [Threads -> Pcs]
    BY DEF Pcs
  <2>2. used' \subseteq 1..made' /\ dead' \subseteq 1..made'
    <3>1. w \in 1..made /\ used' \subseteq used /\ dead' = dead \cup {w} /\ made' = made
      OBVIOUS
    <3>2. used \subseteq 1..made /\ dead \subseteq 1..made
      OBVIOUS
    <3> HIDE DEF IInv, DestroyGuest, Die, Domains
    <3> QED BY <3>1, <3>2
  <2>3. fault' \in {"none", "use_after_free", "double_free"}
    OBVIOUS
  <2>4. armed' \in [Threads -> 1..made \cup {NULL}]
    OBVIOUS
  <2> QED BY <2>1, <2>2, <2>3, <2>4 DEF Makers, Pcs
<1>2. Makes'
  OBVIOUS
<1>3. Begins'
  OBVIOUS
<1>4. Serves'
  OBVIOUS
<1>5. Launches'
  OBVIOUS
<1>6. Seeks'
  OBVIOUS
<1>7. ServingIsOwn'
  OBVIOUS
<1>8. EveryInstanceHasAnEnd'
  BY DEF EveryInstanceHasAnEnd
<1>9. NoAbort' /\ RefusalsLeaveNothing'
  OBVIOUS
<1> QED BY <1>1, <1>2, <1>3, <1>4, <1>5, <1>6, <1>7, <1>8, <1>9

\* A scheduler returns once no worker has handlers in it.
LEMMA SchedulerReturnsInv ==
  ASSUME IInv, NEW t \in Threads, SchedulerReturns(t)
  PROVE  IInv'
<1> USE CreationAssumption
    DEF Workers, Goto, Guest, Making, SchedulerReturns,
        IInv, Domains, Makes, Begins, Serves, Launches, Seeks, NoAbort,
        RefusalsLeaveNothing, ServingIsOwn, Refused, Stray, instances, thread, scheduler
<1>1. Domains'
  BY DEF Pcs, Makers
<1>2. Makes'
  OBVIOUS
<1>3. Begins'
  OBVIOUS
<1>4. Serves'
  OBVIOUS
<1>5. Launches'
  OBVIOUS
<1>6. Seeks'
  OBVIOUS
<1>7. ServingIsOwn'
  OBVIOUS
<1>8. EveryInstanceHasAnEnd'
  BY DEF EveryInstanceHasAnEnd
<1>9. NoAbort' /\ RefusalsLeaveNothing'
  OBVIOUS
<1> QED BY <1>1, <1>2, <1>3, <1>4, <1>5, <1>6, <1>7, <1>8, <1>9

\* The application disturbs nothing.
LEMMA ApplicationInv ==
  ASSUME IInv, NEW t \in Threads, ReadOwnData(t) \/ RunScheduler(t) \/ MasterReturns(t)
  PROVE  IInv'
<1> USE CreationAssumption
    DEF Workers, Goto, Guest, Making, ReadOwnData, RunScheduler, MasterReturns,
        IsServing, Touch, IInv, Domains, Makes, Begins, Serves, Launches, Seeks,
        NoAbort, RefusalsLeaveNothing, ServingIsOwn, Refused, Stray, instances, thread, scheduler
<1>1. Domains'
  <2>1. CASE ReadOwnData(t)
    BY <2>1 DEF Pcs, Makers
  <2>2. CASE RunScheduler(t)
    BY <2>2 DEF Pcs, Makers
  <2>3. CASE MasterReturns(t)
    BY <2>3 DEF Pcs, Makers
  <2> QED BY <2>1, <2>2, <2>3
<1>2. Makes'
  OBVIOUS
<1>3. Begins' /\ Serves' /\ Launches' /\ ServingIsOwn'
  <2>1. CASE ReadOwnData(t)
    BY <2>1
  <2>2. CASE RunScheduler(t)
    BY <2>2
  <2>3. CASE MasterReturns(t)
    BY <2>3
  <2> QED BY <2>1, <2>2, <2>3
<1>4. EveryInstanceHasAnEnd'
  <2>1. UNCHANGED <<used, arg, maker, launched, serving, armed>>
    OBVIOUS
  <2>2. \A v \in Threads : Making(v) => Making(v)'
    OBVIOUS
  <2> QED BY <2>1, <2>2 DEF EveryInstanceHasAnEnd
<1>5. NoAbort' /\ RefusalsLeaveNothing' /\ Seeks'
  <2>1. /\ UNCHANGED <<made, used, dead, maker, saved, arg, serving, armed, launched>>
        /\ \A v \in Threads : pc'[v] # pc[v] => pc'[v] = "gone"
    OBVIOUS
  <2> QED BY <2>1
<1> QED BY <1>1, <1>2, <1>3, <1>4, <1>5

\* Before the first worker there is nothing to go wrong.
LEMMA InitInv == Init => IInv
<1> SUFFICES ASSUME Init PROVE IInv
  OBVIOUS
<1> USE CreationAssumption DEF Init, Workers
<1>1. Domains
  BY DEF Domains, Pcs, Makers
<1>2. \A t \in Threads : pc[t] \in {"code", "gone"}
  OBVIOUS
<1>3. Makes /\ Begins /\ Serves /\ Launches /\ Seeks
  BY <1>2 DEF Makes, Begins, Serves, Launches, Seeks, Making
<1>4. ServingIsOwn /\ EveryInstanceHasAnEnd /\ NoAbort /\ RefusalsLeaveNothing
  BY <1>2 DEF ServingIsOwn, EveryInstanceHasAnEnd, NoAbort, RefusalsLeaveNothing, Refused
<1> QED BY <1>1, <1>3, <1>4 DEF IInv

\* The invariant is inductive.
LEMMA StepInv ==
  ASSUME IInv, [Next]_vars
  PROVE  IInv'
<1>1. CASE UNCHANGED vars
  BY <1>1 DEF vars, instances, thread, scheduler, IInv, Domains, Makes, Making, Guest,
     Begins, Serves, Launches, Seeks, ServingIsOwn, EveryInstanceHasAnEnd, NoAbort,
     RefusalsLeaveNothing, Refused, Stray
<1>2. ASSUME NEW t \in Threads, NEW w \in Workers,
             Dismiss(t, w) \/ Destroy(t, w) \/ DestroyGuest(t, w)
      PROVE  IInv'
  BY <1>2, DismissInv, DestroyInv, DestroyGuestInv
<1>3. CASE Next
  BY <1>2, <1>3, AllocateInv, NewThreadInv, NoThreadInv, InstallInv, SaveInv, LaunchInv,
     SettleInv, EnterMasterInv, LauncherEndsInv, SchedulerReturnsInv, ApplicationInv
  DEF Next
<1> QED BY <1>1, <1>3

\* Every variable keeps its domain, however many threads create workers.
THEOREM TypeCorrect == Spec => []TypeOK
<1>1. IInv => TypeOK
  BY CreationAssumption DEF IInv, Domains, TypeOK, Pcs, Workers
<1>2. IInv /\ [Next]_vars => IInv'
  BY StepInv
<1> QED BY <1>1, <1>2, InitInv, PTL DEF Spec

\* `currently_serving_as' names a worker in memory, or a guest that was refused a
\* thread, the same for no two threads; this is what makes
\* `currently_serving_as == worker' mean "on its thread".
THEOREM ServingIsOwnAlways == Spec => []ServingIsOwn
<1>1. IInv => ServingIsOwn
  BY DEF IInv
<1>2. IInv /\ [Next]_vars => IInv'
  BY StepInv
<1> QED BY <1>1, <1>2, InitInv, PTL DEF Spec

\* No instance is leaked, whichever function made it and however it failed.
THEOREM NothingIsLeaked == Spec => []EveryInstanceHasAnEnd
<1>1. IInv => EveryInstanceHasAnEnd
  BY DEF IInv
<1>2. IInv /\ [Next]_vars => IInv'
  BY StepInv
<1> QED BY <1>1, <1>2, InitInv, PTL DEF Spec

\* scheduler_launcher() never has to exit the process: the worker it would
\* dispose of is dead, whatever has been served in its scheduler since.
THEOREM LaunchersNeverAbort == Spec => []NoAbort
<1>1. IInv => NoAbort
  BY DEF IInv
<1>2. IInv /\ [Next]_vars => IInv'
  BY StepInv
<1> QED BY <1>1, <1>2, InitInv, PTL DEF Spec

\* When scheduler_launcher() returns, its worker is out of memory and the thread
\* free to serve another one, unless a refused adoption has made it stray.
THEOREM LauncherOutlivesWorker == Spec => ReturnMeansGone
<1> DEFINE Gone(t) == launched[t] # NULL /\ launched'[t] = NULL =>
                        launched[t] \notin used' /\ (serving'[t] = NULL \/ Stray(t))
<1>1. ASSUME IInv, [Next]_vars, NEW t \in Threads, launched[t] # NULL, launched'[t] = NULL
      PROVE  LauncherEnds(t)
  <2> USE DEF IInv, Domains
  <2>1. UNCHANGED launched \/ \E u \in Threads : LauncherEnds(u) \/ Launch(u)
    BY <1>1 DEF Next, vars, scheduler, Allocate, NewThread, NoThread, Install, Save,
       Settle, EnterMaster, Dismiss, Destroy, DestroyGuest, Die, SchedulerReturns,
       ReadOwnData, RunScheduler, MasterReturns
  <2>2. PICK u \in Threads : LauncherEnds(u) \/ Launch(u)
    BY <1>1, <2>1
  <2>3. CASE Launch(u)
    <3>1. launched' = [launched EXCEPT ![u] = arg[u]]
      BY <2>3 DEF Launch
    <3>2. pc[u] = "launch"
      BY <2>3 DEF Launch, Goto
    <3>3. arg[u] # NULL
      BY <1>1, <3>2
    <3> QED BY <1>1, <3>1, <3>3
  <2>4. CASE LauncherEnds(u)
    <3>1. launched' = [launched EXCEPT ![u] = NULL]
      BY <2>4 DEF LauncherEnds
    <3> QED BY <1>1, <2>4, <3>1
  <2> QED BY <2>2, <2>3, <2>4
<1>2. ASSUME IInv, NEW t \in Threads, LauncherEnds(t)
      PROVE  launched[t] \notin used' /\ (serving'[t] = NULL \/ Stray(t))
  BY <1>2 DEF LauncherEnds, Dismissed, IsServing, ServeNobody, Unallocate, Goto, IInv,
     Domains, Serves, Launches, ServingIsOwn
<1>3. IInv /\ [Next]_vars => \A t \in Threads : Gone(t)
  BY <1>1, <1>2
<1>4. IInv /\ [Next]_vars => [\A t \in Threads : Gone(t)]_vars
  BY <1>3
<1>5. IInv /\ [Next]_vars => IInv'
  BY StepInv
<1> QED BY <1>4, <1>5, InitInv, PTL DEF Spec, ReturnMeansGone

\* Of a creation that failed for want of a thread nothing is found again, but for
\* the pointer to a guest that adopt_running_scheduler() leaves behind.
THEOREM RefusedAreForgotten == Spec => []RefusalsLeaveNothing
<1>1. IInv => RefusalsLeaveNothing
  BY DEF IInv
<1>2. IInv /\ [Next]_vars => IInv'
  BY StepInv
<1> QED BY <1>1, <1>2, InitInv, PTL DEF Spec

\* A step of the library itself finds in memory what it reads or frees.
LEMMA KeepsFault ==
  ASSUME IInv, NEW t \in Threads,
         \/ NoThread(t) \/ Install(t) \/ Settle(t)
         \/ \E w \in Workers : Dismiss(t, w) \/ Destroy(t, w) \/ DestroyGuest(t, w)
  PROVE  UNCHANGED fault
<1> USE CreationAssumption DEF IInv, Domains, Workers, Goto
<1>1. CASE NoThread(t)
  BY <1>1 DEF NoThread, Unallocate, Makes, Making
<1>2. CASE Install(t)
  BY <1>2 DEF Install, Touch, Makes, Making, Guest
<1>3. ASSUME armed[t] # NULL
      PROVE  armed[t] \in used
  BY <1>3 DEF ServingIsOwn
<1>4. ASSUME sched[t] = "starting"
      PROVE  launched[t] \in used
  BY <1>4 DEF ServingIsOwn, Launches, Stray, Guest
<1>5. CASE Settle(t)
  BY <1>4, <1>5 DEF Settle, Touch
<1>6. ASSUME NEW w \in Workers, Dismiss(t, w) \/ Destroy(t, w) \/ DestroyGuest(t, w)
      PROVE  UNCHANGED fault
  <2>1. w \in used
    BY <1>3, <1>4, <1>6 DEF Dismiss, Destroy, DestroyGuest, Die, Current
  <2> QED BY <1>6, <2>1 DEF Dismiss, Destroy, DestroyGuest, Unallocate
<1> QED BY <1>1, <1>2, <1>5, <1>6

\* A master may come too late for its worker, but not find a refused one.
LEMMA MasterTooLate ==
  ASSUME IInv, NEW t \in Threads, EnterMaster(t), fault' # fault
  PROVE  fault' = "use_after_free" /\ arg[t] \in dead
<1>1. fault' = "use_after_free" /\ arg[t] \notin used /\ pc[t] = "master"
  BY DEF EnterMaster, Touch, Goto
<1>2. arg[t] \in 1..made /\ arg[t] \in Workers
  BY <1>1, CreationAssumption DEF IInv, Domains, Workers
<1>3. ~Refused(arg[t])
  BY <1>1, <1>2 DEF IInv, RefusalsLeaveNothing
<1> QED BY <1>1, <1>2, <1>3 DEF Refused

\* A launcher finds its worker, or nothing of it in currently_serving_as, unless
\* its thread is stray.
LEMMA LauncherIsStray ==
  ASSUME IInv, NEW t \in Threads, LauncherEnds(t), fault' # fault
  PROVE  fault' = "use_after_free" /\ Stray(t)
<1> USE DEF IInv, Domains
<1>1. pc[t] = "launched" /\ launched[t] # NULL /\ sched[t] = "none"
  BY DEF LauncherEnds, Goto, Launches
<1>2. armed[t] = NULL
  BY <1>1 DEF Serves
<1>3. serving[t] # NULL /\ launched[t] \notin used /\ fault' = "use_after_free"
  BY DEF LauncherEnds, Dismissed, IsServing, Unallocate, Touch
<1>4. Stray(t)
  BY <1>1, <1>2, <1>3 DEF Serves, ServingIsOwn
<1> QED BY <1>3, <1>4

\* Nobody frees an instance twice.  Freed memory is used only by a master that
\* begins after the end of its worker, and by a thread to which a refused
\* adoption has left the pointer to a freed guest.
THEOREM FreedMemoryIsUsedByTwo == Spec => UsesAfterFree
<1> DEFINE Culprit == /\ fault' = "use_after_free"
                      /\ \E t \in Threads :
                           \/ EnterMaster(t) /\ arg[t] \in dead
                           \/ Stray(t) /\ (ReadOwnData(t) \/ LauncherEnds(t))
<1>1. ASSUME IInv, [Next]_vars, fault' # fault
      PROVE  Culprit
  <2>1. PICK t \in Threads :
          \/ NoThread(t) \/ Install(t) \/ Settle(t)
          \/ \E w \in Workers : Dismiss(t, w) \/ Destroy(t, w) \/ DestroyGuest(t, w)
          \/ EnterMaster(t) \/ LauncherEnds(t) \/ ReadOwnData(t)
    BY <1>1 DEF Next, vars, Allocate, NewThread, Save, Launch, SchedulerReturns,
       RunScheduler, MasterReturns
  <2>2. CASE ReadOwnData(t)
    <3>1. fault' = "use_after_free" /\ serving[t] # NULL /\ serving[t] \notin used
      BY <1>1, <2>2 DEF ReadOwnData, IsServing, Touch
    <3>2. Stray(t)
      BY <1>1, <3>1 DEF IInv, ServingIsOwn
    <3> QED BY <2>2, <3>1, <3>2
  <2> QED BY <1>1, <2>1, <2>2, KeepsFault, MasterTooLate, LauncherIsStray
<1>2. IInv /\ [Next]_vars => [fault' # fault => Culprit]_vars
  BY <1>1
<1>3. IInv /\ [Next]_vars => IInv'
  BY StepInv
<1> QED BY <1>2, <1>3, InitInv, PTL DEF Spec, UsesAfterFree
=============================================================================
