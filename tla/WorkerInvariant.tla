---------------------------- MODULE WorkerInvariant ----------------------------
(***************************************************************************)
(* Under which use the worker keeps all its promises, and why it does: the *)
(* inductive invariant behind the safety properties of Worker.             *)
(***************************************************************************)
EXTENDS Worker

-----------------------------------------------------------------------------
(***************************************************************************)
(* The use: what the application may call, and from where.  Each condition *)
(* excludes a hazard that some run or some case of the proofs shows.       *)
(***************************************************************************)
\* The callers that may make a destroying call.
MayDestroy ==
  {t \in Threads : ThreadOps[t] \cap DestroyOps # {}}
    \cup {w \in {W} : \E f \in Frames : FrameOps[f] \cap DestroyOps # {}}

\* Two destroying calls do not race: there is one call, or one caller.
OneDestroyer == MaxDestroys = 1 \/ \A c, d \in MayDestroy : c = d

\* The pipe is full only when the last call is made, if ever.
Roomy == MaxCalls <= PipeCapacity + 1

\* on_worker_start may push and does no more, nor does it do anything for a worker
\* that is not to live; on_worker_end does not ping; neither pushes to a zombie;
\* nobody pings a worker that has left its end to attended_shutdown_handler().
Modest ==
  /\ FrameOps["doomed_start"] = {}
  /\ FrameOps["on_start"] \subseteq {"push"}
  /\ "ping" \notin FrameOps["on_end"]
  /\ Roomy \/ "push" \notin FrameOps["on_start"] \cup FrameOps["on_end"]
  /\ \/ \A f \in Frames : "ping" \notin FrameOps[f]
     \/ \A f \in Frames : "asynch" \notin FrameOps[f]

Orderly == OneDestroyer /\ Modest

-----------------------------------------------------------------------------
(***************************************************************************)
(* Where everybody is                                                      *)
(***************************************************************************)
\* A caller is where its call leads; one caller destroys.
Called ==
  /\ \A t \in Threads : op[t] \in ThreadOps[t] \cup {"none"}
  /\ op[W] # "none" => \E f \in Frames : op[W] \in FrameOps[f]
  /\ \A c \in Callers :
       /\ op[c] \in DestroyOps => destroys # 0
       /\ pc[c] = "enter" => op[c] \in Ops /\ entry_gap
       /\ pc[c] = "switch" => op[c] \in Ops \ {"ping"}
       /\ pc[c] \in {"trylock", "store", "plan", "unlock", "self_clear", "self_unlock"}
            => op[c] \in DestroyOps
       /\ pc[c] \in {"wait", "green_join", "join"} => op[c] \in WaitingOps
       /\ pc[c] = "enqueue" => op[c] = "push"
  /\ \A c, d \in Callers : op[c] \in DestroyOps /\ op[d] \in DestroyOps => c = d

CalledFrom == IF bye THEN "on_end" ELSE frame

\* The worker thread makes the calls that the user code it is in may make, and gets
\* no further in one than its place allows.
SelfCalls ==
  /\ pc[W] \in CallPcs =>
       /\ pc[W] \in {"enter", "switch", "trylock", "store", "enqueue", "green"}
       /\ CalledFrom # "none"
       /\ pc[W] \in {"enter", "switch"} => op[W] \in FrameOps[CalledFrom]
  /\ pc[W] \in {"trylock", "store", "self_clear", "self_unlock"} => frame \in {"job", "task"}
  /\ bye => pc[W] \in {"terminate", "enter", "switch", "green"}
  /\ bye => on_end

\* User code runs where there is some to run.
Framed ==
  /\ pc[W] = "frame" => frame # "none"
  /\ frame # "on_end"
  /\ pc[W] \in {"launch", "install", "loop", "main_kill", "unattended", "attended", "clear"}
       => frame = "none"
  /\ frame = "doomed_start" => pc[W] = "frame" /\ destiny # "LONG_LIFE"
  /\ frame = "on_start" =>
       pc[W] \in {"frame", "enter", "switch", "enqueue", "green"} /\ destiny = "LONG_LIFE"
  /\ pc[W] = "main_kill" => destiny # "LONG_LIFE"

(***************************************************************************)
(* The beginning and the end                                               *)
(***************************************************************************)
\* Before the handlers are armed, and after they have been cleared for good.
Beginning ==
  pc[W] \in {"launch", "install", "main_kill"} \/ frame \in {"on_start", "doomed_start"}
Ending == pc[W] \in {"clear", "terminate"} \/ bye \/ state = "DEAD"

\* In between a shutdown task is scheduled, so that the scheduler cannot return;
\* outside it none is, nor a listener, nor a job that could still run.
Phases ==
  /\ pc[W] # "aborted"
  /\ Beginning =>
       /\ ~Ending
       /\ ~listener_schedule /\ shutdown_schedule = "none" /\ ~shutdown_ready
       /\ frame # "on_start" /\ pc[W] # "install" => schedules = 0
       /\ has_returned = 1
       /\ pc[W] # "main_kill" => cont = "none"
  /\ Ending =>
       schedules = 0 /\ ~listener_schedule /\ shutdown_schedule = "none" /\ ~shutdown_ready
  /\ ~Beginning /\ ~Ending => shutdown_schedule # "none" /\ cont = "none"
  /\ pc[W] \in {"unattended", "attended"} => shutdown_schedule = pc[W] /\ ~shutdown_ready

\* Who holds kill_mutex, exactly.
KillOwner ==
  /\ \A t \in Threads : kill_mutex = t <=> pc[t] \in {"store", "plan", "unlock"}
  /\ kill_mutex = W <=>
       \/ pc[W] \in {"store", "self_clear", "self_unlock", "clear", "terminate"}
       \/ bye
       \/ state = "DEAD" /\ ~freed

\* What is left to do once on_worker_end has returned.
Dead ==
  /\ state = "DEAD" =>
       /\ ~bye
       /\ pc[W] \in {"self_green", "dispose", "dispose_wait", "free", "shutdown",
                     "loop", "frame", "exited"}
  /\ pc[W] \in {"dispose", "dispose_wait", "free", "exited"} => state = "DEAD"
  /\ pc[W] \in {"dispose", "dispose_wait", "free", "self_green"} => ~freed
  /\ freed => state = "DEAD"
  /\ serving <=> pc[W] \notin {"launch", "free"} /\ ~freed

(***************************************************************************)
(* The plan                                                                *)
(***************************************************************************)
\* From the condemnation to the plan only the destroyer moves the state.
Plans ==
  /\ \A c \in Callers : pc[c] = "store" => state = "ALIVE" /\ ~MustDie
  /\ \A t \in Threads : pc[t] = "plan" => state \in {"SAYS_BYE", "DYING"} /\ ~MustDie
  /\ \A t \in Threads : pc[t] = "unlock" => MustDie
  /\ \A t \in Threads : pc[t] \in {"green_join", "join", "wait"} => state # "ALIVE"
  /\ \A c \in Callers : pc[c] = "trylock" /\ kill_mutex = NoThread => state = "ALIVE"
  /\ pc[W] \in {"self_clear", "self_unlock"} => state \in {"SAYS_BYE", "DYING"} /\ ~MustDie
  /\ state = "ZOMBIE" \/ pc[W] = "lrh_kill" => MustDie
  /\ MustDie => destroys # 0 /\ op[W] \notin DestroyOps /\ \E t \in Threads : t \in MayDestroy

\* An end left to attended_shutdown_handler() by asynch_destroy: there is nothing
\* else to run, and nobody else who destroys.
Attended ==
  shutdown_schedule = "attended" =>
    /\ schedules = 0 /\ ~listener_schedule
    /\ state \in {"SAYS_BYE", "DYING"} /\ ~MustDie
    /\ kill_mutex \notin Threads
    /\ pc[W] \notin {"lrh", "lrh_kill", "lrh_rearm", "enqueue", "trylock", "store",
                     "self_clear"}
    /\ \E f \in Frames : "asynch" \in FrameOps[f]

\* A plan has a beep in the pipe until the worker thread has read it.
Heard ==
  MustDie /\ beeps = 0 => pc[W] = "lrh_kill" \/ kill_mutex = W \/ freed

(***************************************************************************)
(* Zombies                                                                 *)
(***************************************************************************)
\* The callers that may still write a beep.
Owes(c) ==
  pc[c] \in {"enter", "switch", "trylock", "store", "plan", "enqueue", "zombie_beep"}

Owing == {c \in Callers : Owes(c)}

\* A call writes one beep at most.
BeepsAreCalled == beeps + Cardinality(Owing) <= calls

\* A pipe that has room for all calls but one makes a zombie with the last of them.
Zombies ==
  Roomy /\ (state = "ZOMBIE" \/ \E t \in Threads : pc[t] = "unlock" /\ ret[t] = "SIGNAL")
  => calls = MaxCalls /\ pc[W] \notin {"enter", "switch"}

(***************************************************************************)
(* What the callers may rely on                                            *)
(***************************************************************************)
\* An owned thread is joinable until it is detached, or joined by the destroyer
\* that waits.
ThreadOwner ==
  /\ state = "ALIVE" => worker_thread = "joinable"
  /\ OwnThread /\ worker_thread = "joinable" /\ state # "ALIVE" =>
       \E t \in Threads : pc[t] \in {"plan", "unlock", "green_join", "join"}
                          /\ op[t] \in WaitingOps
  /\ \A t \in Threads :
       /\ pc[t] \in {"green_join", "join"} => OwnThread
       /\ OwnThread /\ pc[t] \in {"plan", "unlock", "green_join", "join"}
          /\ op[t] \in WaitingOps => worker_thread = "joinable"

\* Nobody is inside a call when the instance is freed, but for the calls that the
\* end overtakes before their first step.
Deserted ==
  pc[W] = "free" \/ freed =>
    \A t \in Threads : \/ pc[t] \in {"idle", "join", "enter"}
                       \/ entry_gap /\ pc[t] \in {"switch", "green"}

\* "Double free" is told by the dead only, if there is an on_worker_end.
Told ==
  on_end /\ destiny = "LONG_LIFE" =>
    state # "DYING" /\ \A c \in Callers : ret[c] = "DOUBLE_FREE" => state = "DEAD"

Down == cont = "launcher" \/ pc[W] = "exited"

\* A synchronous destruction is told so by the launcher, or by the exit of the
\* thread: no other way to the disposal is open to the only destroyer.
Answered ==
  /\ has_returned = 0 => IsGuest \/ cont \in {"dismiss", "self_dismiss", "launcher"}
  /\ pc[W] = "dispose" => IsGuest \/ cont \in {"dismiss", "self_dismiss", "launcher"}
  /\ cont = "dismiss" => destiny = "DISMISSAL" \/ future_plans = "DISMISSAL"
  /\ pc[W] = "shutdown" => cont \in {"none", "destroy", "self_destroy"}
  /\ cont = "launcher" => pc[W] \in {"dispose", "dispose_wait", "free", "exited"}
  /\ MaxDestroys = 1 =>
       /\ future_plans = "DISMISSAL" \/ cont = "self_dismiss" =>
            destroys # 0 /\ \A t \in Threads : op[t] \notin WaitingOps
       /\ \A t \in Threads : op[t] \in DestroyOps => pc[t] # "zombie_beep"
       /\ MustDie \/ state = "ZOMBIE" =>
            \A t \in Threads : op[t] \in DestroyOps => pc[t] \notin {"enter", "switch"}
       /\ ~IsGuest /\ destiny # "DISMISSAL" =>
            \A t \in Threads : op[t] \in WaitingOps /\ ret[t] = "SUCCESS"
                               /\ pc[t] \in {"idle", "green"} => Down

\* Only a call that comes too late is undefined.
Defined == ub # "none" => entry_gap /\ ub = "use_after_free"

IInv ==
  /\ Called /\ SelfCalls /\ Framed
  /\ Phases /\ KillOwner /\ Dead
  /\ Plans /\ Attended /\ Heard
  /\ Zombies /\ ThreadOwner /\ Deserted /\ Told /\ Answered /\ Defined

=============================================================================
