------------------------------- MODULE MCWorker -------------------------------
(***************************************************************************)
(* Instances of Worker for TLC: who may call what.  The bounds and the     *)
(* kinds of worker are in the .cfg files.  Those of OneDestroyer, Retry and*)
(* Liveness are Orderly: there IInv of WorkerInvariant can be checked too. *)
(***************************************************************************)
EXTENDS WorkerInvariant, TLC

CONSTANTS t1, t2

MCThreads == {t1, t2}
MCSymmetry == Permutations(MCThreads)

\* What the threads do: one destroys and the other one uses the worker, both
\* do everything, or there is no push to lose.
DestroyAndUse == (t1 :> DestroyOps) @@ (t2 :> {"push", "ping"})
DestroyBoth == [t \in MCThreads |-> Ops]
DestroyOnly == [t \in MCThreads |-> DestroyOps]
DestroyOrUse == (t1 :> DestroyOps \cup {"ping"}) @@ (t2 :> {"push"})

\* What user code on the worker thread does: on_worker_start, on_worker_end, and
\* the rest.
InFrames(on_start, goodbye, later) ==
  [f \in Frames |-> CASE f = "on_start" -> on_start
                      [] f = "doomed_start" -> {}
                      [] f = "on_end" -> goodbye
                      [] OTHER -> later]

NoCalls == InFrames({}, {}, {})
AllButPing == InFrames({"push"}, Ops \ {"ping"}, Ops \ {"ping"})
AllButAsynch == InFrames({}, {}, Ops \ {"asynch"})
DestroyAndPush == InFrames({}, {}, Ops \ {"ping"})
PushAndPing == InFrames({}, {}, {"push", "ping"})
=============================================================================
