----------------------------- MODULE MCScheduler -----------------------------
(* Two queues with a buffer on each. *)
EXTENDS Scheduler
MCHome == "x" :> 0 @@ "y" :> 1
=============================================================================
