----------------------------- MODULE MCSupervisor -----------------------------
(* Every worker on a cpu of its own. *)
EXTENDS Supervisor

OwnCpu == [i \in 0..(NumWorkers - 1) |-> i]
=============================================================================
