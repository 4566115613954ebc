-------------------------- MODULE MCOffloadDaemon --------------------------
(***************************************************************************)
(* Two ranks, each its own process with one tensor of its own.             *)
(***************************************************************************)
EXTENDS OffloadDaemon, TLC

CONSTANTS r1, r2, t1, t2

OwnTensors == (t1 :> r1) @@ (t2 :> r2)
OwnProcesses == [r \in Rank |-> r]

(* Exchanging the ranks together with their tensors changes nothing.       *)
SwapRanks == {(r1 :> r2) @@ (r2 :> r1) @@ (t1 :> t2) @@ (t2 :> t1)}
============================================================================
