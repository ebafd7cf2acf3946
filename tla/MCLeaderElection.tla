-------------------------- MODULE MCLeaderElection --------------------------
(* Constants of the model-checking runs of LeaderElection. *)
EXTENDS LeaderElection, TLC

CONSTANTS c1, c2, c3

(* The coordinators run the same code and are nowhere compared but for     *)
(* equality; used where no liveness is checked.                            *)
AnyOrder == Permutations(Nodes)
=============================================================================
