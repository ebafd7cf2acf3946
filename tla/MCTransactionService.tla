------------------------ MODULE MCTransactionService ------------------------
(* Constants of the model-checking runs of TransactionService. *)
EXTENDS TransactionService, TLC

CONSTANTS c1, c2, c3, r1, r2

(* Coordinators run the same code, and so do requests; used where no       *)
(* liveness is checked.                                                    *)
AnyOrder ==
  {f @@ g : f \in Permutations(Nodes), g \in Permutations(Requests)}
=============================================================================
