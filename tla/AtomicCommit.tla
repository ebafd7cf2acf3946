---------------------------- MODULE AtomicCommit ----------------------------
(***************************************************************************)
(* What a commit protocol promises, whatever its messages: participants    *)
(* vote, and decide one by one.  A participant may commit only when all    *)
(* have voted YES and none has aborted, may abort only when none has       *)
(* committed, and keeps its decision.  A YES is not a promise to commit.   *)
(***************************************************************************)
CONSTANT Participants

VARIABLES
  voted,    \* the participants whose YES has been counted
  outcome   \* outcome[p]: p's decision

vars == <<voted, outcome>>

Init ==
  /\ voted = {}
  /\ outcome = [p \in Participants |-> "undecided"]

Nobody(decision) == \A p \in Participants : outcome[p] # decision

Vote(p) ==
  /\ Nobody("COMMIT")
  /\ voted' = voted \cup {p}
  /\ UNCHANGED outcome

Decide(p, decision) ==
  /\ outcome[p] = "undecided"
  /\ outcome' = [outcome EXCEPT ![p] = decision]
  /\ UNCHANGED voted

Commit(p) == voted = Participants /\ Nobody("ABORT") /\ Decide(p, "COMMIT")
Abort(p) == Nobody("COMMIT") /\ Decide(p, "ABORT")

Next == \E p \in Participants : Vote(p) \/ Commit(p) \/ Abort(p)

Spec == Init /\ [][Next]_vars
=============================================================================
