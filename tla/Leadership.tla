----------------------------- MODULE Leadership -----------------------------
(***************************************************************************)
(* What an election promises, whatever it is built on: nobody takes office *)
(* while it is held, and who lives stays in office.                        *)
(***************************************************************************)
CONSTANT Nodes

VARIABLES
  inOffice,  \* inOffice[n]: n takes itself for the leader
  alive      \* alive[n]: n runs

vars == <<inOffice, alive>>

Init ==
  /\ inOffice = [n \in Nodes |-> FALSE]
  /\ alive = [n \in Nodes |-> TRUE]

TakeOffice(n) ==
  /\ alive[n] /\ \A k \in Nodes : ~inOffice[k]
  /\ inOffice' = [inOffice EXCEPT ![n] = TRUE]
  /\ UNCHANGED alive

Die(n) ==
  /\ alive[n]
  /\ alive' = [alive EXCEPT ![n] = FALSE]
  /\ inOffice' = [inOffice EXCEPT ![n] = FALSE]

Return(n) ==
  /\ ~alive[n]
  /\ alive' = [alive EXCEPT ![n] = TRUE]
  /\ UNCHANGED inOffice

Next == \E n \in Nodes : TakeOffice(n) \/ Die(n) \/ Return(n)

Spec == Init /\ [][Next]_vars
=============================================================================
