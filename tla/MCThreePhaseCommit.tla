------------------------ MODULE MCThreePhaseCommit ------------------------
(* Constants of the model-checking runs of ThreePhaseCommit. *)
EXTENDS ThreePhaseCommit

CONSTANTS p1, p2, p3

(* The deployment of docker-compose.yml, and one participant fewer. *)
TwoUrls == <<p1, p2>>
ThreeUrls == <<p1, p2, p3>>

(* PARTICIPANT_PEERS names all the others. *)
OtherPeers == [p \in Participants |-> Participants \ {p}]
=============================================================================
