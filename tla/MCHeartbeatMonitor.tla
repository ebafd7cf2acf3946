------------------------- MODULE MCHeartbeatMonitor -------------------------
(* Constants of the model-checking runs of HeartbeatMonitor. *)
EXTENDS HeartbeatMonitor

CONSTANTS c1, me, other1, other2, t1, t2

(* One coordinator, which clients may ask for two transactions. *)
OneOwner == {<<c1, t1>>, <<c1, t2>>}
=============================================================================
