--------------------------- MODULE LeaderElection ---------------------------
(***************************************************************************)
(* The election of the coordinator that executes transactions: the etcd    *)
(* key /3pc/leader with its lease, and in each coordinator process the     *)
(* monitor thread and the thread that renews the lease, which both run     *)
(* try_become_leader and share the flag is_leader and the field _lease.    *)
(*                                                                         *)
(* A lease matters only while the key hangs on it, so the leases are one   *)
(* bit: whether the _lease of the key's holder is still the key's lease.   *)
(* Time is in the guard of Expire: a lease that is renewed does not expire.*)
(***************************************************************************)
EXTENDS Naturals

CONSTANTS
  Nodes,       \* the coordinator processes
  Nobody,      \* not a node: the key does not exist
  Faults,      \* the faults that may happen, a subset of AllFaults
  MaxCrashes,  \* bound on the number of crashes
  MaxErrors    \* bound on the number of failing etcd calls

(* "crash": a coordinator stops; it is restarted once its key has expired. *)
(* "quickRestart": it is restarted before.                                 *)
(* "etcd": a call to etcd raises, with or without having taken effect.     *)
(* "startup": etcd cannot be reached when a coordinator starts.            *)
(* "late": a renewal is late and the lease expires.                        *)
AllFaults == {"crash", "quickRestart", "etcd", "startup", "late"}

ASSUME NobodyAssumption == Nobody \notin Nodes
ASSUME FaultsAssumption == Faults \subseteq AllFaults
ASSUME BoundsAssumption == MaxCrashes \in Nat /\ MaxErrors \in Nat

Threads == {"monitor", "heartbeat"}

(* Inside try_become_leader: entered, lease granted, transaction decided,  *)
(* heartbeat to be started.                                                *)
Electing == {"elect", "granted", "won", "refused", "failed", "start"}

VARIABLES
  holder,     \* the value of the key
  current,    \* _lease of the holder's process is the lease of the key
  up,         \* up[n]: process n runs
  connected,  \* connected[n]: _etcd_available, set once when n starts
  isLeader,   \* isLeader[n]: the flag execute_transaction looks at
  pc,         \* pc[n][t]: where thread t of n is
  crashes, errors

key == <<holder, current>>
process == <<up, connected>>
vars == <<key, process, isLeader, pc, crashes, errors>>

Goto(n, t, l) == pc' = [pc EXCEPT ![n][t] = l]

(* The monitor goes on; the heartbeat thread has left its loop for good.   *)
Leave(n, t) == Goto(n, t, IF t = "monitor" THEN "sleep" ELSE "ended")

EtcdRaises ==
  /\ "etcd" \in Faults /\ errors < MaxErrors
  /\ errors' = errors + 1

-----------------------------------------------------------------------------
(* try_become_leader *)

Unavailable(n, t) ==
  /\ pc[n][t] = "elect" /\ ~connected[n]
  /\ isLeader' = [isLeader EXCEPT ![n] = FALSE]
  /\ Leave(n, t)
  /\ UNCHANGED <<key, process, crashes, errors>>

(* The new lease takes the place of the old one before it is known whether *)
(* the election is won.                                                    *)
GrantLease(n, t) ==
  /\ pc[n][t] = "elect" /\ connected[n]
  /\ current' = (current /\ holder # n)
  /\ Goto(n, t, "granted")
  /\ UNCHANGED <<holder, process, isLeader, crashes, errors>>

GrantFails(n, t) ==
  /\ pc[n][t] = "elect" /\ connected[n] /\ EtcdRaises
  /\ Goto(n, t, "failed")
  /\ UNCHANGED <<key, process, isLeader, crashes>>

Put(n) == holder' = n /\ current' = TRUE

(* Mutant of PutKey: the key is written without comparing. *)
PutKeyAlways(n, t) ==
  /\ pc[n][t] = "granted"
  /\ Put(n) /\ Goto(n, t, "won")
  /\ UNCHANGED <<process, isLeader, crashes, errors>>

(* The transaction: the key is written only if it does not exist. *)
PutKey(n, t) ==
  /\ pc[n][t] = "granted"
  /\ IF holder = Nobody
       THEN Put(n) /\ Goto(n, t, "won")
       ELSE Goto(n, t, "refused") /\ UNCHANGED key
  /\ UNCHANGED <<process, isLeader, crashes, errors>>

(* The transaction raises; etcd may have carried it out all the same. *)
PutFails(n, t) ==
  /\ pc[n][t] = "granted" /\ EtcdRaises
  /\ \/ holder = Nobody /\ Put(n)
     \/ UNCHANGED key
  /\ Goto(n, t, "failed")
  /\ UNCHANGED <<process, isLeader, crashes>>

(* Mutant of SetFlag: a lost election leaves the flag as it is. *)
SetFlagOnly(n, t) ==
  /\ pc[n][t] \in {"won", "refused", "failed"}
  /\ isLeader' = [isLeader EXCEPT ![n] = @ \/ pc[n][t] = "won"]
  /\ IF pc[n][t] = "won" THEN Goto(n, t, "start") ELSE Leave(n, t)
  /\ UNCHANGED <<key, process, crashes, errors>>

SetFlag(n, t) ==
  /\ pc[n][t] \in {"won", "refused", "failed"}
  /\ isLeader' = [isLeader EXCEPT ![n] = (pc[n][t] = "won")]
  /\ IF pc[n][t] = "won" THEN Goto(n, t, "start") ELSE Leave(n, t)
  /\ UNCHANGED <<key, process, crashes, errors>>

(* Mutant of StartHeartbeat: the monitor runs the loop itself. *)
StartHeartbeatEnds(n, t) ==
  /\ pc[n][t] = "start"
  /\ Goto(n, t, "loop")
  /\ UNCHANGED <<key, process, isLeader, crashes, errors>>

(* A heartbeat thread is started unless there has been one, alive or not.  *)
StartHeartbeat(n, t) ==
  /\ pc[n][t] = "start"
  /\ IF pc[n]["heartbeat"] = "none"
       THEN pc' = [pc EXCEPT ![n] = [monitor |-> "sleep", heartbeat |-> "loop"]]
       ELSE Leave(n, t)
  /\ UNCHANGED <<key, process, isLeader, crashes, errors>>

TryBecomeLeader(n, t) ==
  \/ Unavailable(n, t) \/ GrantLease(n, t) \/ PutKey(n, t)
  \/ SetFlag(n, t) \/ StartHeartbeat(n, t)

-----------------------------------------------------------------------------
(* The monitor thread *)

(* Mutant of ReadLeader: the node runs for election whoever leads. *)
ReadLeaderElects(n) ==
  /\ pc[n]["monitor"] = "sleep"
  /\ Goto(n, "monitor", "elect")
  /\ UNCHANGED <<key, process, isLeader, crashes, errors>>

(* Mutant of ReadLeader: who is not the leader stands by. *)
ReadLeaderStandsBy(n) ==
  /\ pc[n]["monitor"] = "sleep"
  /\ IF connected[n] /\ holder = n
       THEN Goto(n, "monitor", "mine") /\ UNCHANGED isLeader
       ELSE isLeader' = [isLeader EXCEPT ![n] = FALSE] /\ UNCHANGED pc
  /\ UNCHANGED <<key, process, crashes, errors>>

(* get_current_leader; "unknown" and every other node call for an election.*)
ReadLeader(n) ==
  /\ pc[n]["monitor"] = "sleep"
  /\ Goto(n, "monitor", IF connected[n] /\ holder = n THEN "mine" ELSE "elect")
  /\ UNCHANGED <<key, process, isLeader, crashes, errors>>

(* The exception becomes "unknown". *)
ReadFails(n) ==
  /\ pc[n]["monitor"] = "sleep" /\ connected[n] /\ EtcdRaises
  /\ Goto(n, "monitor", "elect")
  /\ UNCHANGED <<key, process, isLeader, crashes>>

ConfirmLeader(n) ==
  /\ pc[n]["monitor"] = "mine"
  /\ isLeader' = [isLeader EXCEPT ![n] = TRUE]
  /\ Goto(n, "monitor", "sleep")
  /\ UNCHANGED <<key, process, crashes, errors>>

-----------------------------------------------------------------------------
(* The heartbeat thread and the lease *)

RefreshFails(n) ==
  /\ pc[n]["heartbeat"] = "loop" /\ EtcdRaises
  /\ Goto(n, "heartbeat", "lost")
  /\ UNCHANGED <<key, process, isLeader, crashes>>

HandleLeaseLoss(n) ==
  /\ pc[n]["heartbeat"] = "lost"
  /\ isLeader' = [isLeader EXCEPT ![n] = FALSE]
  /\ Goto(n, "heartbeat", "elect")
  /\ UNCHANGED <<key, process, crashes, errors>>

(* The loop refreshes _lease, whichever lease that is by now; a winner is  *)
(* within a moment of starting the loop.                                   *)
Renewed(n) ==
  /\ holder = n /\ current
  /\ pc[n]["heartbeat"] = "loop" \/ \E t \in Threads : pc[n][t] \in {"won", "start"}

(* etcd deletes the key with its lease. *)
Expire ==
  /\ holder # Nobody
  /\ "late" \in Faults \/ ~Renewed(holder)
  /\ holder' = Nobody /\ current' = FALSE
  /\ UNCHANGED <<process, isLeader, pc, crashes, errors>>

-----------------------------------------------------------------------------
(* Processes *)

Crash(n) ==
  /\ "crash" \in Faults /\ up[n] /\ crashes < MaxCrashes
  /\ up' = [up EXCEPT ![n] = FALSE]
  /\ isLeader' = [isLeader EXCEPT ![n] = FALSE]
  /\ current' = (current /\ holder # n)
  /\ pc' = [pc EXCEPT ![n] = [monitor |-> "none", heartbeat |-> "none"]]
  /\ crashes' = crashes + 1
  /\ UNCHANGED <<holder, connected, errors>>

(* The module's first election runs before the monitor starts, as the      *)
(* monitor's first step.                                                   *)
Restart(n) ==
  /\ ~up[n] /\ (holder # n \/ "quickRestart" \in Faults)
  /\ up' = [up EXCEPT ![n] = TRUE]
  /\ \E c \in BOOLEAN :
       /\ c \/ "startup" \in Faults
       /\ connected' = [connected EXCEPT ![n] = c]
  /\ Goto(n, "monitor", "elect")
  /\ UNCHANGED <<key, isLeader, crashes, errors>>

-----------------------------------------------------------------------------
Init ==
  /\ holder = Nobody /\ current = FALSE
  /\ up = [n \in Nodes |-> TRUE]
  /\ connected \in [Nodes -> BOOLEAN]
  /\ (\A n \in Nodes : connected[n]) \/ "startup" \in Faults
  /\ isLeader = [n \in Nodes |-> FALSE]
  /\ pc = [n \in Nodes |-> [monitor |-> "elect", heartbeat |-> "none"]]
  /\ crashes = 0 /\ errors = 0

MonitorStep(n) ==
  ReadLeader(n) \/ ConfirmLeader(n) \/ TryBecomeLeader(n, "monitor")
HeartbeatStep(n) == HandleLeaseLoss(n) \/ TryBecomeLeader(n, "heartbeat")

EtcdError(n) ==
  \/ ReadFails(n) \/ RefreshFails(n)
  \/ \E t \in Threads : GrantFails(n, t) \/ PutFails(n, t)

Next ==
  \/ Expire
  \/ \E n \in Nodes : MonitorStep(n) \/ HeartbeatStep(n) \/ EtcdError(n)
                        \/ Crash(n) \/ Restart(n)

Spec == Init /\ [][Next]_vars

(* Threads run, an unrenewed lease expires, Docker restarts a container.   *)
Fairness ==
  /\ WF_vars(Expire)
  /\ \A n \in Nodes :
       WF_vars(MonitorStep(n)) /\ WF_vars(HeartbeatStep(n)) /\ WF_vars(Restart(n))

FairSpec == Spec /\ Fairness
-----------------------------------------------------------------------------
(* Properties *)

(* Every variable has a value the code can give it. *)
TypeOK ==
  /\ holder \in Nodes \cup {Nobody} /\ current \in BOOLEAN
  /\ up \in [Nodes -> BOOLEAN] /\ connected \in [Nodes -> BOOLEAN]
  /\ isLeader \in [Nodes -> BOOLEAN]
  /\ pc \in [Nodes ->
       [monitor : Electing \cup {"none", "sleep", "mine"},
        heartbeat : Electing \cup {"none", "loop", "lost", "ended"}]]
  /\ crashes \in Nat /\ errors \in Nat

(* Only one coordinator executes transactions at a time                    *)
(* (leader_election.py:3-4): at most one passes the check of               *)
(* execute_transaction.                                                    *)
AtMostOneLeader == \A m, n \in Nodes : isLeader[m] /\ isLeader[n] => m = n

(* A node that takes itself for the leader holds the key and renews its    *)
(* lease (README.md:157): its leadership cannot expire unnoticed.          *)
LeaderRenews == \A n \in Nodes : isLeader[n] => up[n] /\ Renewed(n)

Office == INSTANCE Leadership WITH inOffice <- isLeader, alive <- up

(* Leadership passes from node to node only through the death of a leader: *)
(* no race of elections, expiry and renewal costs a node that runs its     *)
(* flag, or raises a second one (leader_election.py:3-4, README.md:157).   *)
LeadershipSpec == Office!Spec

(* The flag never stays wrong: again and again a node takes itself for the *)
(* leader exactly if the key says so, and forwards its requests otherwise. *)
FlagFollowsKey == \A n \in Nodes : []<>(isLeader[n] <=> holder = n)

(* Leadership is taken again after every crash, failed call and expiry, as *)
(* long as a node could reach etcd when it started (README.md:159-163).    *)
LeaderAgain ==
  []<>((\E n \in Nodes : isLeader[n]) \/ \A n \in Nodes : ~connected[n])
=============================================================================
