------------------------ MODULE LeaderElectionProofs ------------------------
(* Theorems about LeaderElection, for every set of nodes. *)
EXTENDS LeaderElection, TLAPS

(* The program counters are well typed. *)
PCs == [Nodes -> [monitor : Electing \cup {"none", "sleep", "mine"},
                  heartbeat : Electing \cup {"none", "loop", "lost", "ended"}]]

LEMMA InitTypeOK == Init => TypeOK
<1> SUFFICES ASSUME Init PROVE TypeOK
  OBVIOUS
<1>1. pc \in PCs
  BY DEF Init, PCs, Electing
<1> QED
  BY <1>1 DEF Init, TypeOK, PCs

(* A jump of one thread keeps the program counters well typed. *)
LEMMA MonitorJump ==
  ASSUME pc \in PCs, NEW n \in Nodes, NEW l \in Electing \cup {"sleep", "mine"},
         Goto(n, "monitor", l)
  PROVE  pc' \in PCs
BY DEF Goto, PCs

LEMMA HeartbeatJump ==
  ASSUME pc \in PCs, NEW n \in Nodes, NEW l \in Electing \cup {"lost", "ended"},
         Goto(n, "heartbeat", l)
  PROVE  pc' \in PCs
BY DEF Goto, PCs

LEMMA Jump ==
  ASSUME pc \in PCs, NEW n \in Nodes, NEW t \in Threads, NEW l \in Electing,
         Goto(n, t, l)
  PROVE  pc' \in PCs
BY MonitorJump, HeartbeatJump DEF Threads

LEMMA LeaveJump ==
  ASSUME pc \in PCs, NEW n \in Nodes, NEW t \in Threads, Leave(n, t)
  PROVE  pc' \in PCs
BY MonitorJump, HeartbeatJump DEF Threads, Leave

LEMMA NextTypeOK == TypeOK /\ [Next]_vars => TypeOK'
<1> SUFFICES ASSUME TypeOK, [Next]_vars PROVE TypeOK'
  OBVIOUS
<1> USE DEF key, process
<1>t. pc \in PCs
  BY DEF TypeOK, PCs
<1>e. /\ {"elect", "granted", "won", "refused", "failed", "start"} = Electing
      /\ "monitor" \in Threads /\ "heartbeat" \in Threads
  BY DEF Electing, Threads
<1>1. ASSUME NEW n \in Nodes, NEW t \in Threads, TryBecomeLeader(n, t)
      PROVE  TypeOK'
  <2>1. CASE Unavailable(n, t)
    <3>1. pc' \in PCs
      BY <2>1, <1>t, LeaveJump DEF Unavailable
    <3> QED
      BY <2>1, <3>1 DEF Unavailable, TypeOK, PCs
  <2>2. CASE GrantLease(n, t)
    <3>1. pc' \in PCs
      BY <2>2, <1>t, <1>e, Jump DEF GrantLease
    <3> QED
      BY <2>2, <3>1 DEF GrantLease, TypeOK, PCs
  <2>3. CASE PutKey(n, t)
    <3>1. pc' \in PCs
      BY <2>3, <1>t, <1>e, Jump DEF PutKey
    <3> QED
      BY <2>3, <3>1 DEF PutKey, Put, TypeOK, PCs
  <2>4. CASE SetFlag(n, t)
    <3>1. pc' \in PCs
      BY <2>4, <1>t, <1>e, Jump, LeaveJump DEF SetFlag
    <3>2. isLeader' \in [Nodes -> BOOLEAN]
      BY <2>4 DEF SetFlag, TypeOK
    <3> QED
      BY <2>4, <3>1, <3>2 DEF SetFlag, TypeOK, PCs
  <2>5. CASE StartHeartbeat(n, t)
    <3>1. pc' \in PCs
      BY <2>5, <1>t, LeaveJump DEF StartHeartbeat, PCs
    <3> QED
      BY <2>5, <3>1 DEF StartHeartbeat, TypeOK, PCs
  <2> QED
    BY <1>1, <2>1, <2>2, <2>3, <2>4, <2>5 DEF TryBecomeLeader
<1>2. ASSUME NEW n \in Nodes, MonitorStep(n) PROVE TypeOK'
  <2>1. CASE ReadLeader(n)
    <3>1. pc' \in PCs
      BY <2>1, <1>t, <1>e, MonitorJump DEF ReadLeader
    <3> QED
      BY <2>1, <3>1 DEF ReadLeader, TypeOK, PCs
  <2>2. CASE ConfirmLeader(n)
    <3>1. pc' \in PCs
      BY <2>2, <1>t, MonitorJump DEF ConfirmLeader
    <3> QED
      BY <2>2, <3>1 DEF ConfirmLeader, TypeOK, PCs
  <2> QED
    BY <1>1, <1>2, <1>e, <2>1, <2>2 DEF MonitorStep
<1>3. ASSUME NEW n \in Nodes, HeartbeatStep(n) PROVE TypeOK'
  <2>1. CASE HandleLeaseLoss(n)
    <3>1. pc' \in PCs
      BY <2>1, <1>t, <1>e, HeartbeatJump DEF HandleLeaseLoss
    <3> QED
      BY <2>1, <3>1 DEF HandleLeaseLoss, TypeOK, PCs
  <2> QED
    BY <1>1, <1>3, <1>e, <2>1 DEF HeartbeatStep
<1>4. ASSUME NEW n \in Nodes, EtcdError(n) PROVE TypeOK'
  <2>1. CASE ReadFails(n)
    <3>1. pc' \in PCs
      BY <2>1, <1>t, <1>e, MonitorJump DEF ReadFails
    <3> QED
      BY <2>1, <3>1 DEF ReadFails, EtcdRaises, TypeOK, PCs
  <2>2. CASE RefreshFails(n)
    <3>1. pc' \in PCs
      BY <2>2, <1>t, HeartbeatJump DEF RefreshFails
    <3> QED
      BY <2>2, <3>1 DEF RefreshFails, EtcdRaises, TypeOK, PCs
  <2>3. ASSUME NEW t \in Threads, GrantFails(n, t) PROVE TypeOK'
    <3>1. pc' \in PCs
      BY <2>3, <1>t, <1>e, Jump DEF GrantFails
    <3> QED
      BY <2>3, <3>1 DEF GrantFails, EtcdRaises, TypeOK, PCs
  <2>4. ASSUME NEW t \in Threads, PutFails(n, t) PROVE TypeOK'
    <3>1. pc' \in PCs
      BY <2>4, <1>t, <1>e, Jump DEF PutFails
    <3>2. holder' \in Nodes \cup {Nobody} /\ current' \in BOOLEAN
      BY <2>4 DEF PutFails, Put, TypeOK
    <3> QED
      BY <2>4, <3>1, <3>2 DEF PutFails, EtcdRaises, TypeOK, PCs
  <2> QED
    BY <1>4, <2>1, <2>2, <2>3, <2>4 DEF EtcdError
<1>5. ASSUME NEW n \in Nodes, Crash(n) PROVE TypeOK'
  BY <1>5 DEF Crash, TypeOK
<1>6. ASSUME NEW n \in Nodes, Restart(n) PROVE TypeOK'
  <2>1. pc' \in PCs
    BY <1>6, <1>t, <1>e, MonitorJump DEF Restart
  <2> QED
    BY <1>6, <2>1 DEF Restart, TypeOK, PCs
<1>7. CASE Expire
  BY <1>7 DEF Expire, TypeOK
<1>8. CASE UNCHANGED vars
  BY <1>8 DEF vars, TypeOK
<1> QED
  BY <1>2, <1>3, <1>4, <1>5, <1>6, <1>7, <1>8 DEF Next

(* The variables of the model keep their types, whatever fails. *)
THEOREM TypeCorrect == Spec => []TypeOK
BY InitTypeOK, NextTypeOK, PTL DEF Spec

-----------------------------------------------------------------------------
(* One leader at a time, if coordinators may crash but restart only when   *)
(* their key has expired, and etcd answers in time.                        *)

(* What node n is, when its flag is up or about to be. *)
Leading(n) == isLeader[n] \/ pc[n]["monitor"] \in {"won", "start", "mine"}

(* A process that runs is either not the holder of the key or renews it,   *)
(* and then does not run for election; a process that is down is silent.   *)
NodeInv(n) ==
  /\ connected[n]
  /\ pc[n]["heartbeat"] \in {"none", "loop"}
  /\ ~up[n] => ~Leading(n) /\ pc[n]["monitor"] = "none"
  /\ Leading(n) => holder = n
  /\ up[n] /\ holder = n =>
       /\ Renewed(n)
       /\ pc[n]["monitor"] \notin {"none", "elect", "granted", "refused", "failed"}

LeaderInv == \A n \in Nodes : NodeInv(n)

LEMMA InitLeaderInv ==
  ASSUME Faults \subseteq {"crash"}
  PROVE  Init => LeaderInv
<1> SUFFICES ASSUME Init, NEW n \in Nodes PROVE NodeInv(n)
  BY DEF LeaderInv
<1>1. pc[n] = [monitor |-> "elect", heartbeat |-> "none"] /\ ~isLeader[n]
  BY DEF Init
<1>2. up[n] /\ connected[n] /\ holder # n
  BY NobodyAssumption DEF Init
<1> QED
  BY <1>1, <1>2 DEF NodeInv, Leading

LEMMA NextLeaderInv ==
  ASSUME Faults \subseteq {"crash"}
  PROVE  TypeOK /\ LeaderInv /\ [Next]_vars => LeaderInv'
<1> SUFFICES ASSUME TypeOK, LeaderInv, [Next]_vars, NEW m \in Nodes
             PROVE  NodeInv(m)'
  BY DEF LeaderInv
<1>m. NodeInv(m)
  BY DEF LeaderInv
<1> USE NobodyAssumption DEF key, process
<1>1. ASSUME NEW n \in Nodes, TryBecomeLeader(n, "monitor") PROVE NodeInv(m)'
  <2>n. NodeInv(n)
    BY DEF LeaderInv
  <2>1. CASE Unavailable(n, "monitor")
    BY <2>1, <2>n DEF Unavailable, NodeInv
  <2>2. CASE GrantLease(n, "monitor")
    BY <2>2, <2>n, <1>m DEF GrantLease, Goto, NodeInv, Leading, Renewed, TypeOK, Threads
  <2>3. CASE PutKey(n, "monitor")
    BY <2>3, <2>n, <1>m DEF PutKey, Put, Goto, NodeInv, Leading, Renewed, TypeOK, Threads
  <2>4. CASE SetFlag(n, "monitor")
    BY <2>4, <2>n, <1>m DEF SetFlag, Leave, Goto, NodeInv, Leading, Renewed, TypeOK, Threads
  <2>5. CASE StartHeartbeat(n, "monitor")
    BY <2>5, <2>n, <1>m DEF StartHeartbeat, Leave, Goto, NodeInv, Leading, Renewed, TypeOK, Threads
  <2> QED
    BY <1>1, <2>1, <2>2, <2>3, <2>4, <2>5 DEF TryBecomeLeader
<1>2. ASSUME NEW n \in Nodes, MonitorStep(n) PROVE NodeInv(m)'
  <2>n. NodeInv(n)
    BY DEF LeaderInv
  <2>1. CASE ReadLeader(n)
    BY <2>1, <2>n, <1>m DEF ReadLeader, Goto, NodeInv, Leading, Renewed, TypeOK, Threads
  <2>2. CASE ConfirmLeader(n)
    BY <2>2, <2>n, <1>m DEF ConfirmLeader, Goto, NodeInv, Leading, Renewed, TypeOK, Threads
  <2> QED
    BY <1>1, <1>2, <2>1, <2>2 DEF MonitorStep
<1>3. ASSUME NEW n \in Nodes, HeartbeatStep(n) PROVE FALSE
  <2>n. pc[n]["heartbeat"] \in {"none", "loop"}
    BY DEF LeaderInv, NodeInv
  <2> QED
    BY <1>3, <2>n DEF HeartbeatStep, HandleLeaseLoss, TryBecomeLeader, Unavailable,
                      GrantLease, PutKey, SetFlag, StartHeartbeat
<1>4. ASSUME NEW n \in Nodes, EtcdError(n) PROVE FALSE
  BY <1>4 DEF EtcdError, ReadFails, RefreshFails, GrantFails, PutFails, EtcdRaises
<1>5. ASSUME NEW n \in Nodes, Crash(n) PROVE NodeInv(m)'
  <2>n. NodeInv(n)
    BY DEF LeaderInv
  <2> QED
    BY <1>5, <2>n, <1>m DEF Crash, NodeInv, Leading, Renewed, TypeOK, Threads
<1>6. ASSUME NEW n \in Nodes, Restart(n) PROVE NodeInv(m)'
  <2>n. NodeInv(n)
    BY DEF LeaderInv
  <2> QED
    BY <1>6, <2>n, <1>m DEF Restart, Goto, NodeInv, Leading, Renewed, TypeOK, Threads
<1>7. CASE Expire
  <2>1. "late" \notin Faults
    OBVIOUS
  <2> QED
    BY <1>7, <2>1, <1>m DEF Expire, NodeInv, Leading, Renewed, TypeOK, Threads
<1>8. CASE UNCHANGED vars
  BY <1>8, <1>m DEF vars, NodeInv, Leading, Renewed
<1> QED
  BY <1>2, <1>3, <1>4, <1>5, <1>6, <1>7, <1>8 DEF Next

LEMMA LeaderInvariant ==
  ASSUME Faults \subseteq {"crash"}
  PROVE  Spec => []LeaderInv
<1>1. Init => LeaderInv
  BY InitLeaderInv
<1>2. TypeOK /\ LeaderInv /\ [Next]_vars => LeaderInv'
  BY NextLeaderInv
<1> QED
  BY <1>1, <1>2, TypeCorrect, PTL DEF Spec

(* With crashes and restarts that wait for the expiry of the key, a node   *)
(* that takes itself for the leader holds the key and renews its lease.    *)
THEOREM LeadersRenew ==
  ASSUME Faults \subseteq {"crash"}
  PROVE  Spec => []LeaderRenews
<1>1. LeaderInv => LeaderRenews
  BY DEF LeaderInv, NodeInv, Leading, LeaderRenews
<1> QED
  BY <1>1, LeaderInvariant, PTL

(* Under the same faults, at most one node passes the leader check of      *)
(* execute_transaction.                                                    *)
THEOREM OneLeader ==
  ASSUME Faults \subseteq {"crash"}
  PROVE  Spec => []AtMostOneLeader
<1>1. LeaderInv => AtMostOneLeader
  BY DEF LeaderInv, NodeInv, Leading, AtMostOneLeader
<1> QED
  BY <1>1, LeaderInvariant, PTL

-----------------------------------------------------------------------------
(* Leadership is implemented.                                              *)

(* A step that leaves flags and processes alone is none of Leadership's.   *)
LEMMA OfficeStutter ==
  ASSUME UNCHANGED <<isLeader, up>>
  PROVE  [Office!Next]_(Office!vars)
BY DEF Office!vars

(* Elections: who wins finds the office vacant, who loses did not hold it. *)
LEMMA OfficeFlag ==
  ASSUME Faults \subseteq {"crash"}, TypeOK, LeaderInv, NEW n \in Nodes,
         SetFlag(n, "monitor") \/ ConfirmLeader(n)
  PROVE  [Office!Next]_(Office!vars)
<1>t. isLeader \in [Nodes -> BOOLEAN] /\ UNCHANGED up
  BY DEF TypeOK, SetFlag, ConfirmLeader, process
<1>n. NodeInv(n)
  BY DEF LeaderInv
<1>1. CASE pc[n]["monitor"] \in {"won", "mine"}
  <2>1. isLeader' = [isLeader EXCEPT ![n] = TRUE]
    BY <1>1 DEF SetFlag, ConfirmLeader
  <2>2. up[n] /\ holder = n
    BY <1>1, <1>n DEF NodeInv, Leading
  <2>3. \A k \in Nodes : isLeader[k] => k = n
    BY <2>2 DEF LeaderInv, NodeInv, Leading
  <2>4. CASE isLeader[n]
    BY <2>1, <2>4, <1>t, OfficeStutter
  <2>5. CASE ~isLeader[n]
    <3>1. Office!TakeOffice(n)
      BY <2>1, <2>2, <2>3, <2>5, <1>t DEF Office!TakeOffice
    <3> QED BY <3>1 DEF Office!Next
  <2> QED BY <2>4, <2>5, <1>t
<1>2. CASE pc[n]["monitor"] \in {"refused", "failed"}
  <2>1. ~isLeader[n]
    BY <1>2, <1>n DEF NodeInv, Leading
  <2>2. isLeader' = [isLeader EXCEPT ![n] = FALSE]
    BY <1>2 DEF SetFlag, ConfirmLeader
  <2> QED BY <2>1, <2>2, <1>t, OfficeStutter
<1> QED
  BY <1>1, <1>2 DEF SetFlag, ConfirmLeader

LEMMA OfficeCrash ==
  ASSUME TypeOK, NEW n \in Nodes, Crash(n) \/ Restart(n)
  PROVE  [Office!Next]_(Office!vars)
<1>t. isLeader \in [Nodes -> BOOLEAN] /\ up \in [Nodes -> BOOLEAN]
  BY DEF TypeOK
<1>1. CASE Crash(n)
  BY <1>1 DEF Crash, Office!Die, Office!Next
<1>2. CASE Restart(n)
  BY <1>2 DEF Restart, Office!Return, Office!Next
<1> QED
  BY <1>1, <1>2

LEMMA OfficeStep ==
  ASSUME Faults \subseteq {"crash"}, TypeOK, LeaderInv, [Next]_vars
  PROVE  [Office!Next]_(Office!vars)
<1> USE DEF key, process
<1>n. \A n \in Nodes : connected[n] /\ pc[n]["heartbeat"] \in {"none", "loop"}
  BY DEF LeaderInv, NodeInv
<1>1. ASSUME NEW n \in Nodes, MonitorStep(n), ~SetFlag(n, "monitor"), ~ConfirmLeader(n)
      PROVE  UNCHANGED <<isLeader, up>>
  BY <1>1, <1>n DEF MonitorStep, ReadLeader, TryBecomeLeader, Unavailable,
     GrantLease, PutKey, StartHeartbeat
<1>2. ASSUME NEW n \in Nodes PROVE ~HeartbeatStep(n)
  BY <1>n DEF HeartbeatStep, HandleLeaseLoss, TryBecomeLeader, Unavailable,
     GrantLease, PutKey, SetFlag, StartHeartbeat
<1>3. ASSUME NEW n \in Nodes PROVE ~EtcdError(n)
  BY DEF EtcdError, ReadFails, RefreshFails, GrantFails, PutFails, EtcdRaises
<1>4. Expire \/ UNCHANGED vars => UNCHANGED <<isLeader, up>>
  BY DEF Expire, vars
<1> QED
  BY <1>1, <1>2, <1>3, <1>4, OfficeStutter, OfficeFlag, OfficeCrash DEF Next

(* Under the same faults the election implements Leadership: whatever the  *)
(* interleaving of elections, renewals, expiry, crashes and restarts, the  *)
(* flag of a node that runs stays up, and another goes up only when there  *)
(* is none.                                                                *)
THEOREM ImplementsLeadership ==
  ASSUME Faults \subseteq {"crash"}
  PROVE  Spec => LeadershipSpec
<1>1. Init => Office!Init
  BY DEF Init, Office!Init
<1>2. TypeOK /\ LeaderInv /\ [Next]_vars => [Office!Next]_(Office!vars)
  BY OfficeStep
<1> QED
  BY <1>1, <1>2, TypeCorrect, LeaderInvariant, PTL DEF Spec, LeadershipSpec, Office!Spec
=============================================================================
