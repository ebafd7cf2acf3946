------------------------- MODULE TransactionService -------------------------
(***************************************************************************)
(* Client requests on top of LeaderElection: a request arrives at any      *)
(* coordinator, is executed there if the flag is up, and is otherwise      *)
(* forwarded to the node the key names, which may forward it again.  The   *)
(* coordinators share the SQLite table of transactions.  What execution    *)
(* does is ThreePhaseCommit's subject: here it takes a while, and decides. *)
(***************************************************************************)
EXTENDS LeaderElection

CONSTANTS
  Requests,   \* what clients post to /execute-transaction
  StoreFails  \* SQLite may refuse a write of the transactions table

ASSUME StoreFailsAssumption == StoreFails \in BOOLEAN

VARIABLES
  handler,  \* handler[r]: where r's innermost request thread is, at which node
  waiting,  \* waiting[r]: the nodes that wait for a forwarded answer
  client,   \* client[r]: "none", "waiting", or the answer it was given
  rows      \* rows[r]: the status of r's transaction in the database

serviceVars == <<handler, waiting, client, rows>>
allVars == <<vars, serviceVars>>

Outcomes == {"committed", "aborted"}
Executing == {"begin", "execute"} \cup Outcomes
Working == {"check", "lookup", "forward"} \cup Executing

Status == [committed |-> "COMMIT", aborted |-> "ABORT"]

Step(r, l) == handler' = [handler EXCEPT ![r].pc = l]

-----------------------------------------------------------------------------
(* execute_transaction *)

(* A thread of n, which does not know who else has had the request. *)
Handle(r, n) ==
  handler' = [handler EXCEPT ![r] = [pc |-> "check", at |-> n, to |-> Nobody]]

Post(r, n) ==
  /\ client[r] = "none" /\ up[n]
  /\ Handle(r, n)
  /\ client' = [client EXCEPT ![r] = "waiting"]
  /\ UNCHANGED <<vars, waiting, rows>>

(* Mutant of CheckLeader: a node that does not lead executes as well. *)
CheckNothing(r) ==
  /\ handler[r].pc = "check"
  /\ Step(r, "begin")
  /\ UNCHANGED <<vars, waiting, client, rows>>

(* The flag is read once, the request takes many seconds. *)
CheckLeader(r) ==
  /\ handler[r].pc = "check"
  /\ Step(r, IF isLeader[handler[r].at] THEN "begin" ELSE "lookup")
  /\ UNCHANGED <<vars, waiting, client, rows>>

(* The answer reaches the client unless somebody on the way has given up.  *)
Return(r, status) ==
  /\ Step(r, "done")
  /\ client' = [client EXCEPT ![r] = IF @ = "waiting" THEN status ELSE @]
  /\ waiting' = [waiting EXCEPT ![r] = {}]

(* Mutant of LookUpLeader: the answer of get_current_leader is not checked. *)
LookUpUnchecked(r) ==
  /\ handler[r].pc = "lookup"
  /\ handler' = [handler EXCEPT ![r].pc = "forward", ![r].to = holder]
  /\ UNCHANGED <<vars, waiting, client, rows>>

(* get_current_leader names a node, this one perhaps, or nobody: 503. *)
LookUpLeader(r) ==
  LET n == handler[r].at
  IN  /\ handler[r].pc = "lookup"
      /\ IF connected[n] /\ holder # Nobody
           THEN /\ handler' = [handler EXCEPT ![r].pc = "forward", ![r].to = holder]
                /\ UNCHANGED <<waiting, client>>
           ELSE Return(r, "error")
      /\ UNCHANGED <<vars, rows>>

(* The read of the key raises, whatever else works: 503 as well. *)
LookUpFails(r) ==
  /\ handler[r].pc = "lookup"
  /\ Return(r, "error")
  /\ UNCHANGED <<vars, rows>>

(* The leader handles the request as if a client had posted it. *)
Forward(r) ==
  LET h == handler[r]
  IN  /\ h.pc = "forward" /\ up[h.to]
      /\ Handle(r, h.to)
      /\ waiting' = [waiting EXCEPT ![r] =
                       IF client[r] = "waiting" THEN @ \cup {h.at} ELSE {}]
      /\ UNCHANGED <<vars, client, rows>>

(* The leader is down or its name does not resolve: 500. *)
ForwardFails(r) ==
  /\ handler[r].pc = "forward"
  /\ Return(r, "error")
  /\ UNCHANGED <<vars, rows>>

(* After 60 seconds the client is told 500; the leader goes on. *)
ForwardTimesOut(r) ==
  /\ client[r] = "waiting" /\ waiting[r] # {}
  /\ client' = [client EXCEPT ![r] = "error"]
  /\ waiting' = [waiting EXCEPT ![r] = {}]
  /\ UNCHANGED <<vars, handler, rows>>

(* save_transaction drops the exception of a write that is refused. *)
Save(r, status) ==
  rows' = [rows EXCEPT ![r] = status] \/ (StoreFails /\ UNCHANGED rows)

(* A request that names no participants: 400. *)
Refuse(r) ==
  /\ handler[r].pc = "begin"
  /\ Return(r, "error")
  /\ UNCHANGED <<vars, rows>>

Begin(r) ==
  /\ handler[r].pc = "begin"
  /\ Save(r, "STARTED")
  /\ Step(r, "execute")
  /\ UNCHANGED <<vars, waiting, client>>

(* Mutant of Decide: every path saves the status of the others. *)
DecideAborted(r, outcome) ==
  /\ handler[r].pc = "execute"
  /\ Save(r, "ABORT")
  /\ Step(r, outcome)
  /\ UNCHANGED <<vars, waiting, client>>

(* execute_3pc_protocol comes to its outcome and saves it. *)
Decide(r, outcome) ==
  /\ handler[r].pc = "execute"
  /\ Save(r, Status[outcome])
  /\ Step(r, outcome)
  /\ UNCHANGED <<vars, waiting, client>>

Answer(r) ==
  /\ handler[r].pc \in Outcomes
  /\ Return(r, handler[r].pc)
  /\ UNCHANGED <<vars, rows>>

(* A save or a log that cannot open the database raises: 500. *)
ExecutionRaises(r) ==
  /\ StoreFails /\ handler[r].pc \in Executing
  /\ Return(r, "error")
  /\ UNCHANGED <<vars, rows>>

HandlerStep(r) ==
  \/ CheckLeader(r) \/ LookUpLeader(r) \/ LookUpFails(r)
  \/ Forward(r) \/ ForwardFails(r)
  \/ Refuse(r) \/ Begin(r) \/ Answer(r) \/ ExecutionRaises(r)
  \/ \E outcome \in Outcomes : Decide(r, outcome)

-----------------------------------------------------------------------------
(* The threads of a process that crashes are gone, and the connections on  *)
(* which others waited for it break.                                       *)
Broken(r) == {handler[r].at} \cup waiting[r]

ElectionStep ==
  /\ Next
  /\ handler' = [r \in Requests |->
       IF handler[r].pc \in Working /\ ~up'[handler[r].at]
         THEN [handler[r] EXCEPT !.pc = "done"] ELSE handler[r]]
  /\ client' = [r \in Requests |->
       IF client[r] = "waiting" /\ \E n \in Broken(r) : ~up'[n]
         THEN "error" ELSE client[r]]
  /\ waiting' = [r \in Requests |->
       IF client'[r] = "waiting" THEN waiting[r] ELSE {}]
  /\ UNCHANGED rows

ServiceInit ==
  /\ Init
  /\ handler = [r \in Requests |-> [pc |-> "idle", at |-> Nobody, to |-> Nobody]]
  /\ waiting = [r \in Requests |-> {}]
  /\ client = [r \in Requests |-> "none"]
  /\ rows = [r \in Requests |-> "none"]

ServiceNext ==
  \/ ElectionStep
  \/ \E r \in Requests :
       \/ \E n \in Nodes : Post(r, n)
       \/ HandlerStep(r) \/ ForwardTimesOut(r)

ServiceSpec == ServiceInit /\ [][ServiceNext]_allVars
-----------------------------------------------------------------------------
(* Properties *)

(* Every variable has a value the code can give it. *)
ServiceTypeOK ==
  /\ handler \in [Requests -> [pc : Working \cup {"idle", "done"},
                               at : Nodes \cup {Nobody}, to : Nodes \cup {Nobody}]]
  /\ \A r \in Requests : handler[r].pc \in Working => handler[r].at \in Nodes
  /\ \A r \in Requests : handler[r].pc = "forward" => handler[r].to \in Nodes
  /\ waiting \in [Requests -> SUBSET Nodes]
  /\ client \in [Requests -> {"none", "waiting", "error"} \cup Outcomes]
  /\ rows \in [Requests -> {"none", "STARTED", "COMMIT", "ABORT"}]

(* Only one coordinator node executes transactions at a time               *)
(* (leader_election.py:3-4): not only when its flag is looked at, but for  *)
(* as long as the transaction takes.                                       *)
OneExecutor ==
  \A q, r \in Requests :
    handler[q].pc \in Executing /\ handler[r].pc \in Executing
      => handler[q].at = handler[r].at

(* What a client was told is in the shared table, which is what /metrics   *)
(* counts after a failover (coordinator/server.py:70-71); a refused write  *)
(* leaves the transaction open there, never with the other outcome.        *)
Recorded(r, outcome) ==
  \/ rows[r] = Status[outcome]
  \/ StoreFails /\ rows[r] \in {"none", "STARTED"}

AnswerStored ==
  \A r \in Requests : client[r] \in Outcomes => Recorded(r, client[r])
=============================================================================
