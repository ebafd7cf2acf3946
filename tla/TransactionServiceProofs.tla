---------------------- MODULE TransactionServiceProofs ----------------------
(* Theorems about TransactionService, for all sets of nodes and requests. *)
EXTENDS TransactionService, LeaderElectionProofs

Handlers == [pc : Working \cup {"idle", "done"},
             at : Nodes \cup {Nobody}, to : Nodes \cup {Nobody}]

(* A thread that works does so at a node, and forwards to one. *)
Placed(h) ==
  /\ h.pc \in Working => h.at \in Nodes
  /\ h.pc = "forward" => h.to \in Nodes

TypeInv == TypeOK /\ ServiceTypeOK

LEMMA InitTypeInv == ServiceInit => TypeInv
<1> SUFFICES ASSUME ServiceInit PROVE TypeInv
  OBVIOUS
<1>1. TypeOK
  BY InitTypeOK DEF ServiceInit
<1>2. ServiceTypeOK
  BY DEF ServiceInit, ServiceTypeOK, Working, Executing, Outcomes
<1> QED
  BY <1>1, <1>2 DEF TypeInv

(* What a step of request r needs to keep: its own thread and variables.   *)
LEMMA RequestStepTypes ==
  ASSUME TypeInv, NEW r \in Requests, NEW h \in Handlers, Placed(h),
         handler' = [handler EXCEPT ![r] = h],
         waiting' \in [Requests -> SUBSET Nodes],
         client' \in [Requests -> {"none", "waiting", "error"} \cup Outcomes],
         rows' \in [Requests -> {"none", "STARTED", "COMMIT", "ABORT"}]
  PROVE  ServiceTypeOK'
<1>1. handler' \in [Requests -> Handlers]
  BY DEF TypeInv, ServiceTypeOK, Handlers
<1>2. \A q \in Requests : Placed(handler'[q])
  BY DEF TypeInv, ServiceTypeOK, Placed
<1> QED
  BY <1>1, <1>2 DEF ServiceTypeOK, Handlers, Placed

(* A thread that goes to l stays where it is. *)
LEMMA StepHandler ==
  ASSUME TypeInv, NEW r \in Requests, NEW l \in Working \cup {"done"},
         handler[r].pc \in Working, l # "forward", Step(r, l)
  PROVE  \E h \in Handlers : /\ handler' = [handler EXCEPT ![r] = h]
                             /\ Placed(h) /\ h.pc = l /\ h.at = handler[r].at
<1> DEFINE h == [handler[r] EXCEPT !.pc = l]
<1>1. handler[r] \in Handlers /\ Placed(handler[r])
  BY DEF TypeInv, ServiceTypeOK, Handlers, Placed
<1>2. h \in Handlers /\ h.pc = l /\ h.at = handler[r].at
  BY <1>1 DEF Handlers
<1>3. Placed(h)
  BY <1>1, <1>2 DEF Placed
<1>4. handler' = [handler EXCEPT ![r] = h]
  BY DEF Step
<1> QED
  BY <1>2, <1>3, <1>4

LEMMA HandleHandler ==
  ASSUME NEW r \in Requests, NEW n \in Nodes, Handle(r, n)
  PROVE  \E h \in Handlers : /\ handler' = [handler EXCEPT ![r] = h]
                             /\ Placed(h) /\ h.pc = "check"
<1> DEFINE h == [pc |-> "check", at |-> n, to |-> Nobody]
<1>1. h \in Handlers /\ Placed(h)
  BY DEF Handlers, Placed, Working, Executing
<1> QED
  BY <1>1 DEF Handle

LEMMA ReturnTypes ==
  ASSUME TypeInv, NEW r \in Requests, handler[r].pc \in Working,
         NEW s \in {"error"} \cup Outcomes, Return(r, s), UNCHANGED rows
  PROVE  ServiceTypeOK'
<1>1. PICK h \in Handlers : handler' = [handler EXCEPT ![r] = h] /\ Placed(h)
  BY StepHandler DEF Return
<1>2. /\ waiting' \in [Requests -> SUBSET Nodes]
      /\ client' \in [Requests -> {"none", "waiting", "error"} \cup Outcomes]
      /\ rows' \in [Requests -> {"none", "STARTED", "COMMIT", "ABORT"}]
  BY DEF Return, TypeInv, ServiceTypeOK
<1> QED
  BY <1>1, <1>2, RequestStepTypes

(* The steps of the request handlers leave the election alone. *)
RequestStep(r) ==
  \/ \E n \in Nodes : Post(r, n)
  \/ HandlerStep(r) \/ ForwardTimesOut(r)

LEMMA RequestTypes ==
  ASSUME TypeInv, NEW r \in Requests, RequestStep(r)
  PROVE  ServiceTypeOK'
<1>v. \A l : l \in {"check", "lookup", "begin", "execute"} \cup Outcomes
             => l \in Working /\ l # "forward"
  BY DEF Working, Executing, Outcomes
<1>f. "forward" \in Working
  BY DEF Working
<1>d. /\ waiting \in [Requests -> SUBSET Nodes]
      /\ client \in [Requests -> {"none", "waiting", "error"} \cup Outcomes]
      /\ rows \in [Requests -> {"none", "STARTED", "COMMIT", "ABORT"}]
  BY DEF TypeInv, ServiceTypeOK
<1>1. ASSUME NEW n \in Nodes, Post(r, n) PROVE ServiceTypeOK'
  <2>1. PICK h \in Handlers : handler' = [handler EXCEPT ![r] = h] /\ Placed(h)
    BY <1>1, HandleHandler DEF Post
  <2> QED
    BY <1>1, <1>d, <2>1, RequestStepTypes DEF Post
<1>2. CASE CheckLeader(r)
  <2>1. PICK h \in Handlers : handler' = [handler EXCEPT ![r] = h] /\ Placed(h)
    BY <1>2, <1>v, StepHandler DEF CheckLeader
  <2> QED
    BY <1>2, <1>d, <2>1, RequestStepTypes DEF CheckLeader
<1>3. CASE LookUpLeader(r)
  <2>1. CASE connected[handler[r].at] /\ holder # Nobody
    <3> DEFINE h == [handler[r] EXCEPT !.pc = "forward", !.to = holder]
    <3>1. handler[r] \in Handlers /\ handler[r].at \in Nodes /\ holder \in Nodes
      BY <1>3, <1>v, <2>1 DEF LookUpLeader, TypeInv, TypeOK, ServiceTypeOK, Handlers
    <3>2. h \in Handlers /\ Placed(h)
      BY <3>1, <1>f DEF Handlers, Placed
    <3>3. handler' = [handler EXCEPT ![r] = h]
      BY <1>3, <2>1 DEF LookUpLeader
    <3> QED
      BY <1>3, <1>d, <2>1, <3>2, <3>3, RequestStepTypes DEF LookUpLeader
  <2>2. CASE ~(connected[handler[r].at] /\ holder # Nobody)
    BY <1>3, <1>v, <2>2, ReturnTypes DEF LookUpLeader
  <2> QED
    BY <2>1, <2>2
<1>4. CASE LookUpFails(r)
  BY <1>4, <1>v, ReturnTypes DEF LookUpFails
<1>5. CASE Forward(r)
  <2>1. handler[r].at \in Nodes /\ handler[r].to \in Nodes
    BY <1>5, <1>f DEF Forward, TypeInv, ServiceTypeOK
  <2>2. PICK h \in Handlers : handler' = [handler EXCEPT ![r] = h] /\ Placed(h)
    BY <1>5, <2>1, HandleHandler DEF Forward
  <2>3. waiting' \in [Requests -> SUBSET Nodes]
    BY <1>5, <1>d, <2>1 DEF Forward
  <2> QED
    BY <1>5, <1>d, <2>2, <2>3, RequestStepTypes DEF Forward
<1>6. CASE ForwardFails(r)
  BY <1>6, <1>f, ReturnTypes DEF ForwardFails
<1>7. CASE ForwardTimesOut(r)
  BY <1>7, <1>d DEF ForwardTimesOut, TypeInv, ServiceTypeOK
<1>8. CASE Begin(r)
  <2>1. PICK h \in Handlers : handler' = [handler EXCEPT ![r] = h] /\ Placed(h)
    BY <1>8, <1>v, StepHandler DEF Begin
  <2>2. rows' \in [Requests -> {"none", "STARTED", "COMMIT", "ABORT"}]
    BY <1>8, <1>d DEF Begin, Save
  <2> QED
    BY <1>8, <1>d, <2>1, <2>2, RequestStepTypes DEF Begin
<1>9. ASSUME NEW o \in Outcomes, Decide(r, o) PROVE ServiceTypeOK'
  <2>1. PICK h \in Handlers : handler' = [handler EXCEPT ![r] = h] /\ Placed(h)
    BY <1>9, <1>v, StepHandler DEF Decide
  <2>2. Status[o] \in {"COMMIT", "ABORT"}
    BY <1>9 DEF Outcomes, Status
  <2>3. rows' \in [Requests -> {"none", "STARTED", "COMMIT", "ABORT"}]
    BY <1>9, <1>d, <2>2 DEF Decide, Save
  <2> QED
    BY <1>9, <1>d, <2>1, <2>3, RequestStepTypes DEF Decide
<1>10. CASE Answer(r)
  BY <1>10, <1>v, ReturnTypes DEF Answer
<1>11. CASE ExecutionRaises(r)
  <2>1. handler[r].pc \in Working
    BY <1>11 DEF ExecutionRaises, Working
  <2> QED
    BY <1>11, <2>1, ReturnTypes DEF ExecutionRaises
<1>12. CASE Refuse(r)
  BY <1>12, <1>v, ReturnTypes DEF Refuse
<1> QED
  BY <1>1, <1>2, <1>3, <1>4, <1>5, <1>6, <1>7, <1>8, <1>9, <1>10, <1>11, <1>12
     DEF RequestStep, HandlerStep

LEMMA ElectionTypes ==
  ASSUME TypeInv, ElectionStep
  PROVE  ServiceTypeOK'
<1>w. {"check", "lookup", "forward", "begin", "execute", "committed", "aborted"}
        = Working /\ "done" \notin Working
  BY DEF Working, Executing, Outcomes
<1>1. ASSUME NEW r \in Requests
      PROVE  handler'[r] \in Handlers /\ Placed(handler'[r])
  <2>1. handler[r] \in Handlers /\ Placed(handler[r])
    BY DEF TypeInv, ServiceTypeOK, Handlers, Placed
  <2>2. [handler[r] EXCEPT !.pc = "done"] \in Handlers
    BY <2>1 DEF Handlers
  <2>3. [handler[r] EXCEPT !.pc = "done"].pc = "done"
    BY <2>1 DEF Handlers
  <2>4. Placed([handler[r] EXCEPT !.pc = "done"])
    BY <1>w, <2>3 DEF Placed
  <2>5. \/ handler'[r] = handler[r]
        \/ handler'[r] = [handler[r] EXCEPT !.pc = "done"]
    BY DEF ElectionStep
  <2> QED
    BY <2>1, <2>2, <2>4, <2>5
<1>2. handler' \in [Requests -> Handlers]
  BY <1>1 DEF ElectionStep
<1>3. client' \in [Requests -> {"none", "waiting", "error"} \cup Outcomes]
  BY DEF ElectionStep, TypeInv, ServiceTypeOK
<1>4. waiting' \in [Requests -> SUBSET Nodes]
  BY DEF ElectionStep, TypeInv, ServiceTypeOK
<1>5. rows' \in [Requests -> {"none", "STARTED", "COMMIT", "ABORT"}]
  BY DEF ElectionStep, TypeInv, ServiceTypeOK
<1> QED
  BY <1>1, <1>2, <1>3, <1>4, <1>5 DEF ServiceTypeOK, Handlers, Placed

LEMMA RequestKeepsElection ==
  ASSUME NEW r \in Requests, RequestStep(r)
  PROVE  UNCHANGED vars
BY DEF RequestStep, HandlerStep, Post, CheckLeader, LookUpLeader, LookUpFails,
       Forward, ForwardFails, ForwardTimesOut, Refuse, Begin, Decide, Answer,
       ExecutionRaises

LEMMA NextTypeInv == TypeInv /\ [ServiceNext]_allVars => TypeInv'
<1> SUFFICES ASSUME TypeInv, [ServiceNext]_allVars PROVE TypeInv'
  OBVIOUS
<1>1. CASE ElectionStep
  BY <1>1, ElectionTypes, NextTypeOK DEF ElectionStep, TypeInv
<1>2. ASSUME NEW r \in Requests, RequestStep(r) PROVE TypeInv'
  <2>1. TypeOK'
    BY <1>2, RequestKeepsElection DEF TypeInv, TypeOK, vars, key, process
  <2> QED
    BY <1>2, <2>1, RequestTypes DEF TypeInv
<1>3. CASE UNCHANGED allVars
  BY <1>3 DEF allVars, serviceVars, vars, key, process, TypeInv, TypeOK, ServiceTypeOK
<1> QED
  BY <1>1, <1>2, <1>3 DEF ServiceNext, RequestStep

LEMMA TypeInvariant == ServiceSpec => []TypeInv
BY InitTypeInv, NextTypeInv, PTL DEF ServiceSpec

(* Requests, forwarding and the table keep their types under every fault:  *)
(* no request is handled or forwarded without a node that does so.         *)
THEOREM ServiceTypeCorrect == ServiceSpec => []ServiceTypeOK
<1>1. TypeInv => ServiceTypeOK
  BY DEF TypeInv
<1> QED
  BY <1>1, TypeInvariant, PTL

-----------------------------------------------------------------------------
(* What a client was told is in the table, whatever fails: its thread has  *)
(* saved the outcome before it answers, and nobody else writes the row.    *)
Stored(row, outcome) ==
  row = Status[outcome] \/ (StoreFails /\ row \in {"none", "STARTED"})

(* A request whose handler is h, with answer c and status row. *)
Consistent(h, c, row) ==
  /\ h.pc \in Outcomes => Stored(row, h.pc)
  /\ c \in Outcomes => Stored(row, c) /\ h.pc = "done"
  /\ h.pc \notin Outcomes \cup {"done"} => row \in {"none", "STARTED"}
  /\ c = "none" => h.pc = "idle"

AnswerInv == \A r \in Requests : Consistent(handler[r], client[r], rows[r])

LEMMA InitAnswerInv == ServiceInit => AnswerInv
BY DEF ServiceInit, AnswerInv, Consistent, Outcomes

(* A step of q changes nothing of another request. *)
LEMMA RequestKeepsOthers ==
  ASSUME TypeInv, NEW q \in Requests, RequestStep(q), NEW r \in Requests, r # q
  PROVE  /\ handler'[r] = handler[r]
         /\ client'[r] = client[r] /\ rows'[r] = rows[r]
BY DEF TypeInv, ServiceTypeOK, RequestStep, HandlerStep, Post, Handle, CheckLeader,
       Step, Return, LookUpLeader, LookUpFails, Forward, ForwardFails,
       ForwardTimesOut, Refuse, Begin, Save, Decide, Answer, ExecutionRaises

LEMMA ReturnAnswers ==
  ASSUME TypeInv, AnswerInv, NEW r \in Requests, NEW s \in {"error"} \cup Outcomes,
         s \in Outcomes => Stored(rows[r], s),
         handler[r].pc \in Working, Return(r, s), rows' = rows
  PROVE  Consistent(handler'[r], client'[r], rows'[r])
<1>1. handler'[r].pc = "done"
  BY DEF Return, Step, TypeInv, ServiceTypeOK
<1>2. client'[r] = (IF client[r] = "waiting" THEN s ELSE client[r])
  BY DEF Return, TypeInv, ServiceTypeOK
<1>3. client[r] # "none" /\ (client[r] \in Outcomes => Stored(rows[r], client[r]))
  BY DEF AnswerInv, Consistent, Working, Executing, Outcomes
<1> QED
  BY <1>1, <1>2, <1>3 DEF Consistent, Outcomes

(* A thread on its way, or at work, has not yet answered. *)
LEMMA MoveAnswers ==
  ASSUME TypeInv, AnswerInv, NEW r \in Requests,
         NEW l \in {"check", "lookup", "forward", "begin", "execute"},
         handler[r].pc \in {"check", "lookup", "forward", "begin"},
         handler'[r].pc = l, client' = client, rows'[r] \in {"STARTED", rows[r]}
  PROVE  Consistent(handler'[r], client'[r], rows'[r])
BY DEF AnswerInv, Consistent, Outcomes

LEMMA NextAnswerInv == TypeInv /\ AnswerInv /\ [ServiceNext]_allVars => AnswerInv'
<1> SUFFICES ASSUME TypeInv, AnswerInv, [ServiceNext]_allVars, NEW r \in Requests
             PROVE  Consistent(handler'[r], client'[r], rows'[r])
  BY DEF AnswerInv
<1>r. Consistent(handler[r], client[r], rows[r])
  BY DEF AnswerInv
<1>w. /\ {"check", "lookup", "forward", "begin", "execute", "committed", "aborted"}
            = Working
      /\ Outcomes = {"committed", "aborted"}
  BY DEF Working, Executing, Outcomes
<1>d. /\ handler \in [Requests -> Handlers]
      /\ client \in [Requests -> {"none", "waiting", "error"} \cup Outcomes]
      /\ rows \in [Requests -> {"none", "STARTED", "COMMIT", "ABORT"}]
  BY DEF TypeInv, ServiceTypeOK, Handlers
<1>1. CASE ElectionStep
  <2>1. /\ handler'[r].pc \in {handler[r].pc, "done"}
        /\ handler[r].pc \in {"idle", "done"} => handler'[r].pc = handler[r].pc
    BY <1>1, <1>w DEF ElectionStep, TypeInv, ServiceTypeOK
  <2>2. /\ client'[r] \in {client[r], "error"} /\ rows'[r] = rows[r]
    BY <1>1 DEF ElectionStep
  <2> QED
    BY <1>r, <1>w, <2>1, <2>2 DEF Consistent
<1>2. ASSUME NEW q \in Requests, RequestStep(q), q # r
      PROVE  Consistent(handler'[r], client'[r], rows'[r])
  BY <1>2, <1>r, RequestKeepsOthers
<1>3. ASSUME RequestStep(r) PROVE Consistent(handler'[r], client'[r], rows'[r])
  <2>1. ASSUME NEW n \in Nodes, Post(r, n)
        PROVE  Consistent(handler'[r], client'[r], rows'[r])
    <3>1. handler'[r].pc = "check" /\ client'[r] = "waiting"
      BY <2>1, <1>d DEF Post, Handle
    <3>2. rows'[r] \in {"none", "STARTED"}
      BY <2>1, <1>r, <1>w DEF Post, Consistent
    <3> QED
      BY <3>1, <3>2, <1>w DEF Consistent
  <2>2. CASE CheckLeader(r)
    <3>1. handler'[r].pc \in {"begin", "lookup"}
      BY <2>2, <1>d DEF CheckLeader, Step, Handlers
    <3> QED
      BY <2>2, <3>1, MoveAnswers DEF CheckLeader
  <2>3. CASE LookUpLeader(r)
    <3>1. CASE connected[handler[r].at] /\ holder # Nobody
      <4>1. handler'[r].pc = "forward"
        BY <2>3, <3>1, <1>d DEF LookUpLeader, Handlers
      <4> QED
        BY <2>3, <3>1, <4>1, MoveAnswers DEF LookUpLeader
    <3>2. CASE ~(connected[handler[r].at] /\ holder # Nobody)
      BY <2>3, <3>2, <1>w, ReturnAnswers DEF LookUpLeader
    <3> QED
      BY <3>1, <3>2
  <2>4. CASE LookUpFails(r)
    BY <2>4, <1>w, ReturnAnswers DEF LookUpFails
  <2>5. CASE Forward(r)
    <3>1. handler'[r].pc = "check"
      BY <2>5, <1>d DEF Forward, Handle
    <3> QED
      BY <2>5, <3>1, MoveAnswers DEF Forward
  <2>6. CASE ForwardFails(r)
    BY <2>6, <1>w, ReturnAnswers DEF ForwardFails
  <2>7. CASE ForwardTimesOut(r)
    <3>1. client[r] = "waiting" /\ client'[r] = "error"
      BY <2>7, <1>d DEF ForwardTimesOut
    <3> QED
      BY <2>7, <3>1, <1>r, <1>w DEF ForwardTimesOut, Consistent
  <2>8. CASE Begin(r)
    <3>1. handler'[r].pc = "execute"
      BY <2>8, <1>d DEF Begin, Step, Handlers
    <3>2. rows'[r] \in {"STARTED", rows[r]}
      BY <2>8, <1>d DEF Begin, Save
    <3> QED
      BY <2>8, <3>1, <3>2, MoveAnswers DEF Begin
  <2>9. ASSUME NEW o \in Outcomes, Decide(r, o)
        PROVE  Consistent(handler'[r], client'[r], rows'[r])
    <3>1. handler'[r].pc = o
      BY <2>9, <1>d DEF Decide, Step, Handlers
    <3>2. rows'[r] = Status[o] \/ (StoreFails /\ rows'[r] = rows[r])
      BY <2>9, <1>d DEF Decide, Save
    <3>3. rows[r] \in {"none", "STARTED"} /\ client[r] \notin Outcomes \cup {"none"}
      BY <2>9, <1>r, <1>w DEF Decide, Consistent
    <3>4. Stored(rows'[r], o)
      BY <3>2, <3>3 DEF Stored
    <3> QED
      BY <2>9, <3>1, <3>3, <3>4, <1>w DEF Decide, Consistent
  <2>10. CASE Answer(r)
    <3>1. Stored(rows[r], handler[r].pc)
      BY <2>10, <1>r DEF Answer, Consistent
    <3> QED
      BY <2>10, <3>1, <1>w, ReturnAnswers DEF Answer
  <2>11. CASE ExecutionRaises(r)
    <3>1. handler[r].pc \in Working
      BY <2>11 DEF ExecutionRaises, Working
    <3> QED
      BY <2>11, <3>1, <1>w, ReturnAnswers DEF ExecutionRaises
  <2>12. CASE Refuse(r)
    BY <2>12, <1>w, ReturnAnswers DEF Refuse
  <2> QED
    BY <1>3, <2>1, <2>2, <2>3, <2>4, <2>5, <2>6, <2>7, <2>8, <2>9, <2>10, <2>11, <2>12
       DEF RequestStep, HandlerStep
<1>4. CASE UNCHANGED allVars
  BY <1>4, <1>r DEF allVars, serviceVars
<1> QED
  BY <1>1, <1>2, <1>3, <1>4 DEF ServiceNext, RequestStep

(* Whatever fails, what a client was told is what the table says of its    *)
(* transaction.                                                            *)
THEOREM AnswersStored == ServiceSpec => []AnswerStored
<1>1. AnswerInv => AnswerStored
  BY DEF AnswerInv, Consistent, AnswerStored, Recorded, Stored
<1>2. ServiceSpec => []AnswerInv
  BY InitAnswerInv, NextAnswerInv, TypeInvariant, PTL DEF ServiceSpec
<1> QED
  BY <1>1, <1>2, PTL

-----------------------------------------------------------------------------
(* One executor, under the faults of OneLeader: a transaction under way is *)
(* at the holder of the key, and the key outlives it.                      *)
ExecInv ==
  \A r \in Requests : handler[r].pc \in Executing =>
    up[handler[r].at] /\ holder = handler[r].at

LEMMA InitExecInv == ServiceInit => ExecInv
BY DEF ServiceInit, ExecInv, Executing, Outcomes

(* The key stays with a holder that runs. *)
LEMMA HolderStays ==
  ASSUME Faults \subseteq {"crash"}, TypeOK, LeaderInv, Next,
         holder \in Nodes, up[holder]
  PROVE  holder' = holder
<1>1. Renewed(holder) /\ holder # Nobody
  BY NobodyAssumption DEF LeaderInv, NodeInv
<1>2. "late" \notin Faults
  OBVIOUS
<1>3. ~Expire
  BY <1>1, <1>2 DEF Expire
<1>4. \A n \in Nodes : ~EtcdError(n)
  BY DEF EtcdError, ReadFails, RefreshFails, GrantFails, PutFails, EtcdRaises
<1>5. ASSUME NEW n \in Nodes, NEW t \in Threads, TryBecomeLeader(n, t)
      PROVE  holder' = holder
  BY <1>1, <1>5 DEF TryBecomeLeader, Unavailable, GrantLease, PutKey, SetFlag,
                    StartHeartbeat, key
<1>6. ASSUME NEW n \in Nodes, MonitorStep(n) \/ HeartbeatStep(n)
      PROVE  holder' = holder
  BY <1>5, <1>6 DEF MonitorStep, HeartbeatStep, ReadLeader, ConfirmLeader,
                    HandleLeaseLoss, Threads, key
<1>7. ASSUME NEW n \in Nodes, Crash(n) \/ Restart(n) PROVE holder' = holder
  BY <1>7 DEF Crash, Restart, key
<1> QED
  BY <1>3, <1>4, <1>6, <1>7 DEF Next

LEMMA NextExecInv ==
  ASSUME Faults \subseteq {"crash"}
  PROVE  TypeInv /\ LeaderInv /\ ExecInv /\ [ServiceNext]_allVars => ExecInv'
<1> SUFFICES ASSUME TypeInv, LeaderInv, ExecInv, [ServiceNext]_allVars,
                    NEW r \in Requests, handler'[r].pc \in Executing
             PROVE  up'[handler'[r].at] /\ holder' = handler'[r].at
  BY DEF ExecInv
<1>r. handler[r].pc \in Executing => up[handler[r].at] /\ holder = handler[r].at
  BY DEF ExecInv
<1>w. /\ Working = {"check", "lookup", "forward"} \cup Executing
      /\ Executing = {"begin", "execute", "committed", "aborted"}
      /\ Outcomes = {"committed", "aborted"}
  BY DEF Working, Executing, Outcomes
<1>d. handler \in [Requests -> Handlers]
  BY DEF TypeInv, ServiceTypeOK, Handlers
<1>1. CASE ElectionStep
  <2>1. handler'[r] = handler[r] /\ up'[handler[r].at]
    <3>1. \/ handler'[r] = [handler[r] EXCEPT !.pc = "done"]
          \/ handler'[r] = handler[r] /\ ~(handler[r].pc \in Working /\ ~up'[handler[r].at])
      BY <1>1 DEF ElectionStep
    <3>2. [handler[r] EXCEPT !.pc = "done"].pc = "done"
      BY <1>d DEF Handlers
    <3> QED
      BY <3>1, <3>2, <1>w
  <2>2. handler[r].at \in Nodes /\ holder = handler[r].at /\ up[holder]
    BY <2>1, <1>r, <1>w DEF TypeInv, ServiceTypeOK
  <2>3. holder' = holder
    BY <1>1, <2>2, HolderStays DEF ElectionStep, TypeInv
  <2> QED
    BY <2>1, <2>2, <2>3
<1>2. ASSUME NEW q \in Requests, RequestStep(q)
      PROVE  up'[handler'[r].at] /\ holder' = handler'[r].at
  <2>1. up' = up /\ holder' = holder
    BY <1>2, RequestKeepsElection DEF vars, key, process
  <2>2. CASE q # r
    BY <1>2, <1>r, <2>1, <2>2, RequestKeepsOthers
  <2>3. CASE q = r /\ CheckLeader(r)
    <3>1. /\ handler[r].pc = "check"
          /\ handler'[r].pc = (IF isLeader[handler[r].at] THEN "begin" ELSE "lookup")
          /\ handler'[r].at = handler[r].at
      BY <2>3, <1>d DEF CheckLeader, Step, Handlers
    <3>2. isLeader[handler[r].at] /\ handler[r].at \in Nodes
      BY <3>1, <1>w DEF TypeInv, ServiceTypeOK
    <3>3. up[handler[r].at] /\ holder = handler[r].at
      BY <3>2 DEF LeaderInv, NodeInv, Leading
    <3> QED
      BY <2>1, <3>1, <3>3
  <2>4. CASE q = r /\ ~CheckLeader(r)
    <3>1. handler[r].pc \in Executing /\ handler'[r].at = handler[r].at
      BY <1>2, <1>d, <1>w, <2>4
         DEF RequestStep, HandlerStep, Post, Handle, Step, Return, LookUpLeader,
             LookUpFails, Forward, ForwardFails, ForwardTimesOut, Refuse, Begin, Decide,
             Answer, ExecutionRaises, Handlers
    <3> QED
      BY <2>1, <3>1, <1>r
  <2> QED
    BY <2>2, <2>3, <2>4
<1>3. CASE UNCHANGED allVars
  BY <1>3, <1>r DEF allVars, serviceVars, vars, key, process
<1> QED
  BY <1>1, <1>2, <1>3 DEF ServiceNext, RequestStep

LEMMA ElectionRefined == ServiceSpec => Spec
<1>1. ServiceInit => Init
  BY DEF ServiceInit
<1>2. [ServiceNext]_allVars => [Next]_vars
  BY RequestKeepsElection DEF ServiceNext, RequestStep, ElectionStep, allVars
<1> QED
  BY <1>1, <1>2, PTL DEF ServiceSpec, Spec

(* With crashes and restarts that wait for the expiry of the key, all      *)
(* transactions under way at any moment are at one coordinator, from its   *)
(* look at the flag to its answer.                                         *)
THEOREM OneExecutes ==
  ASSUME Faults \subseteq {"crash"}
  PROVE  ServiceSpec => []OneExecutor
<1>1. ExecInv => OneExecutor
  BY DEF ExecInv, OneExecutor
<1>2. ServiceSpec => []LeaderInv
  BY ElectionRefined, LeaderInvariant, PTL
<1>3. TypeInv /\ LeaderInv /\ ExecInv /\ [ServiceNext]_allVars => ExecInv'
  BY NextExecInv
<1>4. ServiceSpec => []ExecInv
  BY InitExecInv, <1>2, <1>3, TypeInvariant, PTL DEF ServiceSpec
<1> QED
  BY <1>1, <1>4, PTL
=============================================================================
