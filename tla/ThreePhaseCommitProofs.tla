----------------------- MODULE ThreePhaseCommitProofs -----------------------
(***************************************************************************)
(* Theorems about ThreePhaseCommit for every list of participants, every   *)
(* peer configuration, every set of faults and any number of crashes.      *)
(***************************************************************************)
EXTENDS ThreePhaseCommit, TLAPS

(* A position of the request's list names a participant. *)
LEMMA UrlsType ==
  /\ Called \subseteq Participants
  /\ \A k \in Positions : Urls[k] \in Called /\ Urls[k] \in Participants
BY UrlsAssumption DEF Positions, Called

(* The state machines of the two sides only know their own states. *)
LEMMA TargetType == \A m \in Msgs : Target[m] \in States
BY DEF Target, Msgs, States

LEMMA MoveType ==
  \A s \in MaybeStates : ValidTransitions[s] \subseteq States
BY DEF ValidTransitions, MaybeStates, States

LEMMA DecisionType == \A ans : Decision(ans) \in {"COMMIT", "ABORT", "UNKNOWN"}
BY DEF Decision

(* Changing one value of a function keeps its type. *)
LEMMA FunUpdate ==
  ASSUME NEW S, NEW T, NEW f \in [S -> T], NEW x \in S, NEW y \in T
  PROVE  [f EXCEPT ![x] = y] \in [S -> T]
OBVIOUS

(* A run of recovery that ends leaves an idle record. *)
LEMMA IdleType == \A p \in Participants : RecOK(p, Idle(p))
BY DEF RecOK, Idle, NoAnswers

-----------------------------------------------------------------------------
(* Type correctness, one lemma for the steps of each actor. *)

LEMMA TypeInit == Init => TypeOK
<1> SUFFICES ASSUME Init PROVE TypeOK
  OBVIOUS
<1>1. \A p \in Participants : RecOK(p, rec[p])
  BY IdleType DEF Init
<1>2. history \in Seq(States \cup {"WAIT"})
  BY DEF Init, States
<1> QED
  BY <1>1, <1>2, MaxCrashesAssumption
     DEF Init, TypeOK, Msgs, CallStates, Replies, MaybeStates, States

(* What the coordinator's steps change. *)
LEMMA TypeTransitionTo ==
  ASSUME history \in Seq(States \cup {"WAIT"}), NEW s \in States, TransitionTo(s)
  PROVE  history' \in Seq(States \cup {"WAIT"})
BY DEF TransitionTo

LEMMA TypeCoordinator ==
  ASSUME TypeOK, CoordinatorStep
  PROVE  TypeOK'
<1> USE DEF TypeOK, coordVars, partVars, recVars
<1> call \in [Msgs -> [Positions -> CallStates]]
  OBVIOUS
<1>rec. UNCHANGED <<mem, db, active, up, crashes, rec, report>> =>
          /\ mem' \in [Participants -> MaybeStates]
          /\ db' \in [Participants -> MaybeStates]
          /\ active' \in [Participants -> BOOLEAN]
          /\ up' \in [Participants -> BOOLEAN]
          /\ crashes' \in 0..MaxCrashes
          /\ (rec = [p \in Participants |-> rec[p]])'
          /\ (\A p \in Participants : RecOK(p, rec[p]))'
          /\ report' \in [Participants -> {"none", "COMMIT", "ABORT", "UNKNOWN"}]
  BY DEF RecOK
<1>1. CASE Send
  <2>1. call' \in [Msgs -> [Positions -> CallStates]]
    BY <1>1 DEF Send, CallStates
  <2> QED BY <1>1, <2>1, <1>rec DEF Send
<1>2. ASSUME NEW res \in Replies \cup {"exception"}, InitReturns(res)
      PROVE  TypeOK'
  <2>1. /\ phase' \in Msgs \cup {"END"} /\ next' \in Nat \ {0}
        /\ row' \in {"none", "STARTED", "COMMIT", "ABORT"}
        /\ answer' \in {"none", "committed", "aborted", "error"}
    BY <1>2 DEF InitReturns, Advance, Msgs, SaveTransaction, EndRequest,
       StoreRaises
  <2> QED BY <1>2, <2>1, <1>rec DEF InitReturns
<1>3. ASSUME NEW res \in Replies \cup {"exception"}, VoteReturns(res)
      PROVE  TypeOK'
  <2>1. votes' \in [Called -> {"none", "YES", "NO"}]
    BY <1>3 DEF VoteReturns
  <2> QED BY <1>3, <2>1, <1>rec DEF VoteReturns, Advance
<1>4. ASSUME NEW res \in Replies \cup {"exception"}, AckReturns(res)
      PROVE  TypeOK'
  <2>1. acks' \in [Called -> {"none", "ACK", "FAIL"}]
    BY <1>4 DEF AckReturns
  <2> QED BY <1>4, <2>1, <1>rec DEF AckReturns, Advance
<1>5. ASSUME NEW res \in Replies \cup {"exception"}, DecisionReturns(res)
      PROVE  TypeOK'
  BY <1>5, <1>rec DEF DecisionReturns, Advance
<1>6. CASE AllInitialized
  BY <1>6, <1>rec DEF AllInitialized, Enter, Msgs
<1>7. CASE CountVotes
  <2>1. history' \in Seq(States \cup {"WAIT"})
    BY <1>7, TypeTransitionTo DEF CountVotes, States
  <2>2. /\ phase' \in Msgs \cup {"END"} /\ next' \in Nat \ {0}
        /\ answer' \in {"none", "committed", "aborted", "error"}
    BY <1>7 DEF CountVotes, Enter, Msgs, EndRequest, StoreRaises
  <2> QED BY <1>7, <2>1, <2>2, <1>rec DEF CountVotes
<1>8. CASE CountAcks
  <2>1. history' \in Seq(States \cup {"WAIT"})
    BY <1>8, TypeTransitionTo DEF CountAcks, States
  <2>2. /\ phase' \in Msgs \cup {"END"} /\ next' \in Nat \ {0}
        /\ answer' \in {"none", "committed", "aborted", "error"}
    BY <1>8 DEF CountAcks, Enter, Msgs, EndRequest, StoreRaises
  <2> QED BY <1>8, <2>1, <2>2, <1>rec DEF CountAcks
<1>9. CASE Finish
  <2>1. /\ phase' = "END" /\ next' = next
        /\ row' \in {"none", "STARTED", "COMMIT", "ABORT"}
        /\ answer' \in {"none", "committed", "aborted", "error"}
    BY <1>9 DEF Finish, SaveTransaction, EndRequest, StoreRaises
  <2> QED BY <1>9, <2>1, <1>rec DEF Finish
<1>10. CASE StartFails
  BY <1>10, <1>rec DEF StartFails, StoreRaises, EndRequest
<1> QED
  BY <1>1, <1>2, <1>3, <1>4, <1>5, <1>6, <1>7, <1>8, <1>9, <1>10
     DEF CoordinatorStep

(* A request that fails, a coordinator that crashes. *)
LEMMA TypeNetwork ==
  ASSUME TypeOK,
         \/ CrashCoordinator
         \/ \E m \in Msgs, k \in Positions : LoseCall(m, k) \/ SaveFails(m, k)
  PROVE  TypeOK'
<1> USE DEF TypeOK, coordVars, partVars, recVars, RecOK
<1>1. CASE CrashCoordinator
  BY <1>1 DEF CrashCoordinator
<1>2. ASSUME NEW m \in Msgs, NEW k \in Positions, LoseCall(m, k)
      PROVE  TypeOK'
  BY <1>2 DEF LoseCall, CallStates
<1>3. ASSUME NEW m \in Msgs, NEW k \in Positions, SaveFails(m, k)
      PROVE  TypeOK'
  BY <1>3 DEF SaveFails, SetCall, CallStates
<1> QED
  BY <1>1, <1>2, <1>3

(* The request threads. *)
LEMMA TypeHandler ==
  ASSUME TypeOK, NEW m \in Msgs, NEW k \in Positions, HandlerStep(m, k)
  PROVE  TypeOK'
<1> DEFINE p == Urls[k]
<1> USE DEF TypeOK, coordVars, recVars, RecOK
<1>u. p \in Participants
  BY UrlsType
<1>c. \A s \in CallStates : SetCall(m, k, s) =>
        call' \in [Msgs -> [Positions -> CallStates]]
  BY DEF SetCall
<1>a. StopClockIfFinal(p) => active' \in [Participants -> BOOLEAN]
  BY <1>u DEF StopClockIfFinal
<1>1. CASE m = "INIT_TXN" /\ InitTransaction(k)
  <2>1. mem' \in [Participants -> MaybeStates]
    <3>1. mem' \in {mem, [mem EXCEPT ![p] = "INIT"]}
      BY <1>1 DEF InitTransaction
    <3>2. "INIT" \in MaybeStates /\ mem \in [Participants -> MaybeStates]
      BY DEF MaybeStates, States
    <3> HIDE DEF p, TypeOK, RecOK
    <3> QED BY <3>1, <3>2, <1>u, FunUpdate
  <2>2. call' \in [Msgs -> [Positions -> CallStates]]
    BY <1>1, <1>c DEF InitTransaction, CallStates, Handling, Replies
  <2>3. active' \in [Participants -> BOOLEAN]
    <3>1. active' \in {active, [active EXCEPT ![p] = TRUE]}
      BY <1>1 DEF InitTransaction
    <3> QED BY <3>1, <1>u
  <2> QED BY <1>1, <2>1, <2>2, <2>3 DEF InitTransaction
<1>2. CASE ReceiveUnknown(m, k)
  <2>1. call' \in [Msgs -> [Positions -> CallStates]]
    BY <1>2, <1>c DEF ReceiveUnknown, CallStates, Replies
  <2> QED BY <1>2, <2>1 DEF ReceiveUnknown, partVars
<1>3. CASE ReceiveValid(m, k)
  <2>1. mem' \in [Participants -> MaybeStates]
    BY <1>3, <1>u, TargetType DEF ReceiveValid, MaybeStates
  <2>2. call' \in [Msgs -> [Positions -> CallStates]]
    BY <1>3, <1>c DEF ReceiveValid, CallStates, Handling
  <2> QED BY <1>3, <2>1, <2>2 DEF ReceiveValid
<1>4. CASE ReceiveInvalid(m, k)
  <2>1. call' \in [Msgs -> [Positions -> CallStates]]
    BY <1>4, <1>c DEF ReceiveInvalid, CallStates, Handling, Replies
  <2>2. active' \in [Participants -> BOOLEAN]
    BY <1>4, <1>a DEF ReceiveInvalid
  <2> QED BY <1>4, <2>1, <2>2 DEF ReceiveInvalid
<1>5. CASE m = "CAN_COMMIT" /\ RefuseVote(k)
  <2>1. mem' \in [Participants -> MaybeStates]
    <3>1. mem' \in {mem, [mem EXCEPT ![p] = "ABORT"]}
      BY <1>5 DEF RefuseVote
    <3>2. "ABORT" \in MaybeStates /\ mem \in [Participants -> MaybeStates]
      BY DEF MaybeStates, States
    <3> HIDE DEF p, TypeOK, RecOK
    <3> QED BY <3>1, <3>2, <1>u, FunUpdate
  <2>2. call' \in [Msgs -> [Positions -> CallStates]]
    BY <1>5, <1>c DEF RefuseVote, CallStates, Handling, Replies
  <2>3. active' \in [Participants -> BOOLEAN]
    BY <1>5, <1>a DEF RefuseVote
  <2> QED BY <1>5, <2>1, <2>2, <2>3 DEF RefuseVote
<1>6. CASE SaveAndAnswer(m, k)
  <2>1. db' \in [Participants -> MaybeStates]
    <3>1. db' \in {[db EXCEPT ![p] = Target[m]], [db EXCEPT ![p] = "ABORT"]}
      BY <1>6 DEF SaveAndAnswer
    <3>2. Target[m] \in MaybeStates /\ "ABORT" \in MaybeStates
      BY TargetType DEF MaybeStates, States
    <3>3. db \in [Participants -> MaybeStates]
      OBVIOUS
    <3> HIDE DEF p, TypeOK, RecOK
    <3> QED BY <3>1, <3>2, <3>3, <1>u, FunUpdate
  <2>2. call' \in [Msgs -> [Positions -> CallStates]]
    BY <1>6, <1>c DEF SaveAndAnswer, Answer, CallStates, Replies
  <2>3. active' \in [Participants -> BOOLEAN]
    <3>1. active' = [active EXCEPT ![p] = TRUE] \/ StopClockIfFinal(p)
      BY <1>6 DEF SaveAndAnswer
    <3> QED BY <3>1, <1>a, <1>u
  <2> QED BY <1>6, <2>1, <2>2, <2>3 DEF SaveAndAnswer
<1> QED
  BY <1>1, <1>2, <1>3, <1>4, <1>5, <1>6 DEF HandlerStep

(* A step that writes one record of rec keeps the type of all of them. *)
LEMMA RecUpdate ==
  ASSUME TypeOK, NEW p \in Participants, NEW r, RecOK(p, r),
         rec' = [rec EXCEPT ![p] = r]
  PROVE  /\ rec' = [q \in Participants |-> rec'[q]]
         /\ \A q \in Participants : RecOK(q, rec'[q])
BY DEF TypeOK

LEMMA ConcludeType ==
  ASSUME TypeOK, NEW p \in Participants,
         NEW res \in {"COMMIT", "ABORT", "UNKNOWN"}, Conclude(p, res)
  PROVE  /\ rec' = [q \in Participants |-> rec'[q]]
         /\ \A q \in Participants : RecOK(q, rec'[q])
         /\ report' \in [Participants -> {"none", "COMMIT", "ABORT", "UNKNOWN"}]
<1>1. RecOK(p, Idle(p)) /\ rec' = [rec EXCEPT ![p] = Idle(p)]
  BY IdleType DEF Conclude
<1>2. report' = [report EXCEPT ![p] = res]
  BY DEF Conclude
<1>3. report \in [Participants -> {"none", "COMMIT", "ABORT", "UNKNOWN"}]
  BY DEF TypeOK
<1> QED
  BY <1>1, <1>2, <1>3, RecUpdate

LEMMA ResolveType ==
  ASSUME TypeOK, NEW p \in Participants, NEW to \in Final, Resolve(p, to)
  PROVE  /\ mem' \in [Participants -> MaybeStates]
         /\ rec' = [q \in Participants |-> rec'[q]]
         /\ \A q \in Participants : RecOK(q, rec'[q])
         /\ report' \in [Participants -> {"none", "COMMIT", "ABORT", "UNKNOWN"}]
<1>1. CASE CanMove(p, to)
  <2> DEFINE r == [rec[p] EXCEPT !.pc = "save", !.to = to, !.ans = NoAnswers(p)]
  <2>1. RecOK(p, r)
    <3>1. RecOK(p, rec[p])
      BY DEF TypeOK
    <3>2. NoAnswers(p) \in [Peers[p] -> PeerAnswers \cup {"none"}]
      BY DEF NoAnswers
    <3> QED BY <3>1, <3>2 DEF RecOK, Final
  <2>2. rec' = [rec EXCEPT ![p] = r]
    BY <1>1 DEF Resolve, TypeOK
  <2>3. mem' \in [Participants -> MaybeStates]
    BY <1>1 DEF Resolve, TypeOK, Final, MaybeStates, States
  <2> QED BY <1>1, <2>1, <2>2, <2>3, RecUpdate DEF Resolve, TypeOK
<1>2. CASE ~CanMove(p, to)
  BY <1>2, ConcludeType DEF Resolve, Final, TypeOK
<1> QED
  BY <1>1, <1>2

LEMMA AttemptType ==
  ASSUME TypeOK, NEW p \in Participants, NEW who \in {"monitor", "manual"},
         AttemptRecovery(p, who)
  PROVE  /\ rec' = [q \in Participants |-> rec'[q]]
         /\ \A q \in Participants : RecOK(q, rec'[q])
<1> DEFINE r == [rec[p] EXCEPT !.pc = "read", !.by = who]
<1>1. RecOK(p, r)
  <2>1. RecOK(p, rec[p])
    BY DEF TypeOK
  <2> QED BY <2>1 DEF RecOK
<1>2. rec' = [rec EXCEPT ![p] = r] \/ rec' = rec
  BY DEF AttemptRecovery, TypeOK
<1> QED
  BY <1>1, <1>2, RecUpdate DEF TypeOK

(* The threads that recover. *)
LEMMA TypeRecovery ==
  ASSUME TypeOK, NEW p \in Participants,
         \/ MonitorTimeout(p) \/ TriggerRecovery(p)
         \/ RecoveryStep(p) \/ ResolutionFails(p)
  PROVE  TypeOK'
<1> USE DEF TypeOK, coordVars, partVars
<1>r. RecOK(p, rec[p])
  OBVIOUS
<1>1. CASE MonitorTimeout(p)
  <2>1. active' \in [Participants -> BOOLEAN]
    BY <1>1, FunUpdate DEF MonitorTimeout
  <2> QED BY <1>1, <2>1, AttemptType DEF MonitorTimeout
<1>2. CASE TriggerRecovery(p)
  BY <1>2, AttemptType DEF TriggerRecovery
<1>3. CASE ReadState(p)
  <2>1. CASE Conclude(p, "UNKNOWN")
    BY <1>3, <2>1, ConcludeType DEF ReadState
  <2>2. ASSUME NEW pc \in {"query", "abort"}, UNCHANGED report,
               rec' = [rec EXCEPT ![p].pc = pc]
        PROVE  TypeOK'
    <3> DEFINE r == [rec[p] EXCEPT !.pc = pc]
    <3>1. RecOK(p, r)
      BY <1>r DEF RecOK
    <3>2. rec' = [rec EXCEPT ![p] = r]
      BY <2>2
    <3> QED BY <1>3, <2>2, <3>1, <3>2, RecUpdate DEF ReadState
  <2> QED BY <1>3, <2>1, <2>2 DEF ReadState
<1>4. CASE AbortPending(p)
  BY <1>4, ResolveType DEF AbortPending, Final
<1>5. CASE MakeDecision(p)
  <2> DEFINE d == Decision(rec[p].ans)
  <2>1. CASE d = "UNKNOWN"
    BY <1>5, <2>1, ConcludeType DEF MakeDecision
  <2>2. CASE d # "UNKNOWN"
    <3>1. d \in Final /\ Resolve(p, d)
      BY <1>5, <2>2, DecisionType DEF MakeDecision, Final
    <3> QED BY <1>5, <3>1, ResolveType DEF MakeDecision
  <2> QED BY <2>1, <2>2
<1>6. CASE SaveResolution(p)
  <2>1. rec[p].to \in Final
    BY <1>6, <1>r DEF SaveResolution, RecOK
  <2>2. db' \in [Participants -> MaybeStates]
    BY <1>6, <2>1, FunUpdate DEF SaveResolution, MaybeStates, States, Final
  <2> QED BY <1>6, <2>1, <2>2, ConcludeType DEF SaveResolution, Final
<1>7. ASSUME NEW q \in Peers[p], QueryPeer(p, q) PROVE TypeOK'
  <2>1. PICK a \in PeerAnswers : rec' = [rec EXCEPT ![p].ans[q] = a]
    BY <1>7 DEF QueryPeer
  <2> DEFINE r == [rec[p] EXCEPT !.ans = [rec[p].ans EXCEPT ![q] = a]]
  <2>2. RecOK(p, r)
    BY <1>r DEF RecOK
  <2>3. rec' = [rec EXCEPT ![p] = r]
    BY <2>1
  <2> QED BY <1>7, <2>2, <2>3, RecUpdate DEF QueryPeer
<1>8. CASE ResolutionFails(p)
  <2>1. rec' = [rec EXCEPT ![p] = Idle(p)]
    BY <1>8 DEF ResolutionFails
  <2> QED BY <1>8, <2>1, IdleType, RecUpdate DEF ResolutionFails
<1> QED
  BY <1>1, <1>2, <1>3, <1>4, <1>5, <1>6, <1>7, <1>8 DEF RecoveryStep

(* A participant that crashes or restarts. *)
LEMMA TypeCrash ==
  ASSUME TypeOK, NEW p \in Participants, CrashParticipant(p) \/ Restart(p)
  PROVE  TypeOK'
<1> USE DEF TypeOK, coordVars, recVars
<1>1. CASE CrashParticipant(p)
  <2>1. /\ up' \in [Participants -> BOOLEAN]
        /\ active' \in [Participants -> BOOLEAN]
    BY <1>1, FunUpdate DEF CrashParticipant
  <2>2. mem' \in [Participants -> MaybeStates]
    BY <1>1, FunUpdate DEF CrashParticipant, MaybeStates
  <2>3. call' \in [Msgs -> [Positions -> CallStates]]
    BY <1>1 DEF CrashParticipant, CallStates
  <2>4. crashes' \in 0..MaxCrashes
    BY <1>1, MaxCrashesAssumption DEF CrashParticipant
  <2>5. report' \in [Participants -> {"none", "COMMIT", "ABORT", "UNKNOWN"}]
    BY <1>1, FunUpdate DEF CrashParticipant
  <2>6. /\ rec' = [q \in Participants |-> rec'[q]]
        /\ \A q \in Participants : RecOK(q, rec'[q])
    BY <1>1, IdleType, RecUpdate DEF CrashParticipant
  <2> QED BY <1>1, <2>1, <2>2, <2>3, <2>4, <2>5, <2>6 DEF CrashParticipant
<1>2. CASE Restart(p)
  <2>1. up' \in [Participants -> BOOLEAN]
    BY <1>2, FunUpdate DEF Restart, Reloaded
  <2>2. mem' \in [Participants -> MaybeStates]
    <3>1. (IF db[p] \in Final THEN "NONE" ELSE db[p]) \in MaybeStates
      BY DEF MaybeStates
    <3> QED BY <1>2, <3>1, FunUpdate DEF Restart, Reloaded
  <2> QED BY <1>2, <2>1, <2>2 DEF Restart, Reloaded, RecOK
<1> QED
  BY <1>1, <1>2

LEMMA TypeStutter == ASSUME TypeOK, UNCHANGED vars PROVE TypeOK'
BY DEF TypeOK, vars, coordVars, partVars, recVars, RecOK

LEMMA TypeNext == ASSUME TypeOK, [Next]_vars PROVE TypeOK'
BY TypeCoordinator, TypeNetwork, TypeHandler, TypeRecovery, TypeCrash,
   TypeStutter DEF Next

(* The model never leaves its types: every state, answer, vote and row the *)
(* code computes is one of those the code knows.                           *)
THEOREM TypeCorrect == Spec => []TypeOK
BY TypeInit, TypeNext, PTL DEF Spec

-----------------------------------------------------------------------------
(* Commit validity.  A commit leaves traces before it is one: the phase,   *)
(* the calls of phases 2 and 3, a resolution under way.  CommitValidity is *)
(* not inductive without them; ValidityInv is.                             *)

NoTrace ==
  /\ phase \notin {"PRE_COMMIT", "DO_COMMIT"}
  /\ \A k \in Positions :
       call["PRE_COMMIT"][k] = "none" /\ call["DO_COMMIT"][k] = "none"
  /\ \A p \in Participants :
       /\ mem[p] \notin {"PRE_COMMIT", "COMMIT"}
       /\ db[p] \notin {"PRE_COMMIT", "COMMIT"}
       /\ rec[p].to # "COMMIT"

ValidityInv == PastVoting \/ NoTrace

(* The votes are counted once: nothing changes them afterwards.            *)
LEMMA PastVotingStable == ASSUME PastVoting, [Next]_vars PROVE PastVoting'
<1> USE DEF PastVoting, AllYes, coordVars
<1>1. CASE CoordinatorStep
  BY <1>1 DEF CoordinatorStep, StartFails, Send, InitReturns, VoteReturns,
     AckReturns, DecisionReturns, AllInitialized, CountVotes, CountAcks, Finish,
     LoopEnds, Enter, StoreRaises, EndRequest
<1>2. CASE CrashCoordinator
  BY <1>2 DEF CrashCoordinator
<1>3. ASSUME NEW m \in Msgs, NEW k \in Positions,
             LoseCall(m, k) \/ HandlerStep(m, k) \/ SaveFails(m, k)
      PROVE  PastVoting'
  BY <1>3 DEF LoseCall, SaveFails, HandlerStep, InitTransaction,
     ReceiveUnknown, ReceiveValid, ReceiveInvalid, RefuseVote, SaveAndAnswer
<1>4. ASSUME NEW p \in Participants,
             \/ MonitorTimeout(p) \/ TriggerRecovery(p) \/ RecoveryStep(p)
             \/ ResolutionFails(p) \/ CrashParticipant(p) \/ Restart(p)
      PROVE  PastVoting'
  BY <1>4 DEF MonitorTimeout, TriggerRecovery, RecoveryStep, ReadState,
     AbortPending, MakeDecision, SaveResolution, QueryPeer, ResolutionFails,
     CrashParticipant, Restart
<1>5. CASE UNCHANGED vars
  BY <1>5 DEF vars
<1> QED
  BY <1>1, <1>2, <1>3, <1>4, <1>5 DEF Next

(* Where no commit is under way, a step begins one only by counting votes. *)
LEMMA NoTraceStep ==
  ASSUME TypeOK, NoTrace, [Next]_vars
  PROVE  NoTrace' \/ PastVoting'
<1> USE DEF NoTrace, coordVars, partVars, recVars
<1>t. /\ call \in [Msgs -> [Positions -> CallStates]]
      /\ mem \in [Participants -> MaybeStates]
      /\ db \in [Participants -> MaybeStates]
  BY DEF TypeOK
<1>m. "PRE_COMMIT" \in Msgs /\ "DO_COMMIT" \in Msgs
  BY DEF Msgs
<1>1. CASE Send
  BY <1>1, <1>t, <1>m DEF Send
<1>2. ASSUME NEW res, \/ InitReturns(res) \/ VoteReturns(res)
                      \/ AckReturns(res) \/ DecisionReturns(res)
      PROVE  NoTrace'
  BY <1>2 DEF InitReturns, VoteReturns, AckReturns, DecisionReturns,
     EndRequest, StoreRaises
<1>3. CASE AllInitialized
  BY <1>3 DEF AllInitialized, Enter
<1>4. CASE CountVotes
  BY <1>4 DEF CountVotes, Enter, EndRequest, StoreRaises, PastVoting, AllYes
<1>5. CASE StartFails \/ CountAcks \/ Finish \/ CrashCoordinator
  BY <1>5 DEF StartFails, CountAcks, Finish, CrashCoordinator, LoopEnds,
     EndRequest, StoreRaises
<1>6. ASSUME NEW m \in Msgs, NEW k \in Positions,
             \/ LoseCall(m, k) \/ SaveFails(m, k) \/ HandlerStep(m, k)
      PROVE  NoTrace'
  <2>1. m \notin {"PRE_COMMIT", "DO_COMMIT"}
    BY <1>6 DEF LoseCall, SaveFails, HandlerStep, InitTransaction,
       ReceiveUnknown, ReceiveValid, ReceiveInvalid, RefuseVote,
       SaveAndAnswer, Arrives
  <2>2. /\ Target[m] \notin {"PRE_COMMIT", "COMMIT"}
        /\ Urls[k] \in Participants
    BY <2>1, UrlsType DEF Target, Msgs
  <2>3. \A j \in Positions : /\ call'["PRE_COMMIT"][j] = "none"
                             /\ call'["DO_COMMIT"][j] = "none"
    BY <1>6, <1>t, <1>m, <2>1 DEF LoseCall, SaveFails, HandlerStep,
       InitTransaction, ReceiveUnknown, ReceiveValid, ReceiveInvalid,
       RefuseVote, SaveAndAnswer, SetCall
  <2>4. \A p \in Participants : mem'[p] \notin {"PRE_COMMIT", "COMMIT"}
    BY <1>6, <1>t, <2>2 DEF LoseCall, SaveFails, HandlerStep,
       InitTransaction, ReceiveUnknown, ReceiveValid, ReceiveInvalid,
       RefuseVote, SaveAndAnswer
  <2>5. \A p \in Participants : db'[p] \notin {"PRE_COMMIT", "COMMIT"}
    BY <1>6, <1>t, <2>2 DEF LoseCall, SaveFails, HandlerStep,
       InitTransaction, ReceiveUnknown, ReceiveValid, ReceiveInvalid,
       RefuseVote, SaveAndAnswer
  <2>6. UNCHANGED <<phase, rec>>
    BY <1>6 DEF LoseCall, SaveFails, HandlerStep, InitTransaction,
       ReceiveUnknown, ReceiveValid, ReceiveInvalid, RefuseVote, SaveAndAnswer
  <2> QED BY <2>3, <2>4, <2>5, <2>6
<1>7. ASSUME NEW p \in Participants,
             \/ MonitorTimeout(p) \/ TriggerRecovery(p) \/ RecoveryStep(p)
             \/ ResolutionFails(p)
      PROVE  NoTrace'
  <2>r. \A q \in Participants : RecOK(q, rec[q])
    BY DEF TypeOK
  <2>f. rec = [q \in Participants |-> rec[q]]
    BY DEF TypeOK
  <2>i. Idle(p).to # "COMMIT"
    BY DEF Idle
  <2>1. CASE MonitorTimeout(p) \/ TriggerRecovery(p)
    BY <2>1, <2>f, <2>r DEF MonitorTimeout, TriggerRecovery, AttemptRecovery, RecOK
  <2>2. CASE ReadState(p)
    BY <2>2, <2>f, <2>r, <2>i DEF ReadState, Conclude, RecOK
  <2>3. ASSUME NEW to \in Final, Resolve(p, to),
               UNCHANGED <<coordVars, call, db>>
        PROVE  NoTrace'
    <3>1. CASE CanMove(p, to)
      <4>1. to = "ABORT"
        BY <3>1, <1>t DEF CanMove, ValidTransitions, Final, MaybeStates, States
      <4>2. \A q \in Participants : mem'[q] \notin {"PRE_COMMIT", "COMMIT"}
        BY <2>3, <3>1, <4>1, <1>t DEF Resolve
      <4>3. \A q \in Participants : rec'[q].to # "COMMIT"
        <5> DEFINE r == [rec[p] EXCEPT !.pc = "save", !.to = to,
                                       !.ans = NoAnswers(p)]
        <5>1. rec' = [rec EXCEPT ![p] = r]
          BY <2>3, <3>1, <2>f DEF Resolve
        <5>2. r.to = "ABORT"
          BY <4>1, <2>r DEF RecOK
        <5> QED BY <5>1, <5>2, <2>f
      <4> QED BY <2>3, <4>2, <4>3
    <3>2. CASE ~CanMove(p, to)
      BY <2>3, <3>2, <2>f, <2>i DEF Resolve, Conclude
    <3> QED BY <3>1, <3>2
  <2>4. CASE AbortPending(p)
    BY <2>4, <2>3 DEF AbortPending, Final
  <2>5. CASE MakeDecision(p)
    <3> DEFINE d == Decision(rec[p].ans)
    <3>1. CASE d = "UNKNOWN"
      BY <2>5, <3>1, <2>f, <2>i DEF MakeDecision, Conclude
    <3>2. CASE d # "UNKNOWN"
      <4>1. d \in Final /\ Resolve(p, d)
        BY <2>5, <3>2, DecisionType DEF MakeDecision, Final
      <4> QED BY <2>5, <4>1, <2>3 DEF MakeDecision
    <3> QED BY <3>1, <3>2
  <2>6. CASE SaveResolution(p)
    <3>1. rec[p].to = "ABORT"
      BY <2>6, <2>r DEF SaveResolution, RecOK, Final
    <3> QED BY <2>6, <3>1, <1>t, <2>f, <2>i DEF SaveResolution, Conclude
  <2>7. ASSUME NEW q \in Peers[p], QueryPeer(p, q) PROVE NoTrace'
    BY <2>7, <2>f, <2>r DEF QueryPeer, RecOK
  <2>8. CASE ResolutionFails(p)
    BY <2>8, <2>f, <2>i DEF ResolutionFails
  <2> QED
    BY <1>7, <2>1, <2>2, <2>4, <2>5, <2>6, <2>7, <2>8 DEF RecoveryStep
<1>8. ASSUME NEW p \in Participants, CrashParticipant(p) PROVE NoTrace'
  <2>1. \A q \in Participants : rec'[q].to # "COMMIT"
    BY <1>8 DEF CrashParticipant, Idle, TypeOK
  <2>2. \A j \in Positions : /\ call'["PRE_COMMIT"][j] = "none"
                             /\ call'["DO_COMMIT"][j] = "none"
    BY <1>8, <1>m DEF CrashParticipant, Handling, Replies
  <2> QED BY <1>8, <2>1, <2>2, <1>t DEF CrashParticipant
<1>9. ASSUME NEW p \in Participants, Restart(p) PROVE NoTrace'
  BY <1>9, <1>t DEF Restart, Reloaded
<1>10. CASE UNCHANGED vars
  BY <1>10 DEF vars
<1> QED
  BY <1>1, <1>2, <1>3, <1>4, <1>5, <1>6, <1>7, <1>8, <1>9, <1>10
     DEF Next, CoordinatorStep

LEMMA ValidityInvariant == Spec => []ValidityInv
<1>1. Init => ValidityInv
  BY DEF Init, ValidityInv, NoTrace, Msgs, Idle
<1>2. TypeOK /\ ValidityInv /\ [Next]_vars => ValidityInv'
  BY PastVotingStable, NoTraceStep DEF ValidityInv
<1> QED
  BY <1>1, <1>2, TypeCorrect, PTL DEF Spec

(* What a participant in PRE_COMMIT is told: everybody voted YES.  Holds   *)
(* under every fault, because recovery commits from PRE_COMMIT only and a  *)
(* restart reloads nothing that was not saved.                             *)
THEOREM ValidCommits == Spec => []CommitValidity
<1>1. ValidityInv => CommitValidity
  BY DEF ValidityInv, NoTrace, CommitValidity
<1> QED
  BY <1>1, ValidityInvariant, PTL

-----------------------------------------------------------------------------
(* Durable votes.  A counted YES rests on an answered CAN_COMMIT, which    *)
(* rests on an initialisation that has been saved before: no thread is     *)
(* left that could write INIT over READY.                                  *)

Beyond(p) == db[p] \notin {"NONE", "INIT"}

InitDone == \A k \in Positions : call["INIT_TXN"][k] = "created"

VoteInv ==
  /\ phase = "INIT_TXN" =>
       /\ \A j \in Positions : j < next => call["INIT_TXN"][j] = "created"
       /\ \A j \in Positions : call["CAN_COMMIT"][j] = "none"
       /\ \A p \in Called : votes[p] = "none"
  /\ \/ phase \in {"CAN_COMMIT", "PRE_COMMIT", "DO_COMMIT", "ABORT"}
     \/ \E j \in Positions : call["CAN_COMMIT"][j] # "none"
     \/ \E p \in Called : votes[p] = "YES"
     => InitDone
  /\ \A j \in Positions :
       call["CAN_COMMIT"][j] = "YES" => Beyond(Urls[j])
  /\ VotesDurable

(* A row is written beyond INIT for good once initialisation is over.      *)
LEMMA BeyondStable ==
  ASSUME TypeOK, InitDone, [Next]_vars, NEW p \in Participants, Beyond(p)
  PROVE  Beyond(p)'
<1> USE DEF Beyond
<1>t. db \in [Participants -> MaybeStates] /\ "INIT_TXN" \in Msgs
  BY DEF TypeOK, Msgs
<1>1. CASE UNCHANGED db
  BY <1>1
<1>2. ASSUME NEW m \in Msgs, NEW k \in Positions, SaveAndAnswer(m, k)
      PROVE  Beyond(p)'
  <2>1. m # "INIT_TXN"
    BY <1>2 DEF SaveAndAnswer, InitDone
  <2>2. Target[m] \notin {"NONE", "INIT"}
    BY <2>1 DEF Target, Msgs
  <2> QED BY <1>2, <1>t, <2>2 DEF SaveAndAnswer
<1>3. ASSUME NEW q \in Participants, SaveResolution(q) PROVE Beyond(p)'
  <2>1. rec[q].to \in Final
    BY <1>3 DEF SaveResolution, TypeOK, RecOK
  <2> QED BY <1>3, <1>t, <2>1 DEF SaveResolution, Final
<1>4. \/ UNCHANGED db
      \/ \E m \in Msgs, k \in Positions : SaveAndAnswer(m, k)
      \/ \E q \in Participants : SaveResolution(q)
  BY DEF Next, vars, coordVars, partVars, recVars, CoordinatorStep, StartFails,
     Send, InitReturns, VoteReturns, AckReturns, DecisionReturns, AllInitialized,
     CountVotes, CountAcks, Finish, CrashCoordinator, LoseCall, SaveFails,
     HandlerStep, InitTransaction, ReceiveUnknown, ReceiveValid,
     ReceiveInvalid, RefuseVote, MonitorTimeout, TriggerRecovery,
     RecoveryStep, ReadState, AbortPending, MakeDecision, QueryPeer,
     ResolutionFails, CrashParticipant, Restart
<1> QED
  BY <1>1, <1>2, <1>3, <1>4

(* What a step can do to the calls, the votes and the phase.               *)
LEMMA VoteInvCoordinator ==
  ASSUME TypeOK, VoteInv, CoordinatorStep
  PROVE  VoteInv'
<1> USE DEF VoteInv, coordVars, partVars, recVars, InitDone, Beyond, VotesDurable
<1>t. /\ call \in [Msgs -> [Positions -> CallStates]]
      /\ votes \in [Called -> {"none", "YES", "NO"}]
      /\ next \in Nat \ {0}
      /\ "INIT_TXN" \in Msgs /\ "CAN_COMMIT" \in Msgs
  BY DEF TypeOK, Msgs
<1>1. CASE Send
  <2>1. call["CAN_COMMIT"]' = call["CAN_COMMIT"] \/ phase = "CAN_COMMIT"
    BY <1>1, <1>t DEF Send
  <2>2. \A j \in Positions : call["INIT_TXN"][j] = "created" =>
          call'["INIT_TXN"][j] = "created"
    BY <1>1, <1>t DEF Send
  <2>3. \A j \in Positions : call'["CAN_COMMIT"][j] = "YES" =>
          call["CAN_COMMIT"][j] = "YES"
    BY <1>1, <1>t DEF Send
  <2>4. UNCHANGED <<phase, next, votes, db>>
    BY <1>1 DEF Send
  <2> QED BY <2>1, <2>2, <2>3, <2>4
<1>2. ASSUME NEW res \in Replies \cup {"exception"}, InitReturns(res)
      PROVE  VoteInv'
  <2>1. UNCHANGED <<call, votes, db>> /\ phase = "INIT_TXN"
    BY <1>2 DEF InitReturns
  <2>2. CASE res = "created"
    <3>1. /\ call["INIT_TXN"][next] = "created"
          /\ next' = next + 1 /\ phase' = phase
      BY <1>2, <2>2 DEF InitReturns, Returned, Advance
    <3>2. \A j \in Positions : j < next + 1 => j < next \/ j = next
      BY <1>t, UrlsAssumption DEF Positions
    <3> QED BY <2>1, <3>1, <3>2
  <2>3. CASE res # "created"
    <3>1. phase' = "END"
      BY <1>2, <2>3 DEF InitReturns, EndRequest, StoreRaises
    <3> QED BY <2>1, <3>1
  <2> QED BY <2>2, <2>3
<1>3. ASSUME NEW res \in Replies \cup {"exception"}, VoteReturns(res)
      PROVE  VoteInv'
  <2>1. /\ phase = "CAN_COMMIT" /\ UNCHANGED <<phase, call, db>>
        /\ Urls[next] \in Called /\ next \in Positions
    BY <1>3, UrlsType DEF VoteReturns, Returned
  <2>2. \A p \in Called : votes'[p] = "YES" =>
          votes[p] = "YES" \/ (p = Urls[next] /\ res = "YES")
    BY <1>3, <1>t DEF VoteReturns
  <2>3. res = "YES" => call["CAN_COMMIT"][next] = "YES"
    BY <1>3, <2>1 DEF VoteReturns, Returned
  <2> QED BY <2>1, <2>2, <2>3
<1>4. ASSUME NEW res \in Replies \cup {"exception"},
             AckReturns(res) \/ DecisionReturns(res)
      PROVE  VoteInv'
  BY <1>4 DEF AckReturns, DecisionReturns
<1>5. CASE AllInitialized
  <2>1. \A j \in Positions : j < next
    BY <1>5, <1>t, UrlsAssumption DEF AllInitialized, LoopEnds, Positions
  <2> QED BY <1>5, <2>1 DEF AllInitialized, LoopEnds, Enter
<1>6. CASE StartFails \/ CountVotes \/ CountAcks \/ Finish
  BY <1>6 DEF StartFails, CountVotes, CountAcks, Finish, LoopEnds, Enter,
     EndRequest, StoreRaises
<1> QED
  BY <1>1, <1>2, <1>3, <1>4, <1>5, <1>6 DEF CoordinatorStep

(* Outside the coordinator a CAN_COMMIT call is made by nobody, answered   *)
(* YES only after the save, and a created transaction stays created until  *)
(* the coordinator has read the answer.                                    *)
LEMMA VoteInvOthers ==
  ASSUME TypeOK, VoteInv, [Next]_vars, ~CoordinatorStep
  PROVE  VoteInv'
<1>t. /\ call \in [Msgs -> [Positions -> CallStates]]
      /\ db \in [Participants -> MaybeStates]
      /\ "INIT_TXN" \in Msgs /\ "CAN_COMMIT" \in Msgs
  BY DEF TypeOK, Msgs
<1>1. UNCHANGED <<phase, next, votes>>
  BY DEF Next, vars, coordVars, CrashCoordinator, LoseCall, SaveFails,
     HandlerStep, InitTransaction, ReceiveUnknown, ReceiveValid,
     ReceiveInvalid, RefuseVote, SaveAndAnswer, MonitorTimeout,
     TriggerRecovery, RecoveryStep, ReadState, AbortPending, MakeDecision,
     SaveResolution, QueryPeer, ResolutionFails, CrashParticipant, Restart
<1>2. \/ UNCHANGED call
      \/ \E m \in Msgs, k \in Positions :
           LoseCall(m, k) \/ HandlerStep(m, k) \/ SaveFails(m, k)
      \/ \E p \in Participants : CrashParticipant(p)
  BY DEF Next, vars, CrashCoordinator, MonitorTimeout,
     TriggerRecovery, RecoveryStep, ReadState, AbortPending, MakeDecision,
     SaveResolution, QueryPeer, ResolutionFails, Restart, coordVars
<1>3. /\ \A j \in Positions :
           call["CAN_COMMIT"][j] = "none" => call'["CAN_COMMIT"][j] = "none"
      /\ \A j \in Positions :
           \/ call["INIT_TXN"][j] # "created"
           \/ call'["INIT_TXN"][j] = "created"
           \/ phase = "INIT_TXN" /\ j = next
      /\ \A j \in Positions : call'["CAN_COMMIT"][j] = "YES" =>
           \/ call["CAN_COMMIT"][j] = "YES"
           \/ SaveAndAnswer("CAN_COMMIT", j) /\ call["CAN_COMMIT"][j] = "save"
  <2>1. ASSUME NEW m \in Msgs, NEW k \in Positions,
               LoseCall(m, k) \/ HandlerStep(m, k) \/ SaveFails(m, k)
        PROVE  <1>3!:
    <3>1. PICK s \in CallStates :
            /\ call' = [call EXCEPT ![m][k] = s]
            /\ call[m][k] \in {"sent"} \cup Handling
            /\ m = "CAN_COMMIT" /\ s = "YES" =>
                 SaveAndAnswer(m, k) /\ call[m][k] = "save"
      <4>1. CASE LoseCall(m, k) \/ SaveFails(m, k)
        BY <4>1 DEF LoseCall, SaveFails, SetCall, CallStates, Handling
      <4>2. CASE m = "INIT_TXN" /\ InitTransaction(k)
        BY <4>2 DEF InitTransaction, Arrives, SetCall, CallStates, Handling,
           Replies
      <4>3. CASE ReceiveUnknown(m, k) \/ ReceiveValid(m, k)
        BY <4>3 DEF ReceiveUnknown, ReceiveValid, Arrives, SetCall,
           CallStates, Handling, Replies
      <4>4. CASE ReceiveInvalid(m, k)
        BY <4>4 DEF ReceiveInvalid, Arrives, SetCall, CallStates, Handling,
           Replies
      <4>5. CASE m = "CAN_COMMIT" /\ RefuseVote(k)
        BY <4>5 DEF RefuseVote, SetCall, CallStates, Handling, Replies
      <4>6. CASE SaveAndAnswer(m, k)
        <5>1. /\ Answer(m, k) \in CallStates
              /\ m = "CAN_COMMIT" /\ Answer(m, k) = "YES" =>
                   call[m][k] = "save"
          BY DEF Answer, CallStates, Replies
        <5>2. /\ call' = [call EXCEPT ![m][k] = Answer(m, k)]
              /\ call[m][k] \in Handling
          BY <4>6 DEF SaveAndAnswer, SetCall, Handling
        <5> QED BY <4>6, <5>1, <5>2
      <4> QED
        BY <2>1, <4>1, <4>2, <4>3, <4>4, <4>5, <4>6 DEF HandlerStep
    <3> QED BY <3>1, <1>t DEF Handling
  <2>2. ASSUME NEW p \in Participants, CrashParticipant(p) PROVE <1>3!:
    <3>1. \A m \in Msgs, k \in Positions :
            \/ call'[m][k] = call[m][k]
            \/ /\ call'[m][k] = "lost"
               /\ \/ call[m][k] \in Handling
                  \/ call[m][k] \in Replies /\ m = phase /\ k = next
      BY <2>2 DEF CrashParticipant
    <3>2. "none" \notin Handling \cup Replies /\ "created" \notin Handling
      BY DEF Handling, Replies
    <3> QED BY <3>1, <3>2, <1>t
  <2> QED BY <1>2, <2>1, <2>2
<1>4. \/ \E j \in Positions : call["CAN_COMMIT"][j] # "none"
      \/ \E p \in Called : votes[p] = "YES"
      \/ phase \in {"CAN_COMMIT", "PRE_COMMIT", "DO_COMMIT", "ABORT"}
      => InitDone /\ InitDone'
  BY <1>3 DEF VoteInv, InitDone
<1>5. \A p \in Called : InitDone /\ Beyond(p) => Beyond(p)'
  BY BeyondStable, UrlsType
<1>6. \A j \in Positions : call'["CAN_COMMIT"][j] = "YES" => Beyond(Urls[j])'
  <2> SUFFICES ASSUME NEW j \in Positions, call'["CAN_COMMIT"][j] = "YES"
               PROVE  Beyond(Urls[j])'
    OBVIOUS
  <2>1. CASE call["CAN_COMMIT"][j] = "YES"
    BY <2>1, <1>4, <1>5, UrlsType DEF VoteInv
  <2>2. CASE SaveAndAnswer("CAN_COMMIT", j) /\ call["CAN_COMMIT"][j] = "save"
    BY <2>2, <1>t, UrlsType DEF SaveAndAnswer, Target, Beyond
  <2> QED BY <1>3, <2>1, <2>2
<1>7. VotesDurable'
  BY <1>1, <1>4, <1>5 DEF VoteInv, VotesDurable, Beyond
<1>8. phase' = "INIT_TXN" =>
        /\ \A j \in Positions : j < next' => call'["INIT_TXN"][j] = "created"
        /\ \A j \in Positions : call'["CAN_COMMIT"][j] = "none"
        /\ \A p \in Called : votes'[p] = "none"
  <2>1. next \in Nat /\ \A j \in Positions : j \in Nat
    BY UrlsAssumption DEF TypeOK, Positions
  <2>2. \A j \in Positions : j < next => j # next
    BY <2>1
  <2> QED BY <1>1, <1>3, <2>2 DEF VoteInv
<1> QED
  BY <1>1, <1>3, <1>4, <1>6, <1>7, <1>8 DEF VoteInv

LEMMA VoteInvariant == Spec => []VoteInv
<1>1. Init => VoteInv
  BY UrlsAssumption DEF Init, VoteInv, VotesDurable, Msgs, Positions
<1>2. TypeOK /\ VoteInv /\ [Next]_vars => VoteInv'
  BY VoteInvCoordinator, VoteInvOthers
<1> QED
  BY <1>1, <1>2, TypeCorrect, PTL DEF Spec

(* A crash of a voter, at any moment and with any threads about, finds its *)
(* YES on disk: the coordinator never counts a vote that a restart undoes. *)
THEOREM DurableVotes == Spec => []VotesDurable
<1>1. VoteInv => VotesDurable
  BY DEF VoteInv
<1> QED
  BY <1>1, VoteInvariant, PTL
=============================================================================
