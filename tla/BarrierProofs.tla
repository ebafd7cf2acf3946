----------------------------- MODULE BarrierProofs -----------------------------
(***************************************************************************)
(* The commit barrier, agreement, and the implementation of AtomicCommit,  *)
(* for any number of participants and under any loss of requests, any      *)
(* lateness, any failure of the coordinator's or the participants' writes  *)
(* and a crash of the coordinator at any moment.  What they need beyond    *)
(* accurate timeouts is named below; the violation runs and the limits in  *)
(* README.md show what each of them guards against.                        *)
(***************************************************************************)
EXTENDS RecoveryProofs

(* Every peer that is asked answers, with the state it has held all along. *)
PeersAnswer == Faults \cap {"unreachable", "crashParticipant"} = {}

(* PARTICIPANT_PEERS names the other participants of the transaction.      *)
PeersKnown == \A p \in Called : Called \subseteq Peers[p] \cup {p}

(* The client names no participant twice.                                  *)
DistinctUrls == \A j, k \in Positions : Urls[j] = Urls[k] => j = k

Prepared(p) == mem[p] \in {"PRE_COMMIT", "COMMIT"}

(* The coordinator has decided to commit.                                  *)
Committing ==
  \/ phase = "DO_COMMIT" \/ row = "COMMIT" \/ answer = "committed"
  \/ \E k \in Positions : call["DO_COMMIT"][k] # "none"

-----------------------------------------------------------------------------
(* The inductive invariant, in the parts that are proved one by one.       *)

CrashFree ==
  \A p \in Participants : up[p] /\ (p \notin Called => mem[p] = "NONE")

(* What the coordinator knows from the calls it has made.                  *)
PhaseInv ==
  /\ Committing => /\ AllAcked /\ phase \in {"DO_COMMIT", "END"}
                   /\ \A k \in Positions : call["ABORT"][k] = "none"
  /\ \A k \in Positions :
       /\ call["ABORT"][k] # "none" => phase \in {"ABORT", "END"}
       /\ votes[Urls[k]] = "YES" => call["CAN_COMMIT"][k] = "YES"
       /\ acks[Urls[k]] = "ACK" => call["PRE_COMMIT"][k] = "ACK"
       /\ phase = "DO_COMMIT" /\ k < next => call["DO_COMMIT"][k] # "none"
       /\ phase \in {"INIT_TXN", "CAN_COMMIT"} /\ k >= next =>
            votes[Urls[k]] = "none"
       /\ \A m \in Msgs : call[m][k] \in {"refuse", "saveAbort"} => m = "CAN_COMMIT"

(* A decision that is written, about to be written or learnt from a peer   *)
(* is the decision in the memory it is about.                              *)
FinalInv ==
  /\ \A p \in Participants :
       /\ db[p] \in Final => mem[p] = db[p]
       /\ \A q \in Peers[p] : rec[p].ans[q] = "COMMIT" => mem[q] = "COMMIT"
  /\ \A m \in Msgs, k \in Positions :
       /\ call[m][k] = "save" /\ Target[m] \in Final => mem[Urls[k]] = Target[m]
       /\ call[m][k] = "saveAbort" => mem[Urls[k]] = "ABORT"

(* As long as no recovery can run, a participant that the coordinator does *)
(* not tell to abort follows it.                                           *)
Spared(k) == call["ABORT"][k] \in {"none", "sent"}

FollowInv ==
  /\ \A k \in Positions : Spared(k) =>
       /\ call["CAN_COMMIT"][k] \in {"save", "YES"} =>
            mem[Urls[k]] \in {"READY", "PRE_COMMIT", "COMMIT"}
       /\ call["PRE_COMMIT"][k] \in {"save", "ACK"} => Prepared(Urls[k])
  /\ \A p \in Participants : mem[p] = "COMMIT" => Committing

(* The participants' states decide what recovery can come to: everybody is *)
(* prepared and no recovery is going to abort, or somebody is not and no   *)
(* recovery believes otherwise.                                            *)
Cleared ==
  /\ \A q \in Called : Prepared(q)
  /\ \A p \in Participants :
       /\ rec[p].pc # "abort"
       /\ \A q \in Peers[p] :
            rec[p].ans[q] \in {"none", "PRE_COMMIT", "COMMIT", "UNKNOWN"}

DoomedBy(q) ==
  /\ ~Prepared(q)
  /\ \A p \in Participants : q \in Peers[p] =>
       rec[p].ans[q] \notin {"PRE_COMMIT", "COMMIT", "UNREACHABLE"}

Committed == Committing \/ \E p \in Participants : mem[p] = "COMMIT"

DecidedInv ==
  /\ Cleared \/ \E q \in Called : DoomedBy(q)
  /\ Committed => Cleared

BarrierInv ==
  /\ CrashFree /\ PhaseInv /\ FinalInv
  /\ Orphaned \/ FollowInv
  /\ DecidedInv

-----------------------------------------------------------------------------
(* What a step does to the memories.                                       *)

LEMMA RecoveryMem ==
  ASSUME TypeOK, NEW p \in Participants, RecoveryAction(p)
  PROVE  \/ mem' = mem
         \/ \E to \in Final :
              /\ CanMove(p, to) /\ mem' = [mem EXCEPT ![p] = to]
              /\ \/ rec[p].pc = "abort" /\ to = "ABORT"
                 \/ MakeDecision(p) /\ to = Decision(rec[p].ans)
<1>1. ASSUME NEW to \in Final, Resolve(p, to)
      PROVE  mem' = mem \/ (CanMove(p, to) /\ mem' = [mem EXCEPT ![p] = to])
  BY <1>1 DEF Resolve
<1>2. CASE AbortPending(p)
  BY <1>1, <1>2 DEF AbortPending, Final
<1>3. CASE MakeDecision(p)
  <2> DEFINE d == Decision(rec[p].ans)
  <2>1. mem' = mem \/ (d # "UNKNOWN" /\ Resolve(p, d))
    BY <1>3 DEF MakeDecision
  <2>2. d # "UNKNOWN" => d \in Final
    BY DecisionType DEF Final
  <2> QED BY <1>1, <1>3, <2>1, <2>2
<1>4. CASE RecoveryAction(p) /\ ~AbortPending(p) /\ ~MakeDecision(p)
  BY <1>4 DEF RecoveryAction, MonitorTimeout, TriggerRecovery, RecoveryStep,
     ReadState, SaveResolution, QueryPeer, ResolutionFails, partVars
<1> QED
  BY <1>2, <1>3, <1>4

(* Without crashes there are no restarts either.                           *)
LEMMA CrashFreeCases ==
  ASSUME PeersAnswer, CrashFree, [Next]_vars
  PROVE  /\ \/ CoordinatorStep \/ CrashCoordinator
            \/ \E m \in Msgs, k \in Positions : CallStep(m, k)
            \/ \E p \in Participants : RecoveryAction(p)
            \/ UNCHANGED vars
         /\ UNCHANGED up
<1>1. ASSUME NEW p \in Participants PROVE ~CrashParticipant(p) /\ ~Restart(p)
  BY DEF PeersAnswer, CrashFree, CrashParticipant, Restart
<1>2. CoordinatorStep => UNCHANGED up
  BY CoordinatorFrame DEF partVars
<1>3. CrashCoordinator \/ UNCHANGED vars => UNCHANGED up
  BY DEF CrashCoordinator, vars, partVars
<1>4. ASSUME NEW m \in Msgs, NEW k \in Positions, CallStep(m, k)
      PROVE  UNCHANGED up
  BY <1>4 DEF CallStep, LoseCall, SaveFails, HandlerStep, InitTransaction,
     ReceiveUnknown, ReceiveValid, ReceiveInvalid, RefuseVote, SaveAndAnswer,
     partVars
<1>5. \A p \in Participants : RecoveryAction(p) => UNCHANGED up
  BY RecoveryFrame
<1> QED
  BY <1>1, <1>2, <1>3, <1>4, <1>5, NextCases

(* One memory changes, along ValidTransitions or on initialisation.        *)
LEMMA MemStep ==
  ASSUME TypeOK, PeersAnswer, CrashFree, [Next]_vars
  PROVE  \/ mem' = mem
         \/ \E p \in Called, s \in States :
              /\ mem' = [mem EXCEPT ![p] = s]
              /\ CanMove(p, s) \/ (mem[p] = "NONE" /\ s = "INIT")
<1>1. CASE CoordinatorStep
  BY <1>1, CoordinatorFrame DEF partVars
<1>2. CASE CrashCoordinator \/ UNCHANGED vars
  BY <1>2 DEF CrashCoordinator, vars, partVars
<1>3. ASSUME NEW m \in Msgs, NEW k \in Positions, CallStep(m, k)
      PROVE  \/ mem' = mem
             \/ \E s \in States :
                  /\ mem' = [mem EXCEPT ![Urls[k]] = s]
                  /\ \/ CanMove(Urls[k], s)
                     \/ mem[Urls[k]] = "NONE" /\ s = "INIT"
  BY <1>3, CallFrame
<1>4. ASSUME NEW p \in Participants, RecoveryAction(p), mem' # mem
      PROVE  /\ p \in Called
             /\ \E s \in States : CanMove(p, s) /\ mem' = [mem EXCEPT ![p] = s]
  <2>1. PICK to \in Final : CanMove(p, to) /\ mem' = [mem EXCEPT ![p] = to]
    BY <1>4, RecoveryMem
  <2>2. mem[p] # "NONE"
    BY <2>1 DEF CanMove, ValidTransitions
  <2> QED BY <2>1, <2>2 DEF CrashFree, Final, States
<1> QED
  BY <1>1, <1>2, <1>3, <1>4, CrashFreeCases, UrlsType

(* Nobody changes a decision.                                              *)
LEMMA FinalStable ==
  ASSUME TypeOK, PeersAnswer, CrashFree, [Next]_vars,
         NEW p \in Participants, mem[p] \in Final
  PROVE  mem'[p] = mem[p]
<1>1. mem \in [Participants -> MaybeStates]
  BY DEF TypeOK
<1>2. mem[p] # "NONE" /\ \A s : ~CanMove(p, s)
  BY DEF Final, CanMove, ValidTransitions
<1> QED
  BY <1>1, <1>2, MemStep, UrlsType

LEMMA CrashFreeNext ==
  ASSUME TypeOK, PeersAnswer, CrashFree, [Next]_vars
  PROVE  CrashFree'
<1>1. UNCHANGED up
  BY CrashFreeCases
<1>2. \A p \in Participants \ Called : mem'[p] = mem[p]
  BY MemStep, UrlsType DEF TypeOK
<1> QED
  BY <1>1, <1>2 DEF CrashFree

-----------------------------------------------------------------------------
(* The coordinator's knowledge.                                            *)

(* What an outcome of a request thread means for its participant.          *)
LEMMA CallMeaning ==
  ASSUME TypeOK, NEW m \in Msgs, NEW k \in Positions, CallStep(m, k)
  PROVE  LET p == Urls[k]
             c == call'[m][k]
         IN  /\ c \in {"refuse", "saveAbort"} => m = "CAN_COMMIT"
             /\ mem' # mem => c \in {"save", "saveAbort"}
             /\ c = "save" => mem'[p] = Target[m]
             /\ c = "saveAbort" => mem'[p] = "ABORT"
             /\ c = "YES" => call[m][k] = "save" /\ mem' = mem
             /\ c = "ACK" =>
                  /\ mem' = mem
                  /\ \/ call[m][k] \in {"save", "saveAbort"}
                     \/ mem[p] # "NONE" /\ ~CanMove(p, Target[m])
             /\ \/ db' = db
                \/ /\ call[m][k] \in {"save", "saveAbort"} /\ mem' = mem
                   /\ db' = [db EXCEPT ![p] =
                               IF call[m][k] = "save" THEN Target[m] ELSE "ABORT"]
<1>t. /\ call \in [Msgs -> [Positions -> CallStates]]
      /\ mem \in [Participants -> MaybeStates] /\ Urls[k] \in Participants
  BY UrlsType DEF TypeOK
<1> USE DEF SetCall, partVars
<1>1. CASE LoseCall(m, k) \/ SaveFails(m, k)
  BY <1>1, <1>t DEF LoseCall, SaveFails
<1>2. CASE m = "INIT_TXN" /\ InitTransaction(k)
  BY <1>2, <1>t DEF InitTransaction, Target
<1>3. CASE ReceiveUnknown(m, k)
  BY <1>3, <1>t DEF ReceiveUnknown
<1>4. CASE ReceiveValid(m, k)
  BY <1>4, <1>t DEF ReceiveValid
<1>5. CASE ReceiveInvalid(m, k)
  BY <1>5, <1>t DEF ReceiveInvalid
<1>6. CASE m = "CAN_COMMIT" /\ RefuseVote(k)
  BY <1>6, <1>t DEF RefuseVote
<1>7. CASE SaveAndAnswer(m, k)
  BY <1>7, <1>t DEF SaveAndAnswer, Answer
<1> QED
  BY <1>1, <1>2, <1>3, <1>4, <1>5, <1>6, <1>7 DEF CallStep, HandlerStep

LEMMA PhaseInvCoordinator ==
  ASSUME TypeOK, VoteInv, DistinctUrls, PhaseInv, CoordinatorStep
  PROVE  PhaseInv' /\ (Committing => Committing')
<1> USE DEF PhaseInv, Committing
<1>t. /\ call \in [Msgs -> [Positions -> CallStates]]
      /\ votes \in [Called -> {"none", "YES", "NO"}]
      /\ acks \in [Called -> {"none", "ACK", "FAIL"}]
      /\ next \in Nat \ {0} /\ Positions \subseteq Nat /\ 1 \in Positions
      /\ \A j \in Positions : Urls[j] \in Called
      /\ {"CAN_COMMIT", "PRE_COMMIT", "DO_COMMIT", "ABORT"} \subseteq Msgs
  BY UrlsType, UrlsAssumption DEF TypeOK, Positions, Msgs
<1>1. CASE Send
  BY <1>1, <1>t DEF Send, coordVars, AllAcked
<1>2. ASSUME NEW res \in Replies \cup {"exception"}, InitReturns(res)
      PROVE  PhaseInv' /\ (Committing => Committing')
  <2>1. /\ phase = "INIT_TXN" /\ UNCHANGED <<call, votes, acks>>
        /\ \/ phase' = phase /\ next' = next + 1 /\ UNCHANGED <<row, answer>>
           \/ phase' = "END" /\ row' \in {row, "ABORT"}
              /\ answer' \in {"aborted", "error"}
    BY <1>2 DEF InitReturns, Advance, EndRequest, StoreRaises, SaveTransaction
  <2> QED BY <2>1, <1>t DEF AllAcked
<1>3. ASSUME NEW res \in Replies \cup {"exception"}, VoteReturns(res)
      PROVE  PhaseInv' /\ (Committing => Committing')
  <2>1. /\ phase = "CAN_COMMIT" /\ UNCHANGED <<call, phase, acks, row, answer>>
        /\ next' = next + 1 /\ next \in Positions
        /\ votes' = [votes EXCEPT ![Urls[next]] =
                       IF res \in {"YES", "NO"} THEN res ELSE "NO"]
        /\ res = "YES" => call["CAN_COMMIT"][next] = "YES"
    BY <1>3 DEF VoteReturns, Advance, Returned
  <2>2. \A k \in Positions : k # next => votes'[Urls[k]] = votes[Urls[k]]
    BY <2>1, <1>t DEF DistinctUrls
  <2>3. votes'[Urls[next]] = "YES" => res = "YES"
    BY <2>1, <1>t
  <2>4. ~Committing /\ ~Committing'
    BY <2>1
  <2>5. \A k \in Positions : k >= next + 1 => k >= next /\ k # next
    BY <1>t
  <2> HIDE DEF Committing
  <2> QED BY <2>1, <2>2, <2>3, <2>4, <2>5
<1>4. ASSUME NEW res \in Replies \cup {"exception"}, AckReturns(res)
      PROVE  PhaseInv' /\ (Committing => Committing')
  <2>1. /\ phase = "PRE_COMMIT" /\ UNCHANGED <<call, phase, votes, row, answer>>
        /\ next' = next + 1 /\ next \in Positions
        /\ acks' = [acks EXCEPT ![Urls[next]] =
                       IF res = "ACK" THEN "ACK" ELSE "FAIL"]
        /\ res = "ACK" => call["PRE_COMMIT"][next] = "ACK"
    BY <1>4 DEF AckReturns, Advance, Returned
  <2>2. \A k \in Positions : k # next => acks'[Urls[k]] = acks[Urls[k]]
    BY <2>1, <1>t DEF DistinctUrls
  <2>3. acks'[Urls[next]] = "ACK" => res = "ACK"
    BY <2>1, <1>t
  <2>4. ~Committing /\ ~Committing'
    BY <2>1
  <2> HIDE DEF Committing
  <2> QED BY <2>1, <2>2, <2>3, <2>4
<1>5. ASSUME NEW res \in Replies \cup {"exception"}, DecisionReturns(res)
      PROVE  PhaseInv' /\ (Committing => Committing')
  <2>1. /\ UNCHANGED <<call, phase, votes, acks, row, answer>>
        /\ next' = next + 1 /\ next \in Positions
        /\ phase \in {"DO_COMMIT", "ABORT"} /\ call[phase][next] # "none"
    BY <1>5 DEF DecisionReturns, Advance, Returned, Replies
  <2>2. \A k \in Positions : k < next + 1 => k < next \/ k = next
    BY <1>t
  <2> QED BY <2>1, <2>2 DEF AllAcked
<1>6. CASE AllInitialized
  BY <1>6, <1>t DEF AllInitialized, LoopEnds, Enter, VoteInv, AllAcked
<1>7. CASE CountVotes
  <2>1. /\ phase = "CAN_COMMIT" /\ UNCHANGED <<call, votes, acks, row>>
        /\ \/ phase' \in {"PRE_COMMIT", "ABORT"} /\ UNCHANGED answer
           \/ phase' = "END" /\ answer' = "error"
    BY <1>7 DEF CountVotes, LoopEnds, Enter, StoreRaises, EndRequest
  <2> QED BY <2>1 DEF AllAcked
<1>8. CASE CountAcks
  <2>1. /\ phase = "PRE_COMMIT" /\ UNCHANGED <<call, votes, acks, row>>
        /\ \/ phase' = "DO_COMMIT" /\ next' = 1 /\ AllAcked /\ UNCHANGED answer
           \/ phase' = "ABORT" /\ UNCHANGED answer
           \/ phase' = "END" /\ answer' = "error"
    BY <1>8 DEF CountAcks, LoopEnds, Enter, StoreRaises, EndRequest
  <2>2. \A k \in Positions : ~(k < 1)
    BY UrlsAssumption DEF Positions
  <2> QED BY <2>1, <2>2 DEF AllAcked
<1>9. CASE Finish
  <2>1. /\ phase' = "END" /\ UNCHANGED <<call, votes, acks>>
        /\ \/ phase = "DO_COMMIT"
           \/ phase = "ABORT" /\ row' \in {row, "ABORT"}
              /\ answer' \in {"aborted", "error"}
    BY <1>9 DEF Finish, LoopEnds, SaveTransaction, StoreRaises, EndRequest
  <2>2. phase = "DO_COMMIT" => call["DO_COMMIT"][1] # "none"
    <3>1. phase = "DO_COMMIT" => next \notin Positions
      BY <1>9 DEF Finish, LoopEnds
    <3>2. next \notin Positions => 1 < next
      BY <1>t
    <3> QED BY <3>1, <3>2, <1>t
  <2> QED BY <2>1, <2>2, <1>t DEF AllAcked
<1>10. CASE StartFails
  BY <1>10 DEF StartFails, StoreRaises, EndRequest, AllAcked
<1> QED
  BY <1>1, <1>2, <1>3, <1>4, <1>5, <1>6, <1>7, <1>8, <1>9, <1>10
     DEF CoordinatorStep

LEMMA PhaseInvNext ==
  ASSUME TypeOK, VoteInv, DistinctUrls, PeersAnswer, CrashFree, PhaseInv,
         [Next]_vars
  PROVE  PhaseInv' /\ (Committing => Committing')
<1>1. CASE UNCHANGED <<phase, next, votes, acks, row, answer, call>>
  BY <1>1 DEF PhaseInv, Committing, AllAcked
<1>2. ASSUME NEW m \in Msgs, NEW k \in Positions, CallStep(m, k)
      PROVE  PhaseInv' /\ (Committing => Committing')
  <2>1. UNCHANGED <<phase, next, votes, acks, row, answer>>
    BY <1>2, CallFrame DEF coordVars
  <2>2. PICK s \in CallStates \ {"none", "sent"} :
          call' = [call EXCEPT ![m][k] = s]
    BY <1>2, CallFrame
  <2>3. /\ call[m][k] \notin {"none", "YES", "ACK"}
        /\ s \in {"refuse", "saveAbort"} => m = "CAN_COMMIT"
    <3>1. s = call'[m][k]
      BY <2>2 DEF TypeOK
    <3>2. call[m][k] \in {"sent"} \cup Handling
      BY <1>2, CallFrame
    <3> QED BY <1>2, <3>1, <3>2, CallMeaning DEF Handling
  <2>4. \A n \in Msgs, j \in Positions :
          /\ call'[n][j] = "none" <=> call[n][j] = "none"
          /\ call[n][j] \in {"YES", "ACK"} => call'[n][j] = call[n][j]
          /\ call'[n][j] \in {"refuse", "saveAbort"} =>
               n = "CAN_COMMIT" \/ call[n][j] = call'[n][j]
    BY <2>2, <2>3 DEF TypeOK
  <2>5. {"CAN_COMMIT", "PRE_COMMIT", "DO_COMMIT", "ABORT"} \subseteq Msgs
    BY DEF Msgs
  <2> QED BY <2>1, <2>4, <2>5 DEF PhaseInv, Committing, AllAcked
<1>3. CrashCoordinator \/ (\E p \in Participants : RecoveryAction(p))
        \/ UNCHANGED vars
      => UNCHANGED <<phase, next, votes, acks, row, answer, call>>
  BY RecoveryFrame DEF CrashCoordinator, vars, coordVars
<1> QED
  BY <1>1, <1>2, <1>3, CrashFreeCases, PhaseInvCoordinator

-----------------------------------------------------------------------------
(* Decisions in memory, on disk and in the answers of peers.               *)

LEMMA FinalInvCall ==
  ASSUME TypeOK, PeersAnswer, CrashFree, FinalInv, [Next]_vars,
         NEW m \in Msgs, NEW k \in Positions, CallStep(m, k)
  PROVE  FinalInv'
<1> DEFINE p == Urls[k]
<1>t. /\ call \in [Msgs -> [Positions -> CallStates]]
      /\ db \in [Participants -> MaybeStates]
      /\ p \in Participants
  BY UrlsType DEF TypeOK
<1>1. \A q \in Participants : mem[q] \in Final => mem'[q] = mem[q]
  BY FinalStable
<1>2. \A n \in Msgs, j \in Positions :
        /\ call'[n][j] = "save" /\ Target[n] \in Final => mem'[Urls[j]] = Target[n]
        /\ call'[n][j] = "saveAbort" => mem'[Urls[j]] = "ABORT"
  <2>1. \A n \in Msgs, j \in Positions :
          (n # m \/ j # k) => call'[n][j] = call[n][j]
    BY <1>t, CallFrame
  <2>2. /\ call'[m][k] = "save" => mem'[p] = Target[m]
        /\ call'[m][k] = "saveAbort" => mem'[p] = "ABORT"
    BY CallMeaning
  <2> QED BY <1>1, <2>1, <2>2, UrlsType DEF FinalInv, Final
<1>3. \A q \in Participants : db'[q] \in Final => mem'[q] = db'[q]
  <2>1. CASE db' = db
    BY <2>1, <1>1 DEF FinalInv
  <2>2. CASE db' # db
    <3>1. /\ call[m][k] \in {"save", "saveAbort"} /\ mem' = mem
          /\ db' = [db EXCEPT ![p] =
                      IF call[m][k] = "save" THEN Target[m] ELSE "ABORT"]
      BY <2>2, CallMeaning
    <3> QED BY <3>1, <1>t DEF FinalInv
  <2> QED BY <2>1, <2>2
<1>4. \A q \in Participants : \A r \in Peers[q] :
        rec'[q].ans[r] = "COMMIT" => mem'[r] = "COMMIT"
  <2>1. UNCHANGED rec
    BY CallFrame DEF recVars
  <2> QED BY <1>1, <2>1, PeersAssumption DEF FinalInv, Final
<1> QED
  BY <1>2, <1>3, <1>4 DEF FinalInv

(* What a step of a recovery does to the answers it has: it keeps them,    *)
(* forgets them, or asks one peer, which answers what it holds.            *)
LEMMA AnswerStep ==
  ASSUME TypeOK, PeersAnswer, CrashFree, NEW p \in Participants, RecoveryAction(p)
  PROVE  /\ \A q \in Participants \ {p} : rec'[q] = rec[q]
         /\ \/ rec'[p].ans = rec[p].ans
            \/ rec'[p].ans = NoAnswers(p)
            \/ \E q \in Peers[p] :
                 /\ rec'[p].ans = [rec[p].ans EXCEPT ![q] = QueryState(q)]
                 /\ UNCHANGED mem
         /\ rec'[p].pc = "abort" =>
              rec[p].pc = "abort" \/ mem[p] \in {"INIT", "READY"}
<1>t. /\ rec = [q \in Participants |-> rec[q]] /\ RecOK(p, rec[p])
      /\ Peers \in [Participants -> SUBSET Participants]
  BY PeersAssumption DEF TypeOK
<1>i. Idle(p).ans = NoAnswers(p) /\ Idle(p).pc = "idle"
  BY DEF Idle
<1>1. CASE MonitorTimeout(p) \/ TriggerRecovery(p)
  BY <1>1, <1>t DEF MonitorTimeout, TriggerRecovery, AttemptRecovery, RecOK
<1>2. CASE ReadState(p)
  BY <1>2, <1>t, <1>i DEF ReadState, Conclude, RecOK
<1>3. CASE AbortPending(p) \/ MakeDecision(p)
  BY <1>3, <1>t, <1>i DEF AbortPending, MakeDecision, Resolve, Conclude, RecOK
<1>4. CASE SaveResolution(p) \/ ResolutionFails(p)
  BY <1>4, <1>t, <1>i DEF SaveResolution, ResolutionFails, Conclude
<1>5. CASE \E q \in Peers[p] : QueryPeer(p, q)
  <2>1. PICK q \in Peers[p] : QueryPeer(p, q)
    BY <1>5
  <2>2. q \in Participants /\ up[q] /\ "unreachable" \notin Faults
    BY <1>t DEF CrashFree, PeersAnswer
  <2>3. rec' = [rec EXCEPT ![p].ans[q] = QueryState(q)] /\ UNCHANGED mem
        /\ rec[p].pc = "query"
    BY <2>1, <2>2 DEF QueryPeer, partVars
  <2> DEFINE a == [rec[p].ans EXCEPT ![q] = QueryState(q)]
  <2>4. rec' = [rec EXCEPT ![p] = [rec[p] EXCEPT !.ans = a]]
    BY <2>3
  <2>5. /\ [rec[p] EXCEPT !.ans = a].ans = a
        /\ [rec[p] EXCEPT !.ans = a].pc = rec[p].pc
    BY <1>t DEF RecOK
  <2> QED BY <2>3, <2>4, <2>5, <1>t
<1> QED
  BY <1>1, <1>2, <1>3, <1>4, <1>5 DEF RecoveryAction, RecoveryStep

LEMMA FinalInvRecovery ==
  ASSUME TypeOK, PeersAnswer, CrashFree, RecoveryInv, FinalInv, [Next]_vars,
         NEW p \in Participants, RecoveryAction(p)
  PROVE  FinalInv'
<1>t. /\ db \in [Participants -> MaybeStates]
      /\ rec = [q \in Participants |-> rec[q]] /\ RecOK(p, rec[p])
      /\ Peers \in [Participants -> SUBSET Participants]
  BY PeersAssumption DEF TypeOK
<1>1. \A q \in Participants : mem[q] \in Final => mem'[q] = mem[q]
  BY FinalStable
<1>2. \/ rec'[p].ans = rec[p].ans
      \/ rec'[p].ans = NoAnswers(p)
      \/ \E q \in Peers[p] :
           /\ rec'[p].ans = [rec[p].ans EXCEPT ![q] = QueryState(q)]
           /\ UNCHANGED mem
  BY AnswerStep
<1>6. \A q \in Participants \ {p} : rec'[q] = rec[q]
  BY AnswerStep
<1>3. \A q \in Participants : \A r \in Peers[q] :
        rec'[q].ans[r] = "COMMIT" => mem'[r] = "COMMIT"
  <2>1. \A r \in Peers[p] : rec'[p].ans[r] = "COMMIT" =>
          rec[p].ans[r] = "COMMIT" \/ (mem[r] = "COMMIT" /\ UNCHANGED mem)
    <3>1. \A r \in Peers[p] : NoAnswers(p)[r] # "COMMIT"
      BY DEF NoAnswers
    <3>2. \A q \in Peers[p] : QueryState(q) = "COMMIT" => mem[q] = "COMMIT"
      BY DEF QueryState
    <3>3. DOMAIN rec[p].ans = Peers[p]
      BY <1>t DEF RecOK
    <3> QED BY <1>2, <3>1, <3>2, <3>3
  <2>2. \A r \in Peers[p] : rec'[p].ans[r] = "COMMIT" => mem'[r] = "COMMIT"
    BY <2>1, <1>1, <1>t DEF FinalInv, Final
  <2>3. \A q \in Participants \ {p} : \A r \in Peers[q] :
          rec'[q].ans[r] = "COMMIT" => mem'[r] = "COMMIT"
    BY <1>1, <1>6, <1>t DEF FinalInv, Final
  <2> QED BY <2>2, <2>3
<1>4. \A q \in Participants : db'[q] \in Final => mem'[q] = db'[q]
  <2>1. CASE SaveResolution(p)
    <3>1. mem[p] = rec[p].to /\ UNCHANGED mem
      BY <2>1 DEF SaveResolution, RecoveryInv, RecoveryInvAt
    <3> QED BY <2>1, <3>1, <1>t DEF SaveResolution, FinalInv
  <2>2. CASE ~SaveResolution(p)
    <3>1. UNCHANGED db
      BY <2>2 DEF RecoveryAction, MonitorTimeout, TriggerRecovery, RecoveryStep,
         ReadState, AbortPending, MakeDecision, QueryPeer, ResolutionFails, partVars
    <3> QED BY <3>1, <1>1 DEF FinalInv
  <2> QED BY <2>1, <2>2
<1>5. UNCHANGED call
  BY RecoveryFrame
<1> QED
  BY <1>1, <1>3, <1>4, <1>5, UrlsType DEF FinalInv, Final

LEMMA FinalInvNext ==
  ASSUME TypeOK, PeersAnswer, CrashFree, RecoveryInv, FinalInv, [Next]_vars
  PROVE  FinalInv'
<1>1. CASE CoordinatorStep
  <2>1. UNCHANGED <<mem, db, rec>>
    BY <1>1, CoordinatorFrame DEF partVars, recVars
  <2>2. \A m \in Msgs, k \in Positions :
          call'[m][k] \in {"save", "saveAbort"} => call'[m][k] = call[m][k]
    BY <1>1 DEF CoordinatorStep, StartFails, Send, InitReturns, VoteReturns,
       AckReturns, DecisionReturns, AllInitialized, CountVotes, CountAcks, Finish,
       TypeOK
  <2> QED BY <2>1, <2>2 DEF FinalInv
<1>2. CASE CrashCoordinator \/ UNCHANGED vars
  BY <1>2 DEF CrashCoordinator, vars, partVars, recVars, FinalInv
<1> QED
  BY <1>1, <1>2, CrashFreeCases, FinalInvCall, FinalInvRecovery

-----------------------------------------------------------------------------
(* Before the participants are on their own, they follow the coordinator.  *)

(* No recovery runs, and none begins.                                      *)
LEMMA NoRecoveryYet ==
  ASSUME AccurateTimeouts, RecoveryInv, ~Orphaned, NEW p \in Participants
  PROVE  /\ rec[p].pc = "idle" /\ rec[p].ans = NoAnswers(p)
         /\ ~RecoveryAction(p)
<1>1. rec[p].pc = "idle" /\ rec[p].ans = NoAnswers(p)
  BY DEF RecoveryInv, RecoveryInvAt
<1>2. ~MonitorTimeout(p) /\ ~TriggerRecovery(p)
  BY DEF MonitorTimeout, TriggerRecovery, Silent, AccurateTimeouts, Orphaned
<1> QED
  BY <1>1, <1>2 DEF RecoveryAction, RecoveryStep, ReadState, AbortPending,
     MakeDecision, SaveResolution, QueryPeer, ResolutionFails

LEMMA FollowInvCall ==
  ASSUME TypeOK, ValidityInv, DistinctUrls, PhaseInv,
         Committing => Committing', FollowInv,
         NEW m \in Msgs, NEW k \in Positions, CallStep(m, k)
  PROVE  FollowInv'
<1> DEFINE p == Urls[k]
<1>t. /\ call \in [Msgs -> [Positions -> CallStates]]
      /\ mem \in [Participants -> MaybeStates]
      /\ p \in Participants /\ p \in Called
      /\ {"CAN_COMMIT", "PRE_COMMIT", "ABORT"} \subseteq Msgs
  BY UrlsType DEF TypeOK, Msgs
<1>1. PICK s \in CallStates \ {"none", "sent"} : call' = [call EXCEPT ![m][k] = s]
  BY CallFrame
<1>2. s = call'[m][k]
  BY <1>1, <1>t
<1>3. /\ \A q \in Participants \ {p} : mem'[q] = mem[q]
      /\ \/ mem' = mem
         \/ s = "save" /\ mem'[p] = Target[m] /\ (m = "INIT_TXN" => mem[p] = "NONE")
         \/ s = "saveAbort" /\ m = "CAN_COMMIT" /\ mem'[p] = "ABORT"
  BY <1>2, <1>t, CallFrame, CallMeaning
<1>4. \A j \in Positions \ {k} :
        /\ \A n \in Msgs : call'[n][j] = call[n][j]
        /\ mem'[Urls[j]] = mem[Urls[j]]
  BY <1>1, <1>3, <1>t, UrlsType DEF DistinctUrls
<1>5. \A n \in Msgs \ {m} : call'[n][k] = call[n][k]
  BY <1>1, <1>t
<1>6. call["PRE_COMMIT"][k] # "none" => call["CAN_COMMIT"][k] = "YES"
  BY <1>t DEF ValidityInv, NoTrace, PastVoting, AllYes, PhaseInv
<1>7. call[m][k] \in {"sent"} \cup Handling
  BY CallFrame
<1>8. ASSUME Spared(k)'
      PROVE  /\ call'["CAN_COMMIT"][k] \in {"save", "YES"} =>
                  mem'[p] \in {"READY", "PRE_COMMIT", "COMMIT"}
             /\ call'["PRE_COMMIT"][k] \in {"save", "ACK"} => Prepared(p)'
  <2>1. Spared(k) /\ m # "ABORT"
    BY <1>1, <1>5, <1>8, <1>t DEF Spared
  <2>2. CASE m = "CAN_COMMIT"
    <3>1. call'["PRE_COMMIT"][k] = "none"
      BY <1>5, <1>6, <1>7, <2>2, <1>t DEF Handling
    <3>2. s = "save" => mem'[p] = "READY"
      BY <1>2, <2>2, CallMeaning DEF Target
    <3>3. s = "YES" => mem'[p] \in {"READY", "PRE_COMMIT", "COMMIT"}
      BY <1>2, <2>1, <2>2, CallMeaning DEF FollowInv
    <3> QED BY <1>2, <2>2, <3>1, <3>2, <3>3
  <2>3. CASE m = "PRE_COMMIT"
    <3>1. call'["CAN_COMMIT"][k] = "YES" /\ call["CAN_COMMIT"][k] = "YES"
      BY <1>5, <1>6, <1>7, <2>3, <1>t DEF Handling
    <3>2. mem[p] \in {"READY", "PRE_COMMIT", "COMMIT"}
      BY <2>1, <3>1 DEF FollowInv
    <3>3. s = "save" => mem'[p] = "PRE_COMMIT"
      BY <1>2, <2>3, CallMeaning DEF Target
    <3>4. s # "save" => mem' = mem
      BY <1>3, <2>3
    <3>5. s = "ACK" => Prepared(p)
      <4>1. CASE call[m][k] = "save"
        BY <2>1, <2>3, <4>1 DEF FollowInv
      <4>2. CASE call[m][k] # "save"
        <5>1. s = "ACK" => ~CanMove(p, "PRE_COMMIT")
          BY <1>2, <2>3, <4>2, <1>t, CallMeaning DEF PhaseInv, Target
        <5> QED BY <3>2, <5>1 DEF CanMove, ValidTransitions, Prepared
      <4> QED BY <4>1, <4>2
    <3> QED BY <1>2, <2>3, <3>1, <3>2, <3>3, <3>4, <3>5 DEF Prepared
  <2>4. CASE m \in {"INIT_TXN", "DO_COMMIT"}
    <3>1. mem'[p] = mem[p] \/ mem'[p] = "COMMIT" \/ mem[p] = "NONE"
      BY <1>3, <2>4 DEF Target
    <3> QED BY <1>5, <1>t, <2>1, <2>4, <3>1 DEF FollowInv, Prepared
  <2> QED BY <2>1, <2>2, <2>3, <2>4 DEF Msgs
<1>9. \A q \in Participants : mem'[q] = "COMMIT" => Committing'
  <2>1. mem'[p] = "COMMIT" => mem[p] = "COMMIT" \/ m = "DO_COMMIT"
    BY <1>3 DEF Target, Msgs
  <2>2. m = "DO_COMMIT" => Committing'
    BY <1>2 DEF Committing
  <2> QED BY <1>3, <2>1, <2>2 DEF FollowInv
<1> QED
  <2>1. \A j \in Positions : Spared(j)' =>
          /\ call'["CAN_COMMIT"][j] \in {"save", "YES"} =>
               mem'[Urls[j]] \in {"READY", "PRE_COMMIT", "COMMIT"}
          /\ call'["PRE_COMMIT"][j] \in {"save", "ACK"} => Prepared(Urls[j])'
    BY <1>4, <1>8, <1>t DEF FollowInv, Spared, Prepared
  <2> QED BY <1>9, <2>1 DEF FollowInv

(* The other steps make calls, or nothing that FollowInv speaks of.        *)
LEMMA FollowInvNext ==
  ASSUME TypeOK, ValidityInv, DistinctUrls, AccurateTimeouts,
         PeersAnswer, CrashFree, RecoveryInv, ~Orphaned, PhaseInv,
         Committing => Committing', FollowInv, [Next]_vars
  PROVE  FollowInv' /\ UNCHANGED rec
<1>t. /\ call \in [Msgs -> [Positions -> CallStates]]
      /\ {"CAN_COMMIT", "PRE_COMMIT", "ABORT"} \subseteq Msgs
  BY DEF TypeOK, Msgs
<1>1. CASE CoordinatorStep
  <2>1. UNCHANGED <<mem, rec>>
    BY <1>1, CoordinatorFrame DEF partVars, recVars
  <2>2. \A m \in Msgs, k \in Positions :
          \/ call'[m][k] = call[m][k]
          \/ call[m][k] = "none" /\ call'[m][k] = "sent"
    BY <1>1, <1>t DEF CoordinatorStep, StartFails, Send, InitReturns, VoteReturns,
       AckReturns, DecisionReturns, AllInitialized, CountVotes, CountAcks, Finish
  <2> QED BY <2>1, <2>2, <1>t DEF FollowInv, Spared, Prepared
<1>2. CASE CrashCoordinator \/ UNCHANGED vars
  BY <1>2 DEF CrashCoordinator, vars, partVars, recVars, FollowInv, Spared, Prepared
<1>3. ASSUME NEW m \in Msgs, NEW k \in Positions, CallStep(m, k)
      PROVE  FollowInv' /\ UNCHANGED rec
  BY <1>3, FollowInvCall, CallFrame DEF recVars
<1> QED
  BY <1>1, <1>2, <1>3, CrashFreeCases, NoRecoveryYet

-----------------------------------------------------------------------------
(* What recovery comes to is decided by the time it begins, and stays so.  *)

(* When the participants begin to recover they are all prepared, or one is *)
(* not; and they are all prepared if the coordinator was committing, for   *)
(* it had everybody's ACK.                                                 *)
Calm == \A p \in Participants : rec[p].pc = "idle" /\ rec[p].ans = NoAnswers(p)

LEMMA CalmDecided == Calm /\ PhaseInv /\ FollowInv => DecidedInv
<1> SUFFICES ASSUME Calm, PhaseInv, FollowInv PROVE DecidedInv
  OBVIOUS
<1> USE DEF Calm
<1>1. \A p \in Participants : \A q \in Peers[p] : rec[p].ans[q] = "none"
  BY DEF NoAnswers
<1>2. (\A q \in Called : Prepared(q)) => Cleared
  BY <1>1 DEF Cleared
<1>3. \A q \in Called : ~Prepared(q) => DoomedBy(q)
  BY <1>1 DEF DoomedBy
<1>4. Committed => \A q \in Called : Prepared(q)
  <2> SUFFICES ASSUME Committed, NEW k \in Positions PROVE Prepared(Urls[k])
    BY DEF Called
  <2>1. Committing
    BY DEF Committed, FollowInv
  <2>2. call["PRE_COMMIT"][k] = "ACK" /\ Spared(k)
    BY <2>1 DEF PhaseInv, AllAcked, Called, Spared
  <2> QED BY <2>2 DEF FollowInv
<1> QED
  BY <1>2, <1>3, <1>4 DEF DecidedInv

LEMMA CalmDecidedNext == Calm' /\ PhaseInv' /\ FollowInv' => DecidedInv'
BY CalmDecided, PTL

(* In a transaction that is cleared nobody decides ABORT.                  *)
LEMMA ClearedCommits ==
  ASSUME TypeOK, Cleared, NEW p \in Participants, MakeDecision(p)
  PROVE  Decision(rec[p].ans) # "ABORT"
<1>1. \A q \in DOMAIN rec[p].ans : rec[p].ans[q] \in {"PRE_COMMIT", "COMMIT", "UNKNOWN"}
  BY DEF Cleared, MakeDecision, TypeOK, RecOK
<1> QED
  BY <1>1 DEF Decision

(* In one that is doomed nobody decides COMMIT: the participant that is    *)
(* not prepared is among the peers, and its answer is not PRE_COMMIT.      *)
LEMMA DoomedAborts ==
  ASSUME TypeOK, PeersKnown, CrashFree, RecoveryInv, FinalInv, ~Committed,
         NEW q \in Called, DoomedBy(q), NEW p \in Participants, MakeDecision(p)
  PROVE  Decision(rec[p].ans) # "COMMIT"
<1>t. DOMAIN rec[p].ans = Peers[p] /\ Peers[p] \subseteq Participants
  BY PeersAssumption DEF TypeOK, RecOK
<1>1. mem[p] = "PRE_COMMIT" /\ p \in Called
  BY DEF MakeDecision, RecoveryInv, RecoveryInvAt, CrashFree
<1>2. q \in Peers[p]
  BY <1>1 DEF PeersKnown, DoomedBy, Prepared
<1>3. rec[p].ans[q] \notin {"PRE_COMMIT", "UNREACHABLE"}
  BY <1>2 DEF DoomedBy
<1>4. \A r \in Peers[p] : rec[p].ans[r] # "COMMIT"
  BY <1>t DEF FinalInv, Committed
<1> QED
  BY <1>2, <1>3, <1>4, <1>t DEF Decision

LEMMA DecidedInvRecovery ==
  ASSUME TypeOK, PeersAnswer, PeersKnown, CrashFree, RecoveryInv, FinalInv,
         DecidedInv, NEW p \in Participants, RecoveryAction(p)
  PROVE  DecidedInv'
<1>t. /\ mem \in [Participants -> MaybeStates] /\ RecOK(p, rec[p])
      /\ Peers[p] \subseteq Participants /\ Called \subseteq Participants
  BY PeersAssumption, UrlsType DEF TypeOK
<1>1. Committing' = Committing
  BY RecoveryFrame DEF Committing, coordVars
<1>2. \A q \in Participants \ {p} : rec'[q] = rec[q]
  BY AnswerStep
<1>3. \A q \in Peers[p] :
        rec'[p].ans[q] \in {"none", rec[p].ans[q]}
          \/ (rec'[p].ans[q] = QueryState(q) /\ UNCHANGED mem)
  <2>1. \A q \in Peers[p] : NoAnswers(p)[q] = "none"
    BY DEF NoAnswers
  <2>2. DOMAIN rec[p].ans = Peers[p]
    BY <1>t DEF RecOK
  <2>3. \/ rec'[p].ans = rec[p].ans
        \/ rec'[p].ans = NoAnswers(p)
        \/ \E r \in Peers[p] :
             /\ rec'[p].ans = [rec[p].ans EXCEPT ![r] = QueryState(r)]
             /\ UNCHANGED mem
    BY AnswerStep
  <2> QED BY <2>1, <2>2, <2>3
<1>4. CASE Cleared
  <2>1. mem' = mem \/ mem' = [mem EXCEPT ![p] = "COMMIT"]
    BY <1>4, RecoveryMem, ClearedCommits DEF Cleared, Final
  <2>2. \A q \in Called : Prepared(q)'
    BY <1>4, <2>1, <1>t DEF Cleared, Prepared
  <2>3. mem[p] \notin {"INIT", "READY"}
    BY <1>4 DEF Cleared, Prepared, CrashFree
  <2>4. \A q \in Participants : rec'[q].pc # "abort"
    BY <1>2, <1>4, <2>3, AnswerStep DEF Cleared
  <2>5. \A q \in Peers[p] : QueryState(q) \in {"PRE_COMMIT", "COMMIT", "UNKNOWN"}
    BY <1>4, <1>t DEF Cleared, Prepared, CrashFree, QueryState
  <2>6. \A r \in Participants : \A q \in Peers[r] :
          rec'[r].ans[q] \in {"none", "PRE_COMMIT", "COMMIT", "UNKNOWN"}
    BY <1>2, <1>3, <1>4, <2>5 DEF Cleared
  <2> QED BY <2>2, <2>4, <2>6 DEF DecidedInv, Cleared
<1>5. CASE ~Cleared
  <2>1. ~Committed
    BY <1>5 DEF DecidedInv
  <2>2. PICK q \in Called : DoomedBy(q)
    BY <1>5 DEF DecidedInv
  <2>3. mem' = mem \/ mem' = [mem EXCEPT ![p] = "ABORT"]
    BY <2>1, <2>2, RecoveryMem, DoomedAborts DEF Final
  <2>4. ~Committed'
    BY <1>1, <2>1, <2>3, <1>t DEF Committed
  <2>5. ~Prepared(q)'
    BY <2>2, <2>3, <1>t DEF DoomedBy, Prepared
  <2>6. QueryState(q) \notin {"PRE_COMMIT", "COMMIT", "UNREACHABLE"}
    BY <2>2, <1>t DEF DoomedBy, Prepared, QueryState, MaybeStates, States
  <2>7. \A r \in Participants : q \in Peers[r] =>
          rec'[r].ans[q] \notin {"PRE_COMMIT", "COMMIT", "UNREACHABLE"}
    BY <1>2, <1>3, <2>2, <2>6 DEF DoomedBy
  <2> QED BY <2>4, <2>5, <2>7 DEF DecidedInv, DoomedBy
<1> QED
  BY <1>4, <1>5

-----------------------------------------------------------------------------
(* The whole invariant.                                                    *)

LEMMA BarrierInvInit == Init => BarrierInv
<1> SUFFICES ASSUME Init PROVE BarrierInv
  OBVIOUS
<1>1. CrashFree
  BY DEF Init, CrashFree
<1>2. PhaseInv
  BY UrlsType DEF Init, PhaseInv, Committing, Msgs
<1>3. FinalInv
  <2>1. \A p \in Participants : \A q \in Peers[p] : Idle(p).ans[q] = "none"
    BY DEF Idle, NoAnswers
  <2> QED BY <2>1 DEF Init, FinalInv, Final
<1>4. FollowInv
  BY DEF Init, FollowInv, Msgs
<1>5. DecidedInv
  BY <1>2, <1>4, CalmDecided DEF Init, Idle, Calm
<1> QED
  BY <1>1, <1>2, <1>3, <1>4, <1>5 DEF BarrierInv

LEMMA BarrierInvNext ==
  ASSUME AccurateTimeouts, PeersAnswer, PeersKnown, DistinctUrls,
         TypeOK, VoteInv, ValidityInv, RecoveryInv, BarrierInv, [Next]_vars
  PROVE  BarrierInv'
<1>1. CrashFree' /\ PhaseInv' /\ FinalInv' /\ (Committing => Committing')
  BY CrashFreeNext, PhaseInvNext, FinalInvNext DEF BarrierInv
<1>2. CASE ~Orphaned
  <2>1. FollowInv' /\ UNCHANGED rec
    BY <1>1, <1>2, FollowInvNext DEF BarrierInv
  <2>2. Calm'
    BY <1>2, <2>1, NoRecoveryYet DEF Calm
  <2>3. DecidedInv'
    BY <1>1, <2>1, <2>2, CalmDecidedNext
  <2> QED BY <1>1, <2>1, <2>3 DEF BarrierInv
<1>3. CASE Orphaned
  <2>1. Orphaned' /\ ~CoordinatorStep
    BY <1>3, OrphanedStable, CoordinatorFrame DEF Orphaned
  <2>2. (\E p \in Participants : RecoveryAction(p)) \/ UNCHANGED vars
    BY <1>3, OrphanedStable DEF BarrierInv, CrashFree, PeersAnswer,
       CrashParticipant, Restart
  <2>3. ASSUME NEW p \in Participants, RecoveryAction(p) PROVE DecidedInv'
    BY <2>3, DecidedInvRecovery DEF BarrierInv
  <2>4. UNCHANGED vars => DecidedInv'
    BY DEF vars, coordVars, partVars, recVars, BarrierInv, DecidedInv, Cleared,
       DoomedBy, Committed, Committing, Prepared
  <2> QED BY <1>1, <2>1, <2>2, <2>3, <2>4 DEF BarrierInv
<1> QED
  BY <1>2, <1>3

LEMMA BarrierInvariant ==
  ASSUME AccurateTimeouts, PeersAnswer, PeersKnown, DistinctUrls
  PROVE  Spec => []BarrierInv
<1>1. TypeOK /\ VoteInv /\ ValidityInv /\ RecoveryInv /\ BarrierInv /\ [Next]_vars
        => BarrierInv'
  BY BarrierInvNext
<1> QED
  BY <1>1, BarrierInvInit, TypeCorrect, VoteInvariant, ValidityInvariant,
     RecoveryInvariant, PTL DEF Spec

LEMMA BarrierHolds ==
  ASSUME BarrierInv
  PROVE  CommitBarrier /\ Agreement
<1>1. \A p \in Participants, d \in Final : d \in {mem[p], db[p]} => mem[p] = d
  BY DEF BarrierInv, FinalInv
<1>2. Committed => \A q \in Called : Prepared(q)
  BY DEF BarrierInv, DecidedInv, Cleared
<1>3. CommitBarrier
  BY <1>1, <1>2 DEF CommitBarrier, Committed, Committing, Prepared, Final
<1>4. Agreement
  <2> SUFFICES ASSUME NEW p \in Participants, NEW q \in Participants,
                      "COMMIT" \in {mem[p], db[p]}, "ABORT" \in {mem[q], db[q]}
               PROVE  FALSE
    BY DEF Agreement
  <2>1. mem[p] = "COMMIT" /\ mem[q] = "ABORT"
    BY <1>1 DEF Final
  <2>2. q \in Called
    BY <2>1 DEF BarrierInv, CrashFree
  <2> QED BY <1>2, <2>1, <2>2 DEF Committed, Prepared
<1> QED
  BY <1>3, <1>4

(* Three-phase commit's barrier, whatever requests are lost or late and    *)
(* whatever writes fail: while a COMMIT exists anywhere, every participant *)
(* of the transaction is prepared.                                         *)
THEOREM Barrier ==
  ASSUME AccurateTimeouts, PeersAnswer, PeersKnown, DistinctUrls
  PROVE  Spec => []CommitBarrier
BY BarrierHolds, BarrierInvariant, PTL

(* Atomicity, in memory and on disk, across the death of the coordinator:  *)
(* the participants that recover on their own never decide against one     *)
(* that has decided.                                                       *)
THEOREM Atomicity ==
  ASSUME AccurateTimeouts, PeersAnswer, PeersKnown, DistinctUrls
  PROVE  Spec => []Agreement
BY BarrierHolds, BarrierInvariant, PTL

-----------------------------------------------------------------------------
(* Atomic commitment is implemented.                                       *)

Voted == {p \in Called : votes[p] = "YES"}
Outcome == [p \in Called |-> IF mem[p] \in Final THEN mem[p] ELSE "undecided"]

LEMMA AtomicInit == Init => Atomic!Init
<1> SUFFICES ASSUME Init PROVE Atomic!Init
  OBVIOUS
<1>1. \A p \in Called : votes[p] = "none" /\ mem[p] = "NONE"
  BY UrlsType DEF Init
<1> QED
  BY <1>1 DEF Atomic!Init, Final

(* A vote is counted once, before anybody commits.                         *)
LEMMA AtomicVote ==
  ASSUME TypeOK, DistinctUrls, PhaseInv, CommitValidity,
         NEW res, VoteReturns(res)
  PROVE  /\ UNCHANGED Outcome
         /\ \/ UNCHANGED Voted
            \/ \E p \in Called : Atomic!Vote(p)
<1>1. /\ phase = "CAN_COMMIT" /\ UNCHANGED mem
      /\ next \in Positions /\ next \in Nat /\ Urls[next] \in Called
      /\ votes' = [votes EXCEPT ![Urls[next]] =
                     IF res \in {"YES", "NO"} THEN res ELSE "NO"]
  BY UrlsType DEF VoteReturns, Returned, TypeOK, partVars
<1>2. votes \in [Called -> {"none", "YES", "NO"}]
  BY DEF TypeOK
<1>3. votes[Urls[next]] = "none"
  BY <1>1 DEF PhaseInv
<1>4. \A p \in Called : Outcome[p] # "COMMIT"
  BY <1>1, UrlsType DEF CommitValidity, PastVoting, Outcome
<1>5. Voted' = Voted \/ Voted' = Voted \cup {Urls[next]}
  BY <1>1, <1>2, <1>3 DEF Voted
<1>6. Outcome' = Outcome
  BY <1>1 DEF Outcome
<1> QED
  BY <1>1, <1>4, <1>5, <1>6 DEF Atomic!Vote, Atomic!Nobody, Voted, Outcome

(* A participant decides once; the barrier keeps the two decisions apart.  *)
LEMMA AtomicDecide ==
  ASSUME TypeOK, CommitValidity', CommitBarrier', UNCHANGED votes,
         NEW p \in Called, NEW s \in Final, CanMove(p, s),
         mem' = [mem EXCEPT ![p] = s]
  PROVE  Atomic!Commit(p) \/ Atomic!Abort(p)
<1>t. mem \in [Participants -> MaybeStates] /\ Called \subseteq Participants
  BY UrlsType DEF TypeOK
<1>1. mem[p] \notin Final
  BY DEF Final, CanMove, ValidTransitions
<1>2. Outcome' = [Outcome EXCEPT ![p] = s] /\ Outcome[p] = "undecided"
  BY <1>1, <1>t DEF Outcome
<1>3. Voted' = Voted
  BY DEF Voted
<1>4. \A q \in Called : mem[q] \in Final => q # p /\ mem'[q] = mem[q]
  BY <1>1, <1>t
<1>5. CASE s = "COMMIT"
  <2>1. mem'[p] = "COMMIT"
    BY <1>5, <1>t
  <2>2. Voted = Called
    BY <2>1, <1>t DEF CommitValidity, PastVoting, AllYes, Voted
  <2>3. \A q \in Called : mem'[q] \in {"PRE_COMMIT", "COMMIT"}
    BY <2>1, <1>t DEF CommitBarrier
  <2>4. \A q \in Called : Outcome[q] # "ABORT"
    BY <1>4, <2>3 DEF Outcome, Final
  <2> QED BY <1>2, <1>3, <1>5, <2>2, <2>4
          DEF Atomic!Commit, Atomic!Decide, Atomic!Nobody, Voted, Outcome
<1>6. CASE s = "ABORT"
  <2>1. \A q \in Called : mem[q] # "COMMIT"
    <3> SUFFICES ASSUME NEW q \in Called, mem[q] = "COMMIT" PROVE FALSE
      OBVIOUS
    <3>1. mem'[q] = "COMMIT" /\ mem'[p] = "ABORT"
      BY <1>4, <1>6, <1>t DEF Final
    <3> QED BY <3>1, <1>t DEF CommitBarrier
  <2>2. \A q \in Called : Outcome[q] # "COMMIT"
    BY <2>1 DEF Outcome
  <2> QED BY <1>2, <1>3, <1>6, <2>2
          DEF Atomic!Abort, Atomic!Decide, Atomic!Nobody, Voted, Outcome
<1> QED
  BY <1>5, <1>6 DEF Final

LEMMA AtomicStep ==
  ASSUME PeersAnswer, DistinctUrls, TypeOK, BarrierInv, CommitValidity,
         CommitValidity', CommitBarrier', [Next]_vars
  PROVE  [Atomic!Next]_(Atomic!vars)
<1>0. CrashFree /\ PhaseInv
  BY DEF BarrierInv
<1>1. ASSUME NEW res, VoteReturns(res) PROVE [Atomic!Next]_(Atomic!vars)
  BY <1>0, <1>1, AtomicVote DEF Atomic!Next, Atomic!vars, Voted, Outcome
<1>2. CASE UNCHANGED votes
  <2>1. CASE mem' = mem
    BY <1>2, <2>1 DEF Atomic!vars
  <2>2. ASSUME NEW p \in Called, NEW s \in States,
               mem' = [mem EXCEPT ![p] = s],
               CanMove(p, s) \/ (mem[p] = "NONE" /\ s = "INIT")
        PROVE  [Atomic!Next]_(Atomic!vars)
    <3>1. CASE s \in Final
      BY <1>2, <2>2, <3>1, AtomicDecide DEF Atomic!Next, Final
    <3>2. CASE s \notin Final
      <4>1. mem[p] \notin Final
        BY <2>2 DEF Final, CanMove, ValidTransitions
      <4>2. Outcome' = Outcome
        BY <2>2, <3>2, <4>1, UrlsType DEF Outcome, TypeOK
      <4> QED BY <1>2, <4>2 DEF Atomic!vars, Outcome
    <3> QED BY <3>1, <3>2
  <2> QED BY <1>0, <2>1, <2>2, MemStep
<1>3. UNCHANGED votes \/ \E res : VoteReturns(res)
  <2>1. CoordinatorStep => UNCHANGED votes \/ \E res : VoteReturns(res)
    BY DEF CoordinatorStep, StartFails, Send, InitReturns, AckReturns,
       DecisionReturns, AllInitialized, CountVotes, CountAcks, Finish, coordVars
  <2>2. CrashCoordinator \/ UNCHANGED vars => UNCHANGED votes
    BY DEF CrashCoordinator, vars, coordVars
  <2>3. \A m \in Msgs, k \in Positions : CallStep(m, k) => UNCHANGED votes
    BY CallFrame DEF coordVars
  <2>4. \A p \in Participants : RecoveryAction(p) => UNCHANGED votes
    BY RecoveryFrame DEF coordVars
  <2> QED BY <1>0, <2>1, <2>2, <2>3, <2>4, CrashFreeCases
<1> QED
  BY <1>1, <1>2, <1>3

(* The participants, their coordinator and their recovery threads together *)
(* implement atomic commitment: seen from outside, votes are counted, and  *)
(* a participant commits only when all are YES and none has aborted,       *)
(* aborts only when none has committed, and keeps its decision.            *)
THEOREM ImplementsAtomicCommit ==
  ASSUME AccurateTimeouts, PeersAnswer, PeersKnown, DistinctUrls
  PROVE  Spec => AtomicSpec
<1>1. TypeOK /\ BarrierInv /\ CommitValidity /\ CommitValidity' /\ CommitBarrier'
        /\ [Next]_vars => [Atomic!Next]_(Atomic!vars)
  BY AtomicStep
<1> QED
  BY <1>1, AtomicInit, TypeCorrect, BarrierInvariant, ValidCommits, Barrier, PTL
     DEF Spec, AtomicSpec, Atomic!Spec

-----------------------------------------------------------------------------
(* Recovery decides, where PARTICIPANT_PEERS names the participants of the *)
(* transaction and nobody else, and there are two or more of them.         *)

PeersExact == \A p \in Called : Peers[p] = Called \ {p} /\ Peers[p] # {}

Tracked(p) == mem[p] # "NONE"

(* Every participant of the transaction is tracked before somebody can be  *)
(* prepared, so that no peer of a prepared one answers UNKNOWN.            *)
TrackedInv ==
  /\ \A p \in Participants :
       /\ db[p] # "NONE" \/ rec[p].pc = "read" => Tracked(p)
       /\ \A q \in Peers[p] : rec[p].ans[q] \notin {"UNKNOWN", "UNREACHABLE"}
  /\ \A k \in Positions :
       /\ call["INIT_TXN"][k] = "created" => Tracked(Urls[k])
       /\ \A m \in Msgs : call[m][k] \in {"save", "saveAbort"} => Tracked(Urls[k])
  /\ RecoveryDecides

LEMMA TrackedStable ==
  ASSUME TypeOK, PeersAnswer, CrashFree, [Next]_vars,
         NEW p \in Participants, Tracked(p)
  PROVE  Tracked(p)'
<1>1. mem \in [Participants -> MaybeStates] /\ "NONE" \notin States
  BY DEF TypeOK, States
<1> QED
  BY <1>1, MemStep, UrlsType DEF Tracked

LEMMA AllTracked ==
  ASSUME VoteInv, ValidityInv, TrackedInv,
         \E p \in Participants : mem[p] = "PRE_COMMIT"
  PROVE  \A q \in Called : Tracked(q)
<1>1. AllYes
  BY DEF ValidityInv, PastVoting, NoTrace
<1>2. 1 \in Positions /\ Urls[1] \in Called
  BY UrlsAssumption, UrlsType DEF Positions
<1>3. InitDone
  BY <1>1, <1>2 DEF VoteInv, AllYes
<1> QED
  BY <1>3 DEF InitDone, TrackedInv, Called

LEMMA TrackedInvCall ==
  ASSUME TypeOK, AccurateTimeouts, PeersAnswer, CrashFree, RecoveryInv, TrackedInv,
         [Next]_vars, NEW m \in Msgs, NEW k \in Positions, CallStep(m, k)
  PROVE  TrackedInv'
<1> DEFINE p == Urls[k]
<1>t. /\ call \in [Msgs -> [Positions -> CallStates]]
      /\ db \in [Participants -> MaybeStates]
      /\ p \in Participants /\ Target[m] # "NONE" /\ "INIT_TXN" \in Msgs
  BY UrlsType, TargetType DEF TypeOK, States, Msgs
<1>1. \A q \in Participants : Tracked(q) => Tracked(q)'
  BY TrackedStable
<1>2. UNCHANGED <<rec, report>> /\ ~Orphaned
  BY CallFrame DEF recVars, Orphaned, InTransit
<1>3. \A q \in Participants : db'[q] # "NONE" => Tracked(q)'
  <2>1. CASE db' = db
    BY <1>1, <2>1 DEF TrackedInv
  <2>2. CASE db' # db
    <3>1. /\ call[m][k] \in {"save", "saveAbort"}
          /\ db' = [db EXCEPT ![p] =
                      IF call[m][k] = "save" THEN Target[m] ELSE "ABORT"]
      BY <2>2, CallMeaning
    <3> QED BY <1>1, <1>t, <3>1 DEF TrackedInv
  <2> QED BY <2>1, <2>2
<1>4. call'[m][k] \in {"save", "saveAbort"} => Tracked(p)'
  BY <1>t, CallMeaning DEF Tracked
<1>5. m = "INIT_TXN" /\ call'[m][k] = "created" => Tracked(p)'
  <2> SUFFICES ASSUME m = "INIT_TXN", call'[m][k] = "created" PROVE Tracked(p)
    BY <1>1, <1>t
  <2> USE <1>t DEF SetCall
  <2>1. CASE LoseCall(m, k) \/ SaveFails(m, k)
    BY <2>1 DEF LoseCall, SaveFails
  <2>2. CASE InitTransaction(k)
    BY <2>2 DEF InitTransaction, Tracked
  <2>3. CASE SaveAndAnswer(m, k)
    BY <2>3 DEF SaveAndAnswer, TrackedInv
  <2>4. ~(ReceiveUnknown(m, k) \/ ReceiveValid(m, k) \/ ReceiveInvalid(m, k))
    BY DEF ReceiveUnknown, ReceiveValid, ReceiveInvalid
  <2> QED BY <2>1, <2>2, <2>3, <2>4 DEF CallStep, HandlerStep
<1>6. \A n \in Msgs, j \in Positions :
        (n # m \/ j # k) => call'[n][j] = call[n][j]
  BY <1>t, CallFrame
<1>7. \A q \in Participants : rec[q].pc = "idle" /\ report[q] = "none"
  BY <1>2 DEF RecoveryInv, RecoveryInvAt
<1>8. \A j \in Positions :
        /\ call'["INIT_TXN"][j] = "created" => Tracked(Urls[j])'
        /\ \A n \in Msgs : call'[n][j] \in {"save", "saveAbort"} => Tracked(Urls[j])'
  BY <1>1, <1>4, <1>5, <1>6, <1>t, UrlsType DEF TrackedInv
<1>9. RecoveryDecides'
  BY <1>2, <1>7 DEF RecoveryDecides
<1> QED
  BY <1>2, <1>3, <1>7, <1>8, <1>9 DEF TrackedInv

(* The answers of the peers of a prepared participant are states.          *)
LEMMA TrackedAnswers ==
  ASSUME TypeOK, PeersAnswer, PeersExact, CrashFree, VoteInv, ValidityInv,
         RecoveryInv, TrackedInv, NEW p \in Participants, RecoveryAction(p)
  PROVE  \A q \in Peers[p] : rec'[p].ans[q] \notin {"UNKNOWN", "UNREACHABLE"}
<1>t. /\ mem \in [Participants -> MaybeStates]
      /\ rec = [q \in Participants |-> rec[q]] /\ RecOK(p, rec[p])
      /\ DOMAIN rec[p].ans = Peers[p] /\ Called \subseteq Participants
  BY UrlsType DEF TypeOK, RecOK
<1>1. CASE \E q \in Peers[p] : QueryPeer(p, q)
  <2>1. PICK q \in Peers[p] : QueryPeer(p, q)
    BY <1>1
  <2>2. mem[p] = "PRE_COMMIT" /\ p \in Called
    BY <2>1 DEF QueryPeer, RecoveryInv, RecoveryInvAt, CrashFree
  <2>3. q \in Called /\ Tracked(q)
    BY <2>1, <2>2, AllTracked DEF PeersExact
  <2>4. QueryState(q) \in States
    BY <1>t, <2>3 DEF QueryState, Tracked, MaybeStates
  <2>5. rec' = [rec EXCEPT ![p].ans[q] = QueryState(q)]
    BY <1>t, <2>1, <2>3 DEF QueryPeer, CrashFree, PeersAnswer
  <2> DEFINE a == [rec[p].ans EXCEPT ![q] = QueryState(q)]
  <2>6. rec'[p].ans = a
    <3>1. rec' = [rec EXCEPT ![p] = [rec[p] EXCEPT !.ans = a]]
      BY <2>5
    <3>2. [rec[p] EXCEPT !.ans = a].ans = a
      BY <1>t DEF RecOK
    <3> QED BY <3>1, <3>2, <1>t
  <2> QED BY <1>t, <2>4, <2>6 DEF TrackedInv, States
<1>2. CASE ~ \E q \in Peers[p] : QueryPeer(p, q)
  <2>1. rec'[p].ans = rec[p].ans \/ rec'[p].ans = NoAnswers(p)
    <3>i. Idle(p).ans = NoAnswers(p)
      BY DEF Idle
    <3>1. CASE MonitorTimeout(p) \/ TriggerRecovery(p)
      BY <3>1, <1>t DEF MonitorTimeout, TriggerRecovery, AttemptRecovery, RecOK
    <3>2. CASE ReadState(p)
      BY <3>2, <1>t, <3>i DEF ReadState, Conclude, RecOK
    <3>3. CASE AbortPending(p) \/ MakeDecision(p)
      BY <3>3, <1>t, <3>i DEF AbortPending, MakeDecision, Resolve, Conclude, RecOK
    <3>4. CASE SaveResolution(p) \/ ResolutionFails(p)
      BY <3>4, <1>t, <3>i DEF SaveResolution, ResolutionFails, Conclude
    <3> QED
      BY <1>2, <3>1, <3>2, <3>3, <3>4 DEF RecoveryAction, RecoveryStep
  <2>2. \A q \in Peers[p] : NoAnswers(p)[q] = "none"
    BY DEF NoAnswers
  <2> QED BY <2>1, <2>2 DEF TrackedInv
<1> QED
  BY <1>1, <1>2

(* Answers that are all states leave nothing undecided.                    *)
LEMMA AnswersDecide ==
  ASSUME NEW p \in Participants, TypeOK, TrackedInv, Peers[p] # {},
         MakeDecision(p)
  PROVE  Decision(rec[p].ans) \in Final
<1>1. /\ DOMAIN rec[p].ans = Peers[p]
      /\ \A q \in Peers[p] : rec[p].ans[q] \in States
  BY DEF MakeDecision, TrackedInv, TypeOK, RecOK, PeerAnswers
<1> DEFINE reachable == {rec[p].ans[q] : q \in Peers[p]} \ {"UNREACHABLE"}
<1>2. reachable # {} /\ reachable \subseteq States
  BY <1>1 DEF States
<1>3. reachable \cap {"INIT", "READY", "COMMIT", "ABORT"} # {}
        \/ reachable = {"PRE_COMMIT"}
  BY <1>2 DEF States
<1> HIDE DEF reachable
<1>4. Decision(rec[p].ans) =
        IF reachable = {} THEN "UNKNOWN"
        ELSE IF "COMMIT" \in reachable THEN "COMMIT"
        ELSE IF "ABORT" \in reachable THEN "ABORT"
        ELSE IF reachable \cap {"INIT", "READY"} # {} THEN "ABORT"
        ELSE IF reachable = {"PRE_COMMIT"} THEN "COMMIT"
        ELSE "UNKNOWN"
  BY <1>1 DEF Decision, reachable
<1> QED
  BY <1>2, <1>3, <1>4 DEF Final

(* A recovery comes to an end with its participant decided.                *)
LEMMA RecoveryConcludes ==
  ASSUME TypeOK, AccurateTimeouts, PeersAnswer, PeersExact, CrashFree,
         RecoveryInv, TrackedInv, [Next]_vars,
         NEW p \in Participants, RecoveryAction(p)
  PROVE  /\ RecoveryDecides'
         /\ rec'[p].pc = "read" => rec[p].pc = "read" \/ db[p] # "NONE"
         /\ db'[p] # "NONE" => db[p] # "NONE" \/ mem[p] # "NONE"
         /\ \A q \in Participants \ {p} : db'[q] = db[q] /\ rec'[q] = rec[q]
<1>t. /\ mem \in [Participants -> MaybeStates]
      /\ db \in [Participants -> MaybeStates]
      /\ rec = [q \in Participants |-> rec[q]] /\ RecOK(p, rec[p])
      /\ report \in [Participants -> {"none", "COMMIT", "ABORT", "UNKNOWN"}]
  BY DEF TypeOK
<1>i. Idle(p).pc = "idle"
  BY DEF Idle
<1>1. \A q \in Participants : mem[q] \in Final => mem'[q] = mem[q]
  BY FinalStable
<1> DEFINE Concluded ==
             /\ \A q \in Participants \ {p} :
                  db'[q] = db[q] /\ rec'[q] = rec[q] /\ report'[q] = report[q]
             /\ report'[p] = report[p] \/ mem'[p] \in Final
             /\ rec'[p].pc = "read" => rec[p].pc = "read" \/ db[p] # "NONE"
             /\ db'[p] # "NONE" => db[p] # "NONE" \/ mem[p] # "NONE"
<1>2. SUFFICES Concluded
  BY <1>1 DEF TrackedInv, RecoveryDecides
<1>3. CASE MonitorTimeout(p)
  BY <1>3, <1>t DEF MonitorTimeout, AttemptRecovery, RecOK
<1>4. CASE TriggerRecovery(p)
  BY <1>4 DEF TriggerRecovery, AccurateTimeouts
<1>5. CASE ReadState(p)
  BY <1>5, <1>t, <1>i DEF ReadState, Conclude, RecOK, TrackedInv, Tracked, partVars
<1>6. ASSUME NEW to \in Final, Resolve(p, to), CanMove(p, to), UNCHANGED db
      PROVE  Concluded
  BY <1>6, <1>t DEF Resolve, RecOK
<1>7. CASE AbortPending(p)
  <2>1. CanMove(p, "ABORT")
    BY <1>7 DEF AbortPending, RecoveryInv, RecoveryInvAt, CanMove, ValidTransitions
  <2> QED BY <1>6, <1>7, <2>1 DEF AbortPending, Final
<1>8. CASE MakeDecision(p)
  <2> DEFINE d == Decision(rec[p].ans)
  <2>1. mem[p] = "PRE_COMMIT" /\ p \in Called
    BY <1>8 DEF MakeDecision, RecoveryInv, RecoveryInvAt, CrashFree
  <2>2. d \in Final
    BY <1>8, <2>1, AnswersDecide DEF PeersExact
  <2>3. CanMove(p, d)
    BY <2>1, <2>2 DEF CanMove, ValidTransitions, Final
  <2>4. Resolve(p, d) /\ UNCHANGED db
    BY <1>8, <2>2 DEF MakeDecision, Final
  <2> QED BY <1>6, <2>2, <2>3, <2>4
<1>9. CASE SaveResolution(p)
  <2>1. mem[p] = rec[p].to /\ rec[p].to \in Final
    BY <1>9, <1>t DEF SaveResolution, RecoveryInv, RecoveryInvAt, RecOK
  <2> QED BY <1>9, <1>t, <1>i, <2>1 DEF SaveResolution, Conclude, Final
<1>10. ASSUME NEW q \in Peers[p], QueryPeer(p, q) PROVE Concluded
  BY <1>10, <1>t DEF QueryPeer, RecOK, partVars
<1>11. CASE ResolutionFails(p)
  BY <1>11, <1>t, <1>i DEF ResolutionFails, partVars
<1> QED
  BY <1>3, <1>4, <1>5, <1>7, <1>8, <1>9, <1>10, <1>11
     DEF RecoveryAction, RecoveryStep

LEMMA TrackedInvNext ==
  ASSUME TypeOK, AccurateTimeouts, PeersAnswer, PeersExact, CrashFree, VoteInv,
         ValidityInv, RecoveryInv, TrackedInv, [Next]_vars
  PROVE  TrackedInv'
<1>1. CASE CoordinatorStep
  <2>1. UNCHANGED <<mem, db, rec, report>>
    BY <1>1, CoordinatorFrame DEF partVars, recVars
  <2>2. \A m \in Msgs, k \in Positions :
          call'[m][k] \in {"save", "saveAbort", "created"} =>
            call'[m][k] = call[m][k]
    BY <1>1 DEF CoordinatorStep, StartFails, Send, InitReturns, VoteReturns,
       AckReturns, DecisionReturns, AllInitialized, CountVotes, CountAcks, Finish,
       TypeOK
  <2>3. "INIT_TXN" \in Msgs
    BY DEF Msgs
  <2> QED BY <2>1, <2>2, <2>3 DEF TrackedInv, Tracked, RecoveryDecides
<1>2. CASE CrashCoordinator \/ UNCHANGED vars
  BY <1>2 DEF CrashCoordinator, vars, partVars, recVars, TrackedInv, Tracked,
     RecoveryDecides
<1>3. ASSUME NEW p \in Participants, RecoveryAction(p) PROVE TrackedInv'
  <2>1. \A q \in Participants : Tracked(q) => Tracked(q)'
    BY TrackedStable
  <2>2. \A q \in Peers[p] : rec'[p].ans[q] \notin {"UNKNOWN", "UNREACHABLE"}
    BY <1>3, TrackedAnswers
  <2>3. /\ RecoveryDecides'
        /\ rec'[p].pc = "read" => rec[p].pc = "read" \/ db[p] # "NONE"
        /\ db'[p] # "NONE" => db[p] # "NONE" \/ mem[p] # "NONE"
        /\ \A q \in Participants \ {p} : db'[q] = db[q] /\ rec'[q] = rec[q]
    BY <1>3, RecoveryConcludes
  <2>4. UNCHANGED call
    BY <1>3, RecoveryFrame
  <2>5. \A q \in Participants :
          /\ db'[q] # "NONE" \/ rec'[q].pc = "read" => Tracked(q)'
          /\ \A r \in Peers[q] : rec'[q].ans[r] \notin {"UNKNOWN", "UNREACHABLE"}
    <3>1. mem[p] # "NONE" => Tracked(p)
      BY DEF Tracked
    <3> QED BY <2>1, <2>2, <2>3, <3>1 DEF TrackedInv
  <2> QED BY <2>1, <2>3, <2>4, <2>5, UrlsType DEF TrackedInv
<1> QED
  BY <1>1, <1>2, <1>3, TrackedInvCall, CrashFreeCases

(* A recovery that has run to its end has left its participant decided,    *)
(* even if peers decided, or began to recover, between its questions: no   *)
(* survivor of the coordinator waits for another recovery, or for anyone.  *)
THEOREM RecoveriesDecide ==
  ASSUME AccurateTimeouts, PeersAnswer, PeersExact
  PROVE  Spec => []RecoveryDecides
<1>1. Init => CrashFree
  BY DEF Init, CrashFree
<1>2. TypeOK /\ CrashFree /\ [Next]_vars => CrashFree'
  BY CrashFreeNext
<1>3. Init => TrackedInv
  <2>1. \A p \in Participants :
          Idle(p).pc = "idle" /\ \A q \in Peers[p] : Idle(p).ans[q] = "none"
    BY DEF Idle, NoAnswers
  <2> QED BY <2>1 DEF Init, TrackedInv, RecoveryDecides, Msgs
<1>4. TypeOK /\ CrashFree /\ VoteInv /\ ValidityInv /\ RecoveryInv /\ TrackedInv
        /\ [Next]_vars => TrackedInv'
  BY TrackedInvNext
<1>5. TrackedInv => RecoveryDecides
  BY DEF TrackedInv
<1> QED
  BY <1>1, <1>2, <1>3, <1>4, <1>5, TypeCorrect, VoteInvariant, ValidityInvariant,
     RecoveryInvariant, PTL DEF Spec
=============================================================================
