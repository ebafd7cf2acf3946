---------------------------- MODULE RecoveryProofs ----------------------------
(***************************************************************************)
(* Theorems about the recovery threads of ThreePhaseCommit: what a         *)
(* recovery that has returned can be relied upon for, under every fault,   *)
(* and what the participants have on disk where the heartbeat timeout is   *)
(* accurate, so that a recovery runs only once the coordinator is dead and *)
(* its requests have been handled.                                         *)
(***************************************************************************)
EXTENDS ThreePhaseCommitProofs

(* No false timeout, and no operator who posts /recover in a transaction   *)
(* that is going on.                                                       *)
AccurateTimeouts == Faults \cap {"silence", "manual"} = {}

(* The coordinator is dead and nothing it has sent is still to be handled: *)
(* from here on the participants are on their own.                         *)
Orphaned == ~cup /\ ~InTransit

-----------------------------------------------------------------------------
(* What the steps of each actor leave alone.                               *)

LEMMA CoordinatorFrame ==
  ASSUME CoordinatorStep
  PROVE  cup /\ cup' /\ UNCHANGED <<partVars, recVars>>
BY DEF CoordinatorStep, StartFails, Send, InitReturns, VoteReturns, AckReturns,
   DecisionReturns, AllInitialized, CountVotes, CountAcks, Finish, LoopEnds,
   Returned, coordVars, partVars, recVars

CallStep(m, k) == LoseCall(m, k) \/ HandlerStep(m, k) \/ SaveFails(m, k)

(* A step of the network or of a request thread moves one call, which is   *)
(* under way, and at most one memory, along ValidTransitions.              *)
LEMMA CallFrame ==
  ASSUME TypeOK, NEW m \in Msgs, NEW k \in Positions, CallStep(m, k)
  PROVE  /\ call[m][k] \in {"sent"} \cup Handling
         /\ \E s \in CallStates \ {"none", "sent"} :
              call' = [call EXCEPT ![m][k] = s]
         /\ \/ mem' = mem
            \/ \E s \in States :
                 /\ mem' = [mem EXCEPT ![Urls[k]] = s]
                 /\ \/ m # "INIT_TXN" /\ CanMove(Urls[k], s)
                       /\ (s = Target[m] \/ (m = "CAN_COMMIT" /\ s = "ABORT"))
                    \/ m = "INIT_TXN" /\ s = "INIT"
                       /\ up[Urls[k]] /\ mem[Urls[k]] = "NONE"
         /\ UNCHANGED <<coordVars, up, crashes, recVars>>
<1> USE DEF coordVars, partVars, recVars, CallStep, SetCall
<1>1. CASE LoseCall(m, k) \/ SaveFails(m, k)
  BY <1>1 DEF LoseCall, SaveFails, Handling, CallStates
<1>2. CASE m = "INIT_TXN" /\ InitTransaction(k)
  BY <1>2 DEF InitTransaction, Arrives, Handling, CallStates, Replies, States
<1>3. CASE ReceiveUnknown(m, k)
  BY <1>3 DEF ReceiveUnknown, Arrives, CallStates, Replies
<1>4. CASE ReceiveValid(m, k)
  BY <1>4, TargetType DEF ReceiveValid, Arrives, CallStates, Handling
<1>5. CASE ReceiveInvalid(m, k)
  BY <1>5 DEF ReceiveInvalid, Arrives, CallStates, Handling, Replies
<1>6. CASE m = "CAN_COMMIT" /\ RefuseVote(k)
  BY <1>6 DEF RefuseVote, CallStates, Handling, Replies, States
<1>7. CASE SaveAndAnswer(m, k)
  BY <1>7 DEF SaveAndAnswer, Answer, CallStates, Handling, Replies
<1> QED
  BY <1>1, <1>2, <1>3, <1>4, <1>5, <1>6, <1>7 DEF HandlerStep

RecoveryAction(p) ==
  \/ MonitorTimeout(p) \/ TriggerRecovery(p)
  \/ RecoveryStep(p) \/ ResolutionFails(p)

LEMMA RecoveryFrame ==
  ASSUME NEW p \in Participants, RecoveryAction(p)
  PROVE  UNCHANGED <<coordVars, call, up, crashes>>
BY DEF RecoveryAction, MonitorTimeout, TriggerRecovery, RecoveryStep, ReadState,
   AbortPending, MakeDecision, SaveResolution, QueryPeer, ResolutionFails, partVars

LEMMA NextCases ==
  ASSUME [Next]_vars
  PROVE  \/ CoordinatorStep \/ CrashCoordinator
         \/ \E m \in Msgs, k \in Positions : CallStep(m, k)
         \/ \E p \in Participants :
              RecoveryAction(p) \/ CrashParticipant(p) \/ Restart(p)
         \/ UNCHANGED vars
BY DEF Next, CallStep, RecoveryAction

(* A decision is final for request threads too, a prepared participant has *)
(* only the decision before it, and a transaction stays tracked.           *)
LEMMA CallMoves ==
  ASSUME TypeOK, NEW m \in Msgs, NEW k \in Positions, CallStep(m, k),
         NEW p \in Participants
  PROVE  /\ mem[p] \in Final => mem'[p] = mem[p]
         /\ mem[p] = "PRE_COMMIT" => mem'[p] \in {"PRE_COMMIT"} \cup Final
         /\ mem[p] # "NONE" => mem'[p] # "NONE"
<1>1. mem \in [Participants -> MaybeStates]
  BY DEF TypeOK
<1>2. CASE mem' = mem
  BY <1>2 DEF Final
<1>3. CASE \E s \in States :
             /\ mem' = [mem EXCEPT ![Urls[k]] = s]
             /\ CanMove(Urls[k], s) \/ mem[Urls[k]] = "NONE"
  BY <1>1, <1>3 DEF CanMove, ValidTransitions, MaybeStates, States, Final
<1> QED
  BY <1>2, <1>3, CallFrame

-----------------------------------------------------------------------------
(* What a recovery can be relied upon for, although requests and other     *)
(* recoveries overtake it.  Between its steps it knows less than it has    *)
(* read: a prepared participant may have decided meanwhile.                *)

ReportInvAt(p) ==
  /\ rec[p].pc = "abort" => mem[p] # "NONE"
  /\ rec[p].pc = "query" => mem[p] \in {"PRE_COMMIT"} \cup Final /\ PastVoting
  /\ rec[p].pc = "save" => mem[p] \in Final
  /\ rec[p].pc = "save" /\ rec[p].to = "COMMIT" => PastVoting
  /\ report[p] \in Final => mem[p] \in Final
  /\ report[p] = "COMMIT" => PastVoting
  /\ ~up[p] => rec[p].pc = "idle" /\ report[p] = "none"

ReportInv == \A p \in Participants : ReportInvAt(p)

(* The steps of p's own recovery. *)
LEMMA ReportInvOwn ==
  ASSUME TypeOK, CommitValidity, NEW p \in Participants, ReportInvAt(p),
         RecoveryAction(p), PastVoting => PastVoting'
  PROVE  ReportInvAt(p)'
<1> USE DEF ReportInvAt
<1>t. /\ mem \in [Participants -> MaybeStates]
      /\ rec = [q \in Participants |-> rec[q]] /\ RecOK(p, rec[p])
      /\ report \in [Participants -> {"none", "COMMIT", "ABORT", "UNKNOWN"}]
  BY DEF TypeOK
<1>u. UNCHANGED up
  BY RecoveryFrame
<1>i. Idle(p).pc = "idle"
  BY DEF Idle
<1>1. CASE MonitorTimeout(p) \/ TriggerRecovery(p)
  BY <1>1, <1>t, <1>u
     DEF MonitorTimeout, TriggerRecovery, AttemptRecovery, RecOK, partVars
<1>2. CASE ReadState(p)
  BY <1>2, <1>t, <1>u, <1>i
     DEF ReadState, Conclude, RecOK, Final, partVars, CommitValidity
<1>3. ASSUME NEW to \in Final, Resolve(p, to), up[p],
             mem[p] \in Final \/ CanMove(p, to), to = "COMMIT" => PastVoting
      PROVE  ReportInvAt(p)'
  <2>1. CASE CanMove(p, to)
    <3> DEFINE r == [rec[p] EXCEPT !.pc = "save", !.to = to, !.ans = NoAnswers(p)]
    <3>1. rec' = [rec EXCEPT ![p] = r] /\ mem' = [mem EXCEPT ![p] = to]
          /\ UNCHANGED report
      BY <1>3, <1>t, <2>1 DEF Resolve
    <3>2. r.pc = "save" /\ r.to = to
      BY <1>t DEF RecOK
    <3> QED BY <3>1, <3>2, <1>t, <1>u, <1>3
  <2>2. CASE ~CanMove(p, to)
    <3>1. /\ rec' = [rec EXCEPT ![p] = Idle(p)]
          /\ report' = [report EXCEPT ![p] = to]
          /\ mem' = mem
      BY <1>3, <2>2 DEF Resolve, Conclude
    <3> QED BY <3>1, <2>2, <1>i, <1>t, <1>u, <1>3
  <2> QED BY <2>1, <2>2
<1>4. CASE AbortPending(p)
  <2>1. mem[p] \in Final \/ CanMove(p, "ABORT")
    BY <1>4, <1>t
       DEF AbortPending, CanMove, ValidTransitions, MaybeStates, States, Final
  <2> QED BY <1>4, <2>1, <1>3 DEF AbortPending, Final
<1>5. CASE MakeDecision(p)
  <2> DEFINE d == Decision(rec[p].ans)
  <2>1. CASE d = "UNKNOWN"
    BY <1>5, <2>1, <1>t, <1>u, <1>i DEF MakeDecision, Conclude, Final
  <2>2. CASE d # "UNKNOWN"
    <3>1. d \in Final /\ Resolve(p, d)
      BY <1>5, <2>2, DecisionType DEF MakeDecision, Final
    <3>2. mem[p] \in Final \/ CanMove(p, d)
      BY <1>5, <3>1 DEF MakeDecision, CanMove, ValidTransitions, Final
    <3> QED BY <1>5, <3>1, <3>2, <1>3 DEF MakeDecision
  <2> QED BY <2>1, <2>2
<1>6. CASE SaveResolution(p)
  BY <1>6, <1>t, <1>u, <1>i DEF SaveResolution, Conclude
<1>7. ASSUME NEW q \in Peers[p], QueryPeer(p, q) PROVE ReportInvAt(p)'
  BY <1>7, <1>t, <1>u DEF QueryPeer, RecOK, partVars
<1>8. CASE ResolutionFails(p)
  BY <1>8, <1>t, <1>u, <1>i DEF ResolutionFails, partVars
<1> QED
  BY <1>1, <1>2, <1>4, <1>5, <1>6, <1>7, <1>8 DEF RecoveryAction, RecoveryStep

LEMMA ReportInvNext ==
  ASSUME TypeOK, CommitValidity, ReportInv, [Next]_vars
  PROVE  ReportInv'
<1> USE DEF ReportInv, ReportInvAt
<1>t. /\ mem \in [Participants -> MaybeStates]
      /\ rec = [q \in Participants |-> rec[q]]
      /\ report \in [Participants -> {"none", "COMMIT", "ABORT", "UNKNOWN"}]
      /\ up \in [Participants -> BOOLEAN]
  BY DEF TypeOK
<1>v. PastVoting => PastVoting'
  BY PastVotingStable
<1>1. CASE CoordinatorStep
  BY <1>1, <1>v, CoordinatorFrame DEF partVars, recVars
<1>2. CASE CrashCoordinator
  BY <1>2, <1>v DEF CrashCoordinator, partVars, recVars
<1>3. ASSUME NEW m \in Msgs, NEW k \in Positions, CallStep(m, k)
      PROVE  ReportInv'
  <2>1. UNCHANGED <<up, rec, report>>
    BY <1>3, CallFrame DEF recVars
  <2> QED BY <1>3, <1>v, <2>1, CallMoves
<1>4. ASSUME NEW p \in Participants, RecoveryAction(p) PROVE ReportInv'
  <2>1. ReportInvAt(p)'
    BY <1>4, <1>v, ReportInvOwn
  <2>2. /\ UNCHANGED up
        /\ \A q \in Participants \ {p} :
             mem'[q] = mem[q] /\ rec'[q] = rec[q] /\ report'[q] = report[q]
    BY <1>4, <1>t DEF RecoveryAction, MonitorTimeout, TriggerRecovery,
       AttemptRecovery, RecoveryStep, ReadState, AbortPending, MakeDecision,
       Resolve, SaveResolution, QueryPeer, ResolutionFails, Conclude, partVars
  <2> QED BY <2>1, <2>2, <1>v
<1>5. ASSUME NEW p \in Participants, CrashParticipant(p) PROVE ReportInv'
  BY <1>5, <1>t, <1>v DEF CrashParticipant, Idle, Final
<1>6. ASSUME NEW p \in Participants, Restart(p) PROVE ReportInv'
  BY <1>6, <1>t, <1>v DEF Restart, recVars, Final
<1>7. CASE UNCHANGED vars
  BY <1>7, <1>v DEF vars, partVars, recVars
<1> QED
  BY <1>1, <1>2, <1>3, <1>4, <1>5, <1>6, <1>7, NextCases

(* A recovery that has returned COMMIT or ABORT has left its participant   *)
(* decided, and COMMIT is returned only where everybody has voted YES,     *)
(* under every fault: false timeouts and operators who post /recover let   *)
(* requests change the state between the steps of a recovery, writes fail, *)
(* participants crash and restart.                                         *)
THEOREM ReportsDecided == Spec => []ReportDecided
<1>1. Init => ReportInv
  BY DEF Init, ReportInv, ReportInvAt, Idle, Final
<1>2. TypeOK /\ CommitValidity /\ ReportInv /\ [Next]_vars => ReportInv'
  BY ReportInvNext
<1>3. ReportInv => ReportDecided
  BY DEF ReportInv, ReportInvAt, ReportDecided
<1> QED
  BY <1>1, <1>2, <1>3, TypeCorrect, ValidCommits, PTL DEF Spec

-----------------------------------------------------------------------------
(* Nothing revives an orphaned transaction.                                *)
LEMMA OrphanedStable ==
  ASSUME TypeOK, Orphaned, [Next]_vars
  PROVE  /\ Orphaned'
         /\ \/ \E p \in Participants :
                 RecoveryAction(p) \/ CrashParticipant(p) \/ Restart(p)
            \/ UNCHANGED vars
<1> USE DEF Orphaned, InTransit
<1>1. ~CoordinatorStep
  BY CoordinatorFrame
<1>2. ~CrashCoordinator
  BY DEF CrashCoordinator
<1>3. ~ \E m \in Msgs, k \in Positions : CallStep(m, k)
  BY CallFrame
<1>4. ASSUME NEW p \in Participants, RecoveryAction(p) PROVE Orphaned'
  BY <1>4, RecoveryFrame DEF coordVars
<1>5. ASSUME NEW p \in Participants, CrashParticipant(p) PROVE Orphaned'
  BY <1>5 DEF CrashParticipant, coordVars, Handling
<1>6. ASSUME NEW p \in Participants, Restart(p) PROVE Orphaned'
  BY <1>6 DEF Restart, coordVars
<1>7. CASE UNCHANGED vars
  BY <1>7 DEF vars, coordVars
<1> QED
  BY <1>1, <1>2, <1>3, <1>4, <1>5, <1>6, <1>7, NextCases

-----------------------------------------------------------------------------
(* What a recovery knows.  It has read the state of its participant in an  *)
(* earlier step; the state is still the one it has read, since no request  *)
(* thread is left that could change it.                                    *)

RecoveryInvAt(p) ==
  /\ rec[p].pc # "idle" => up[p]
  /\ rec[p].pc # "idle" \/ report[p] # "none" => Orphaned
  /\ rec[p].pc \in {"idle", "read"} => rec[p].ans = NoAnswers(p)
  /\ rec[p].pc = "abort" => mem[p] \in {"INIT", "READY"}
  /\ rec[p].pc = "query" => mem[p] = "PRE_COMMIT"
  /\ rec[p].pc = "save" => mem[p] = rec[p].to
  /\ ~up[p] => mem[p] = "NONE" /\ report[p] = "none"

RecoveryInv == \A p \in Participants : RecoveryInvAt(p)

(* The steps of p's own recovery; the others do not touch what             *)
(* RecoveryInvAt(p) speaks of.                                             *)
LEMMA RecoveryInvOwn ==
  ASSUME TypeOK, NEW p \in Participants, RecoveryInvAt(p), RecoveryAction(p),
         AccurateTimeouts, Orphaned'
  PROVE  RecoveryInvAt(p)'
<1> USE DEF RecoveryInvAt
<1>t. /\ mem \in [Participants -> MaybeStates]
      /\ rec = [q \in Participants |-> rec[q]] /\ RecOK(p, rec[p])
      /\ report \in [Participants -> {"none", "COMMIT", "ABORT", "UNKNOWN"}]
  BY DEF TypeOK
<1>u. UNCHANGED up
  BY RecoveryFrame
<1>1. CASE MonitorTimeout(p)
  BY <1>1, <1>t, <1>u DEF MonitorTimeout, AttemptRecovery, RecOK
<1>2. CASE TriggerRecovery(p)
  BY <1>2 DEF TriggerRecovery, AccurateTimeouts
<1>i. Idle(p).pc = "idle" /\ Idle(p).ans = NoAnswers(p)
  BY DEF Idle
<1>3. CASE ReadState(p)
  BY <1>3, <1>t, <1>u, <1>i DEF ReadState, Conclude, RecOK, Final, partVars
<1>4. ASSUME NEW to \in Final, Resolve(p, to), CanMove(p, to), UNCHANGED up, up[p]
      PROVE  RecoveryInvAt(p)'
  <2> DEFINE r == [rec[p] EXCEPT !.pc = "save", !.to = to, !.ans = NoAnswers(p)]
  <2>1. rec' = [rec EXCEPT ![p] = r] /\ mem' = [mem EXCEPT ![p] = to]
        /\ UNCHANGED report
    BY <1>4, <1>t DEF Resolve
  <2>2. r.pc = "save" /\ r.to = to
    BY <1>t DEF RecOK
  <2>3. mem[p] \notin Final
    BY <1>4, <1>t DEF CanMove, ValidTransitions, Final, MaybeStates, States
  <2> QED BY <2>1, <2>2, <2>3, <1>t, <1>4
<1>5. CASE AbortPending(p)
  <2>1. CanMove(p, "ABORT")
    BY <1>5 DEF AbortPending, CanMove, ValidTransitions
  <2> QED BY <1>5, <2>1, <1>4, <1>u DEF AbortPending, Final
<1>6. CASE MakeDecision(p)
  <2> DEFINE d == Decision(rec[p].ans)
  <2>1. CASE d = "UNKNOWN"
    BY <1>6, <2>1, <1>t, <1>u, <1>i DEF MakeDecision, Conclude, Final
  <2>2. CASE d # "UNKNOWN"
    <3>1. d \in Final /\ Resolve(p, d)
      BY <1>6, <2>2, DecisionType DEF MakeDecision, Final
    <3>2. CanMove(p, d)
      BY <1>6, <3>1 DEF MakeDecision, CanMove, ValidTransitions, Final
    <3> QED BY <1>6, <3>1, <3>2, <1>4, <1>u DEF MakeDecision
  <2> QED BY <2>1, <2>2
<1>7. CASE SaveResolution(p)
  BY <1>7, <1>t, <1>u, <1>i DEF SaveResolution, Conclude
<1>8. ASSUME NEW q \in Peers[p], QueryPeer(p, q) PROVE RecoveryInvAt(p)'
  BY <1>8, <1>t, <1>u DEF QueryPeer, RecOK, partVars
<1>9. CASE ResolutionFails(p)
  BY <1>9, <1>t, <1>u, <1>i DEF ResolutionFails, partVars
<1> QED
  BY <1>1, <1>2, <1>3, <1>5, <1>6, <1>7, <1>8, <1>9
     DEF RecoveryAction, RecoveryStep

LEMMA RecoveryInvNext ==
  ASSUME TypeOK, AccurateTimeouts, RecoveryInv, [Next]_vars
  PROVE  RecoveryInv'
<1> USE DEF RecoveryInv, RecoveryInvAt
<1>t. /\ mem \in [Participants -> MaybeStates]
      /\ rec = [q \in Participants |-> rec[q]]
      /\ report \in [Participants -> {"none", "COMMIT", "ABORT", "UNKNOWN"}]
      /\ up \in [Participants -> BOOLEAN]
  BY DEF TypeOK
<1>o. Orphaned => Orphaned'
  BY OrphanedStable
<1>1. CASE CoordinatorStep
  BY <1>1, <1>o, CoordinatorFrame DEF partVars, recVars
<1>2. CASE CrashCoordinator
  BY <1>2, <1>o DEF CrashCoordinator, partVars, recVars
<1>3. ASSUME NEW m \in Msgs, NEW k \in Positions, CallStep(m, k)
      PROVE  RecoveryInv'
  <2>1. ~Orphaned
    BY <1>3, CallFrame DEF Orphaned, InTransit
  <2>2. UNCHANGED <<up, rec, report>>
    BY <1>3, CallFrame DEF recVars
  <2>3. \A p \in Participants : ~up[p] => mem'[p] = mem[p]
    <3>1. \A s \in States : CanMove(Urls[k], s) => mem[Urls[k]] # "NONE"
      BY DEF CanMove, ValidTransitions
    <3> QED BY <1>3, <1>t, <3>1, CallFrame, UrlsType
  <2> QED BY <1>t, <2>1, <2>2, <2>3 DEF Final
<1>4. ASSUME NEW p \in Participants, RecoveryAction(p) PROVE RecoveryInv'
  <2>1. Orphaned'
    <3>1. CASE MonitorTimeout(p)
      BY <1>o, <3>1 DEF MonitorTimeout, Silent, AccurateTimeouts, Orphaned
    <3>2. CASE ~MonitorTimeout(p)
      BY <1>4, <3>2, <1>o DEF RecoveryAction, TriggerRecovery, RecoveryStep,
         ReadState, AbortPending, MakeDecision, SaveResolution, QueryPeer,
         ResolutionFails, AccurateTimeouts
    <3> QED BY <3>1, <3>2
  <2>2. RecoveryInvAt(p)'
    BY <1>4, <2>1, RecoveryInvOwn
  <2>3. /\ UNCHANGED up
        /\ \A q \in Participants \ {p} :
             mem'[q] = mem[q] /\ rec'[q] = rec[q] /\ report'[q] = report[q]
    BY <1>4, <1>t DEF RecoveryAction, MonitorTimeout, TriggerRecovery,
       AttemptRecovery, RecoveryStep, ReadState, AbortPending, MakeDecision,
       Resolve, SaveResolution, QueryPeer, ResolutionFails, Conclude, partVars
  <2> QED BY <2>1, <2>2, <2>3
<1>5. ASSUME NEW p \in Participants, CrashParticipant(p) PROVE RecoveryInv'
  BY <1>5, <1>t, <1>o DEF CrashParticipant, Idle, Final
<1>6. ASSUME NEW p \in Participants, Restart(p) PROVE RecoveryInv'
  BY <1>6, <1>t, <1>o DEF Restart, recVars, Final
<1>7. CASE UNCHANGED vars
  BY <1>7, <1>o DEF vars, partVars, recVars
<1> QED
  BY <1>1, <1>2, <1>3, <1>4, <1>5, <1>6, <1>7, NextCases

LEMMA RecoveryInvariant ==
  ASSUME AccurateTimeouts
  PROVE  Spec => []RecoveryInv
<1>1. Init => RecoveryInv
  BY DEF Init, RecoveryInv, RecoveryInvAt, Idle, Final
<1>2. TypeOK /\ RecoveryInv /\ [Next]_vars => RecoveryInv'
  BY RecoveryInvNext
<1> QED
  BY <1>1, <1>2, TypeCorrect, PTL DEF Spec

-----------------------------------------------------------------------------
(* Memory and disk, where moreover no call outlives its timeout and no     *)
(* write of a participant fails.                                           *)

PromptPosts == "slow" \notin Faults
WritesSucceed == "disk" \notin Faults

(* The coordinator waits for each call: at most one is under way, and it   *)
(* is the one the coordinator is at.                                       *)
OneCall ==
  \A m \in Msgs, k \in Positions :
    call[m][k] \in {"sent"} \cup Handling => m = phase /\ k = next

LEMMA OneCallNext ==
  ASSUME TypeOK, VoteInv, PromptPosts, OneCall, [Next]_vars
  PROVE  OneCall'
<1> USE DEF OneCall, InTransit
<1>t. call \in [Msgs -> [Positions -> CallStates]]
  BY DEF TypeOK
<1>h. "none" \notin Handling /\ "lost" \notin Handling /\ Replies \cap Handling = {}
      /\ "sent" \notin Replies
  BY DEF Handling, Replies
<1>1. CASE Send
  BY <1>1, <1>t, <1>h DEF Send, coordVars
<1>2. ASSUME CoordinatorStep, ~Send PROVE OneCall'
  <2>1. UNCHANGED call
    BY <1>2 DEF CoordinatorStep, StartFails, InitReturns, VoteReturns,
       AckReturns, DecisionReturns, AllInitialized, CountVotes, CountAcks, Finish
  <2>2. ASSUME NEW res \in Replies \cup {"exception"}, Returned(res)
        PROVE  ~InTransit
    <3>1. call[phase][next] \in Replies \cup {"lost"}
      BY <2>2 DEF Returned, PromptPosts
    <3> QED BY <3>1, <1>h
  <2>3. ASSUME NEW m, LoopEnds(m) PROVE ~InTransit
    BY <2>3 DEF LoopEnds
  <2>4. CASE StartFails
    <3>1. phase = "INIT_TXN" /\ call["INIT_TXN"][1] = "none" /\ 1 \in Positions
      BY <2>4, UrlsAssumption DEF StartFails, Positions
    <3>2. \A j \in Positions : j # 1 => 1 < j
      BY UrlsAssumption DEF Positions
    <3>3. next \in Positions => next = 1
      BY <3>1, <3>2 DEF VoteInv
    <3> QED BY <2>1, <3>1, <3>3, <1>h
  <2>5. StartFails \/ ~InTransit
    BY <1>2, <2>2, <2>3 DEF CoordinatorStep, InitReturns, VoteReturns,
       AckReturns, DecisionReturns, AllInitialized, CountVotes, CountAcks, Finish
  <2> QED BY <2>1, <2>4, <2>5
<1>3. ASSUME NEW m \in Msgs, NEW k \in Positions, CallStep(m, k)
      PROVE  OneCall'
  BY <1>3, <1>t, CallFrame DEF coordVars
<1>4. ASSUME NEW p \in Participants, CrashParticipant(p) PROVE OneCall'
  BY <1>4, <1>h DEF CrashParticipant, coordVars
<1>5. CASE CrashCoordinator
  BY <1>5 DEF CrashCoordinator
<1>6. ASSUME NEW p \in Participants, RecoveryAction(p) \/ Restart(p)
      PROVE  OneCall'
  BY <1>6, RecoveryFrame DEF Restart, coordVars
<1>7. CASE UNCHANGED vars
  BY <1>7 DEF vars, coordVars
<1> QED
  BY <1>1, <1>2, <1>3, <1>4, <1>5, <1>6, <1>7, NextCases

(* What a thread is about to write is what the memory holds.               *)
SaveInv ==
  /\ \A m \in Msgs, k \in Positions :
       /\ call[m][k] \in Handling => up[Urls[k]]
       /\ call[m][k] = "save" => mem[Urls[k]] = Target[m]
       /\ call[m][k] = "saveAbort" => mem[Urls[k]] = "ABORT"
  /\ MemoryPersisted

(* A request thread: the only thread that runs.                            *)
LEMMA SaveInvCall ==
  ASSUME TypeOK, WritesSucceed, OneCall, RecoveryInv, SaveInv,
         NEW m \in Msgs, NEW k \in Positions, CallStep(m, k)
  PROVE  SaveInv'
<1> DEFINE p == Urls[k]
<1>t. /\ mem \in [Participants -> MaybeStates]
      /\ db \in [Participants -> MaybeStates]
      /\ call \in [Msgs -> [Positions -> CallStates]]
      /\ p \in Participants /\ Target[m] \in States
  BY UrlsType, TargetType DEF TypeOK
<1>o. \A q \in Participants : rec[q].pc = "idle" /\ rec'[q].pc = "idle"
  BY CallFrame DEF RecoveryInv, RecoveryInvAt, Orphaned, InTransit, recVars
<1>h. {"save", "saveAbort"} \subseteq Handling
  BY DEF Handling
<1>1. PICK s \in CallStates \ {"none", "sent"} : call' = [call EXCEPT ![m][k] = s]
  BY CallFrame
<1>2. call[m][k] \in {"sent"} \cup Handling /\ UNCHANGED up
  BY CallFrame
<1>3. \A n \in Msgs, j \in Positions :
        (n # m \/ j # k) => call'[n][j] = call[n][j] /\ call'[n][j] \notin Handling
  BY <1>1, <1>2, <1>t DEF OneCall
<1>4. \A q \in Participants :
        /\ Saving(q) <=> q = p /\ call[m][k] \in {"save", "saveAbort"}
        /\ Saving(q)' <=> q = p /\ s \in {"save", "saveAbort"}
  BY <1>o, <1>1, <1>2, <1>3, <1>h, <1>t DEF Saving, OneCall
<1>5. SUFFICES /\ s \in Handling => up[p]
               /\ s = "save" => mem'[p] = Target[m]
               /\ s = "saveAbort" => mem'[p] = "ABORT"
               /\ \A q \in Participants \ {p} : mem'[q] = mem[q] /\ db'[q] = db[q]
               /\ s \notin {"save", "saveAbort"} =>
                    mem'[p] \in {"NONE", db'[p]}
  <2>1. MemoryPersisted'
    BY <1>4, <1>5 DEF SaveInv, MemoryPersisted
  <2>2. \A n \in Msgs, j \in Positions :
          /\ call'[n][j] \in Handling => up[Urls[j]]
          /\ call'[n][j] = "save" => mem'[Urls[j]] = Target[n]
          /\ call'[n][j] = "saveAbort" => mem'[Urls[j]] = "ABORT"
    BY <1>1, <1>3, <1>5, <1>h, <1>t
  <2> QED BY <2>1, <2>2, <1>2 DEF SaveInv
<1>6. call[m][k] \notin {"save", "saveAbort"} => mem[p] \in {"NONE", db[p]}
  BY <1>4, <1>t DEF SaveInv, MemoryPersisted
<1>7. s = call'[m][k]
  BY <1>1, <1>t
<1> USE DEF SetCall, partVars
<1>8. CASE LoseCall(m, k)
  BY <1>8, <1>6, <1>7, <1>t DEF LoseCall, Handling
<1>9. CASE SaveFails(m, k)
  BY <1>9 DEF SaveFails, WritesSucceed
<1>10. CASE m = "INIT_TXN" /\ InitTransaction(k)
  BY <1>10, <1>6, <1>7, <1>t DEF InitTransaction, Arrives, Handling, Target
<1>11. CASE ReceiveUnknown(m, k)
  BY <1>11, <1>6, <1>7, <1>t DEF ReceiveUnknown, Arrives, Handling
<1>12. CASE ReceiveValid(m, k)
  BY <1>12, <1>7, <1>t DEF ReceiveValid, Arrives
<1>13. CASE ReceiveInvalid(m, k)
  BY <1>13, <1>6, <1>7, <1>t DEF ReceiveInvalid, Arrives
<1>14. CASE m = "CAN_COMMIT" /\ RefuseVote(k)
  BY <1>14, <1>6, <1>7, <1>t DEF RefuseVote, SaveInv, Handling
<1>15. CASE SaveAndAnswer(m, k)
  BY <1>15, <1>7, <1>t, <1>h DEF SaveAndAnswer, SaveInv, Answer, Handling
<1> QED
  BY <1>5, <1>8, <1>9, <1>10, <1>11, <1>12, <1>13, <1>14, <1>15
     DEF CallStep, HandlerStep

(* A recovery thread: no request thread is left.                           *)
LEMMA SaveInvRecovery ==
  ASSUME TypeOK, WritesSucceed, AccurateTimeouts, RecoveryInv, SaveInv,
         NEW p \in Participants, RecoveryAction(p)
  PROVE  SaveInv'
<1>t. /\ mem \in [Participants -> MaybeStates]
      /\ db \in [Participants -> MaybeStates]
      /\ rec = [q \in Participants |-> rec[q]] /\ RecOK(p, rec[p])
  BY DEF TypeOK
<1>1. UNCHANGED <<call, up>>
  BY RecoveryFrame
<1>2. /\ \A q \in Participants \ {p} :
           mem'[q] = mem[q] /\ db'[q] = db[q] /\ rec'[q] = rec[q]
      /\ rec'[p].pc # "save" => mem'[p] = mem[p]
      /\ \/ db'[p] = db[p] /\ (rec[p].pc = "save" => rec'[p].pc = "save")
         \/ rec[p].pc = "save" /\ rec'[p].pc # "save" /\ db'[p] = rec[p].to
  <2>i. Idle(p).pc = "idle"
    BY DEF Idle
  <2>1. CASE MonitorTimeout(p) \/ TriggerRecovery(p)
    BY <2>1, <1>t DEF MonitorTimeout, TriggerRecovery, AttemptRecovery, RecOK,
       partVars
  <2>2. CASE ReadState(p)
    BY <2>2, <1>t, <2>i DEF ReadState, Conclude, RecOK, partVars
  <2>3. CASE AbortPending(p) \/ MakeDecision(p)
    BY <2>3, <1>t, <2>i DEF AbortPending, MakeDecision, Resolve, Conclude, RecOK
  <2>4. CASE SaveResolution(p)
    BY <2>4, <1>t, <2>i DEF SaveResolution, Conclude
  <2>5. ASSUME NEW q \in Peers[p], QueryPeer(p, q) PROVE <1>2!:
    BY <2>5, <1>t DEF QueryPeer, RecOK, partVars
  <2>6. ~ResolutionFails(p)
    BY DEF ResolutionFails, WritesSucceed
  <2> QED
    BY <2>1, <2>2, <2>3, <2>4, <2>5, <2>6 DEF RecoveryAction, RecoveryStep
<1>3. rec[p].pc = "save" => mem[p] = rec[p].to
  BY DEF RecoveryInv, RecoveryInvAt
<1>4. \A m \in Msgs, j \in Positions :
        call[m][j] \in {"save", "saveAbort"} /\ Urls[j] = p => mem'[p] = mem[p]
  <2>1. CASE Orphaned
    BY <2>1 DEF Orphaned, InTransit, Handling
  <2>2. CASE ~Orphaned
    <3>1. rec[p].pc = "idle"
      BY <2>2 DEF RecoveryInv, RecoveryInvAt
    <3> QED
      BY <3>1 DEF RecoveryAction, MonitorTimeout, TriggerRecovery, RecoveryStep,
         ReadState, AbortPending, MakeDecision, SaveResolution, QueryPeer,
         ResolutionFails, partVars
  <2> QED BY <2>1, <2>2
<1>5. \A m \in Msgs, j \in Positions :
        /\ call'[m][j] = "save" => mem'[Urls[j]] = Target[m]
        /\ call'[m][j] = "saveAbort" => mem'[Urls[j]] = "ABORT"
  BY <1>1, <1>2, <1>4, UrlsType DEF SaveInv
<1>6. MemoryPersisted'
  <2> SUFFICES ASSUME NEW q \in Participants, mem'[q] # "NONE", ~Saving(q)'
               PROVE  mem'[q] = db'[q]
    BY DEF MemoryPersisted
  <2>1. rec'[q].pc # "save"
    BY DEF Saving
  <2>2. CASE rec[q].pc = "save"
    <3>1. q = p
      BY <1>2, <2>1, <2>2
    <3> QED BY <1>2, <1>3, <2>1, <2>2, <3>1
  <2>3. CASE rec[q].pc # "save"
    <3>1. ~Saving(q)
      BY <1>1, <2>3 DEF Saving
    <3>2. mem'[q] = mem[q] /\ db'[q] = db[q]
      BY <1>2, <2>1, <2>3
    <3> QED BY <3>1, <3>2 DEF SaveInv, MemoryPersisted
  <2> QED BY <2>2, <2>3
<1> QED
  BY <1>1, <1>5, <1>6 DEF SaveInv

LEMMA SaveInvNext ==
  ASSUME TypeOK, WritesSucceed, AccurateTimeouts, OneCall, RecoveryInv, SaveInv,
         [Next]_vars
  PROVE  SaveInv'
<1>t. /\ mem \in [Participants -> MaybeStates]
      /\ up \in [Participants -> BOOLEAN]
      /\ call \in [Msgs -> [Positions -> CallStates]]
  BY DEF TypeOK
<1>1. CASE CoordinatorStep
  <2>1. \/ UNCHANGED call
        \/ Send /\ call' = [call EXCEPT ![phase][next] = "sent"]
    BY <1>1 DEF CoordinatorStep, StartFails, Send, InitReturns, VoteReturns,
       AckReturns, DecisionReturns, AllInitialized, CountVotes, CountAcks, Finish
  <2>2. \A m \in Msgs, k \in Positions :
          \/ call'[m][k] = call[m][k]
          \/ call'[m][k] = "sent" /\ call[m][k] = "none"
    BY <2>1, <1>t DEF Send
  <2>3. UNCHANGED <<mem, db, up, rec>>
    BY <1>1, CoordinatorFrame DEF partVars, recVars
  <2> QED BY <2>2, <2>3 DEF SaveInv, MemoryPersisted, Saving, Handling
<1>2. CASE CrashCoordinator
  BY <1>2 DEF CrashCoordinator, SaveInv, MemoryPersisted, Saving, partVars, recVars
<1>3. ASSUME NEW p \in Participants, CrashParticipant(p) PROVE SaveInv'
  <2>1. \A m \in Msgs, k \in Positions :
          \/ call'[m][k] = call[m][k] /\ (Urls[k] = p => call[m][k] \notin Handling)
          \/ call'[m][k] = "lost" /\ Urls[k] = p
    BY <1>3 DEF CrashParticipant
  <2>2. /\ \A q \in Participants \ {p} : mem'[q] = mem[q] /\ rec'[q] = rec[q]
                                          /\ up'[q] = up[q]
        /\ mem'[p] = "NONE" /\ UNCHANGED db
    BY <1>3, <1>t DEF CrashParticipant, TypeOK
  <2>3. \A m \in Msgs, k \in Positions :
          call'[m][k] \in Handling => call'[m][k] = call[m][k] /\ Urls[k] # p
    BY <2>1 DEF Handling
  <2>4. \A q \in Participants \ {p} : Saving(q) => Saving(q)'
    BY <2>1, <2>2 DEF Saving
  <2>5. MemoryPersisted'
    <3> SUFFICES ASSUME NEW q \in Participants, mem'[q] # "NONE", ~Saving(q)'
                 PROVE  mem'[q] = db'[q]
      BY DEF MemoryPersisted
    <3>1. q # p /\ ~Saving(q)
      BY <2>2, <2>4
    <3> QED BY <2>2, <3>1 DEF SaveInv, MemoryPersisted
  <2> QED BY <2>2, <2>3, <2>5, UrlsType DEF SaveInv, Handling
<1>4. ASSUME NEW p \in Participants, Restart(p) PROVE SaveInv'
  <2>1. UNCHANGED <<call, db, rec>> /\ ~up[p]
    BY <1>4 DEF Restart, recVars
  <2>2. /\ \A q \in Participants \ {p} : mem'[q] = mem[q] /\ up'[q] = up[q]
        /\ mem'[p] \in {"NONE", db[p]}
    BY <1>4, <1>t DEF Restart, Reloaded
  <2> QED
    BY <2>1, <2>2, UrlsType DEF SaveInv, MemoryPersisted, Saving, Handling
<1>5. CASE UNCHANGED vars
  BY <1>5 DEF vars, SaveInv, MemoryPersisted, Saving, partVars, recVars
<1> QED
  BY <1>1, <1>2, <1>3, <1>4, <1>5, SaveInvCall, SaveInvRecovery, NextCases

(* Whenever no thread of a participant is between its state change and its *)
(* save, a crash loses nothing: the row is the state.  Threads that change *)
(* the state never overlap at one participant, which is what the lock      *)
(* around the memory alone does not ensure.                                *)
THEOREM StatesPersisted ==
  ASSUME AccurateTimeouts, PromptPosts, WritesSucceed
  PROVE  Spec => []MemoryPersisted
<1>1. Init => OneCall
  BY DEF Init, OneCall, Handling
<1>2. Init => SaveInv
  BY DEF Init, SaveInv, MemoryPersisted, Handling
<1>3. TypeOK /\ VoteInv /\ OneCall /\ [Next]_vars => OneCall'
  BY OneCallNext
<1>4. TypeOK /\ OneCall /\ RecoveryInv /\ SaveInv /\ [Next]_vars => SaveInv'
  BY SaveInvNext
<1>5. SaveInv => MemoryPersisted
  BY DEF SaveInv
<1> QED
  BY <1>1, <1>2, <1>3, <1>4, <1>5, TypeCorrect, VoteInvariant,
     RecoveryInvariant, PTL DEF Spec
=============================================================================
