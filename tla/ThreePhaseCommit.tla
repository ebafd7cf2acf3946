-------------------------- MODULE ThreePhaseCommit --------------------------
(***************************************************************************)
(* One transaction of the three-phase commit: the coordinator request that *)
(* runs execute_3pc_protocol, the request threads of the participants, the *)
(* participants' memory and SQLite rows, and the recovery threads that     *)
(* resolve a transaction whose coordinator has gone silent.  Transactions  *)
(* have fresh uuids and share only the heartbeat flag of a participant, so *)
(* one transaction is modelled.                                            *)
(*                                                                         *)
(* A step is what the code does between two points where another thread    *)
(* or process can get in: a state change under a lock, the SQLite write    *)
(* after the lock is released, an HTTP request, an HTTP response.          *)
(***************************************************************************)
EXTENDS Naturals, Sequences, FiniteSets

CONSTANTS
  Participants,  \* the participant processes
  Urls,          \* the "participants" list of the client's request
  Peers,         \* Peers[p]: the participants behind p's PARTICIPANT_PEERS
  Faults,        \* the faults that may happen, a subset of AllFaults
  MaxCrashes     \* bound on the number of participant crashes

(* "lost": a request to a participant fails before it is handled (a       *)
(*   partition shorter than the heartbeat timeout).                        *)
(* "slow": the coordinator's timeout elapses while a request is on its way *)
(*   or being handled, or before its answer is read; the request goes on.  *)
(* "silence": a heartbeat monitor sees five seconds of silence although    *)
(*   the coordinator is alive or its requests are still being handled.     *)
(* "unreachable": a peer query fails although the peer is up.              *)
(* "manual": an operator posts /recover.                                   *)
(* "disk": SQLite refuses a write of a participant.                        *)
(* "store": SQLite refuses a write of the coordinator.                     *)
AllFaults == {"lost", "slow", "silence", "unreachable", "manual", "disk", "store",
              "crashCoordinator", "crashParticipant"}

ASSUME UrlsAssumption == Urls \in Seq(Participants) /\ Urls # << >>
ASSUME PeersAssumption ==
         Peers \in [Participants -> SUBSET Participants]
ASSUME FaultsAssumption == Faults \subseteq AllFaults
ASSUME MaxCrashesAssumption == MaxCrashes \in Nat

Positions == DOMAIN Urls
Called == {Urls[k] : k \in Positions}

Msgs == {"INIT_TXN", "CAN_COMMIT", "PRE_COMMIT", "DO_COMMIT", "ABORT"}
States == {"INIT", "READY", "PRE_COMMIT", "COMMIT", "ABORT"}
Final == {"COMMIT", "ABORT"}
MaybeStates == States \cup {"NONE"}   \* "NONE": the transaction is not tracked

(* The answers of a participant: 201 of /init-transaction, 400 for an      *)
(* untracked transaction, a vote, an ACK.                                  *)
Replies == {"created", "unknown", "YES", "NO", "ACK"}

(* A call is not made, on its way, in a request thread that has changed    *)
(* the memory and not the database ("save", "saveAbort") or that has been  *)
(* refused READY and is to abort ("refuse"), answered, or broken off.      *)
Handling == {"save", "saveAbort", "refuse"}
CallStates == {"none", "sent", "lost"} \cup Handling \cup Replies

VARIABLES
  phase,    \* the message the coordinator is sending, "END" when it returned
  next,     \* the position in Urls it is at
  call,     \* call[m][k]: what became of request m to Urls[k]
  votes,    \* the votes dict, "none" where there is no entry
  acks,     \* the acks dict
  history,  \* state_history of the CoordinatorStateManager
  row,      \* status of the transaction in the coordinator's database
  answer,   \* the status in the answer to the client
  cup,      \* the coordinator process is up
  mem,      \* mem[p]: the state in participant p's memory
  db,       \* db[p]: the state in p's SQLite row
  active,   \* active[p]: _active_transaction of p's HeartbeatMonitor
  up,       \* up[p]: participant process p is up
  crashes,  \* participant crashes so far
  rec,      \* rec[p]: p's recovery, which at most one thread runs
  report    \* report[p]: the last result attempt_recovery returned

coordVars == <<phase, next, votes, acks, history, row, answer, cup>>
partVars == <<mem, db, active, up, crashes>>
recVars == <<rec, report>>
vars == <<coordVars, call, partVars, recVars>>

-----------------------------------------------------------------------------
(* The coordinator *)

CoordinatorTransitions ==
  [INIT |-> {"WAIT"}, WAIT |-> {"PRE_COMMIT", "ABORT"},
   PRE_COMMIT |-> {"COMMIT", "ABORT"}, COMMIT |-> {}, ABORT |-> {}]

(* transition_to: a state that cannot follow is refused, and the protocol  *)
(* goes on all the same.                                                   *)
TransitionTo(s) ==
  LET current == history[Len(history)]
  IN  history' = IF s \in CoordinatorTransitions[current]
                   THEN Append(history, s) ELSE history

(* requests.post to the next URL of the phase's loop. *)
Send ==
  /\ cup /\ phase \in Msgs /\ next \in Positions
  /\ call[phase][next] = "none"
  /\ call' = [call EXCEPT ![phase][next] = "sent"]
  /\ UNCHANGED <<coordVars, partVars, recVars>>

(* Mutant of Returned: the post has no timeout and never raises. *)
ReturnedNoTimeout(res) ==
  /\ cup /\ phase \in Msgs /\ next \in Positions
  /\ call[phase][next] \in Replies /\ res = call[phase][next]

(* The call the loop waits for returns its answer, or raises. *)
Returned(res) ==
  /\ cup /\ phase \in Msgs /\ next \in Positions
  /\ \/ call[phase][next] \in Replies /\ res = call[phase][next]
     \/ call[phase][next] = "lost" /\ res = "exception"
     \/ "slow" \in Faults /\ call[phase][next] # "none" /\ res = "exception"

Advance == next' = next + 1

(* save_transaction drops the exception of a write that is refused. *)
SaveTransaction(status) ==
  row' = status \/ ("store" \in Faults /\ UNCHANGED row)

EndRequest(a) == phase' = "END" /\ answer' = a /\ UNCHANGED next

(* A save or a log that cannot even open the database raises, and          *)
(* execute_transaction answers at once.                                    *)
StoreRaises == "store" \in Faults /\ EndRequest("error")

(* The exception of the save or the log before the first call. *)
StartFails ==
  /\ cup /\ phase = "INIT_TXN" /\ call["INIT_TXN"][1] = "none"
  /\ StoreRaises
  /\ UNCHANGED <<call, votes, acks, history, row, cup, partVars, recVars>>

(* The initialisation loop: any failure ends the transaction at once, and  *)
(* what is saved is logged.                                                *)
InitReturns(res) ==
  /\ phase = "INIT_TXN" /\ Returned(res)
  /\ IF res = "created"
       THEN Advance /\ UNCHANGED <<phase, row, answer>>
       ELSE SaveTransaction("ABORT") /\ (EndRequest("aborted") \/ StoreRaises)
  /\ UNCHANGED <<call, votes, acks, history, cup, partVars, recVars>>

(* Mutant of VoteReturns: a missing vote is recorded as it came. *)
VoteReturnsRaw(res) ==
  /\ phase = "CAN_COMMIT" /\ Returned(res)
  /\ votes' = [votes EXCEPT ![Urls[next]] = res]
  /\ Advance
  /\ UNCHANGED <<phase, call, acks, history, row, answer, cup, partVars, recVars>>

VoteReturns(res) ==
  /\ phase = "CAN_COMMIT" /\ Returned(res)
  /\ votes' = [votes EXCEPT ![Urls[next]] =
                 IF res \in {"YES", "NO"} THEN res ELSE "NO"]
  /\ Advance
  /\ UNCHANGED <<phase, call, acks, history, row, answer, cup, partVars, recVars>>

AckReturns(res) ==
  /\ phase = "PRE_COMMIT" /\ Returned(res)
  /\ acks' = [acks EXCEPT ![Urls[next]] =
                IF res = "ACK" THEN "ACK" ELSE "FAIL"]
  /\ Advance
  /\ UNCHANGED <<phase, call, votes, history, row, answer, cup, partVars, recVars>>

(* The results of DO_COMMIT go into the answer to the client only, those   *)
(* of ABORT nowhere.                                                       *)
DecisionReturns(res) ==
  /\ phase \in {"DO_COMMIT", "ABORT"} /\ Returned(res)
  /\ Advance
  /\ UNCHANGED <<phase, call, votes, acks, history, row, answer, cup, partVars,
                 recVars>>

AllYes == \A p \in Called : votes[p] = "YES"
AllAcked == \A p \in Called : acks[p] = "ACK"

LoopEnds(m) == cup /\ phase = m /\ next \notin Positions
Enter(m) == phase' = m /\ next' = 1 /\ UNCHANGED answer

AllInitialized ==
  /\ LoopEnds("INIT_TXN") /\ Enter("CAN_COMMIT")
  /\ UNCHANGED <<call, votes, acks, history, row, cup, partVars, recVars>>

(* Mutant of CountVotes: any() for all(). *)
CountVotesAny ==
  /\ LoopEnds("CAN_COMMIT")
  /\ IF \E p \in Called : votes[p] = "YES"
       THEN TransitionTo("PRE_COMMIT") /\ (Enter("PRE_COMMIT") \/ StoreRaises)
       ELSE TransitionTo("ABORT") /\ Enter("ABORT")
  /\ UNCHANGED <<call, votes, acks, row, cup, partVars, recVars>>

CountVotes ==
  /\ LoopEnds("CAN_COMMIT")
  /\ IF AllYes
       THEN TransitionTo("PRE_COMMIT") /\ (Enter("PRE_COMMIT") \/ StoreRaises)
       ELSE TransitionTo("ABORT") /\ Enter("ABORT")
  /\ UNCHANGED <<call, votes, acks, row, cup, partVars, recVars>>

(* Mutant of CountAcks: any() for all(). *)
CountAcksAny ==
  /\ LoopEnds("PRE_COMMIT")
  /\ IF \E p \in Called : acks[p] = "ACK"
       THEN TransitionTo("COMMIT") /\ (Enter("DO_COMMIT") \/ StoreRaises)
       ELSE TransitionTo("ABORT") /\ Enter("ABORT")
  /\ UNCHANGED <<call, votes, acks, row, cup, partVars, recVars>>

CountAcks ==
  /\ LoopEnds("PRE_COMMIT")
  /\ IF AllAcked
       THEN TransitionTo("COMMIT") /\ (Enter("DO_COMMIT") \/ StoreRaises)
       ELSE TransitionTo("ABORT") /\ Enter("ABORT")
  /\ UNCHANGED <<call, votes, acks, row, cup, partVars, recVars>>

(* The last save_transaction and the answer to the client. *)
Finish ==
  /\ \/ /\ LoopEnds("DO_COMMIT")
        /\ SaveTransaction("COMMIT") /\ EndRequest("committed")
     \/ LoopEnds("ABORT") /\ SaveTransaction("ABORT") /\ EndRequest("aborted")
     \/ /\ LoopEnds("DO_COMMIT") \/ LoopEnds("ABORT")
        /\ StoreRaises /\ UNCHANGED row
  /\ UNCHANGED <<call, votes, acks, history, cup, partVars, recVars>>

CoordinatorStep ==
  \/ StartFails \/ Send
  \/ \E res \in Replies \cup {"exception"} :
       InitReturns(res) \/ VoteReturns(res) \/ AckReturns(res)
         \/ DecisionReturns(res)
  \/ AllInitialized \/ CountVotes \/ CountAcks \/ Finish

(* No coordinator takes a crashed one's transaction over. *)
CrashCoordinator ==
  /\ "crashCoordinator" \in Faults /\ cup
  /\ cup' = FALSE
  /\ UNCHANGED <<phase, next, votes, acks, history, row, answer, call, partVars,
                 recVars>>

(* A request fails before it is handled: the participant is down, the      *)
(* connection broke with the coordinator's crash, or the network drops it. *)
LoseCall(m, k) ==
  /\ call[m][k] = "sent"
  /\ ~up[Urls[k]] \/ ~cup \/ "lost" \in Faults
  /\ call' = [call EXCEPT ![m][k] = "lost"]
  /\ UNCHANGED <<coordVars, partVars, recVars>>

-----------------------------------------------------------------------------
(* The participants' request threads *)

ValidTransitions ==
  [INIT |-> {"READY", "ABORT"}, READY |-> {"PRE_COMMIT", "ABORT"},
   PRE_COMMIT |-> {"COMMIT", "ABORT"}, COMMIT |-> {}, ABORT |-> {}, NONE |-> {}]

CanMove(p, s) == s \in ValidTransitions[mem[p]]

(* The state a message moves its receiver to. *)
Target ==
  [INIT_TXN |-> "INIT", CAN_COMMIT |-> "READY", PRE_COMMIT |-> "PRE_COMMIT",
   DO_COMMIT |-> "COMMIT", ABORT |-> "ABORT"]

SetCall(m, k, s) == call' = [call EXCEPT ![m][k] = s]

(* The end of receive_message: a final state stops the heartbeat clock. *)
StopClockIfFinal(p) ==
  active' = IF mem[p] \in Final THEN [active EXCEPT ![p] = FALSE] ELSE active

Arrives(m, k) == call[m][k] = "sent" /\ up[Urls[k]]

(* /init-transaction; initialize leaves a tracked transaction alone. *)
InitTransaction(k) ==
  LET p == Urls[k]
  IN  /\ Arrives("INIT_TXN", k)
      /\ IF mem[p] = "NONE"
           THEN /\ mem' = [mem EXCEPT ![p] = "INIT"]
                /\ SetCall("INIT_TXN", k, "save")
                /\ UNCHANGED active
           ELSE /\ active' = [active EXCEPT ![p] = TRUE]
                /\ SetCall("INIT_TXN", k, "created")
                /\ UNCHANGED mem
      /\ UNCHANGED <<coordVars, db, up, crashes, recVars>>

ReceiveUnknown(m, k) ==
  /\ m # "INIT_TXN" /\ Arrives(m, k) /\ mem[Urls[k]] = "NONE"
  /\ SetCall(m, k, "unknown")
  /\ UNCHANGED <<coordVars, partVars, recVars>>

(* transition succeeds in memory; the row is written after the unlock. *)
ReceiveValid(m, k) ==
  /\ m # "INIT_TXN" /\ Arrives(m, k) /\ CanMove(Urls[k], Target[m])
  /\ mem' = [mem EXCEPT ![Urls[k]] = Target[m]]
  /\ SetCall(m, k, "save")
  /\ UNCHANGED <<coordVars, db, active, up, crashes, recVars>>

(* transition is refused: a NO vote has still to abort, every other        *)
(* message is acknowledged as if it had been obeyed.                       *)
ReceiveInvalid(m, k) ==
  LET p == Urls[k]
  IN  /\ m # "INIT_TXN" /\ Arrives(m, k)
      /\ mem[p] # "NONE" /\ ~CanMove(p, Target[m])
      /\ IF m = "CAN_COMMIT"
           THEN SetCall(m, k, "refuse") /\ UNCHANGED active
           ELSE SetCall(m, k, "ACK") /\ StopClockIfFinal(p)
      /\ UNCHANGED <<coordVars, mem, db, up, crashes, recVars>>

RefuseVote(k) ==
  LET p == Urls[k]
  IN  /\ call["CAN_COMMIT"][k] = "refuse"
      /\ IF CanMove(p, "ABORT")
           THEN /\ mem' = [mem EXCEPT ![p] = "ABORT"]
                /\ SetCall("CAN_COMMIT", k, "saveAbort")
                /\ UNCHANGED active
           ELSE /\ SetCall("CAN_COMMIT", k, "NO")
                /\ StopClockIfFinal(p)
                /\ UNCHANGED mem
      /\ UNCHANGED <<coordVars, db, up, crashes, recVars>>

Answer(m, k) ==
  IF m = "INIT_TXN" THEN "created"
  ELSE IF m # "CAN_COMMIT" THEN "ACK"
  ELSE IF call[m][k] = "save" THEN "YES" ELSE "NO"

(* Mutant of SaveAndAnswer: the transition is not saved. *)
AnswerUnsaved(m, k) ==
  LET p == Urls[k]
  IN  /\ call[m][k] \in {"save", "saveAbort"}
      /\ IF m = "INIT_TXN" THEN active' = [active EXCEPT ![p] = TRUE]
                           ELSE StopClockIfFinal(p)
      /\ SetCall(m, k, Answer(m, k))
      /\ UNCHANGED <<coordVars, mem, db, up, crashes, recVars>>

(* save_state, the clock, and the answer. *)
SaveAndAnswer(m, k) ==
  LET p == Urls[k]
  IN  /\ call[m][k] \in {"save", "saveAbort"}
      /\ db' = [db EXCEPT ![p] =
                  IF call[m][k] = "save" THEN Target[m] ELSE "ABORT"]
      /\ IF m = "INIT_TXN" THEN active' = [active EXCEPT ![p] = TRUE]
                           ELSE StopClockIfFinal(p)
      /\ SetCall(m, k, Answer(m, k))
      /\ UNCHANGED <<coordVars, mem, up, crashes, recVars>>

(* save_state raises: Flask answers 500, the memory has moved all the same. *)
SaveFails(m, k) ==
  /\ "disk" \in Faults /\ call[m][k] \in {"save", "saveAbort"}
  /\ SetCall(m, k, "lost")
  /\ UNCHANGED <<coordVars, partVars, recVars>>

HandlerStep(m, k) ==
  \/ m = "INIT_TXN" /\ InitTransaction(k)
  \/ ReceiveUnknown(m, k) \/ ReceiveValid(m, k) \/ ReceiveInvalid(m, k)
  \/ m = "CAN_COMMIT" /\ RefuseVote(k)
  \/ SaveAndAnswer(m, k)

-----------------------------------------------------------------------------
(* Recovery *)

PeerAnswers == States \cup {"UNKNOWN", "UNREACHABLE"}
NoAnswers(p) == [q \in Peers[p] |-> "none"]
Idle(p) == [pc |-> "idle", by |-> "none", to |-> "none", ans |-> NoAnswers(p)]

(* attempt_recovery returns at once when another run holds the lock or the *)
(* database has no pending row.                                            *)
AttemptRecovery(p, who) ==
  IF rec[p].pc = "idle" /\ db[p] \notin Final \cup {"NONE"}
    THEN rec' = [rec EXCEPT ![p].pc = "read", ![p].by = who]
    ELSE UNCHANGED rec

InTransit ==
  \E m \in Msgs, k \in Positions : call[m][k] \in {"sent"} \cup Handling

(* Heartbeats flow for as long as the coordinator's process lives, in a    *)
(* transaction or not.                                                     *)
Silent == "silence" \in Faults \/ (~cup /\ ~InTransit)

(* The monitor clears the flag, then runs the callback in its own thread. *)
MonitorTimeout(p) ==
  /\ up[p] /\ active[p] /\ Silent /\ rec[p].by # "monitor"
  /\ active' = [active EXCEPT ![p] = FALSE]
  /\ AttemptRecovery(p, "monitor")
  /\ UNCHANGED <<coordVars, call, mem, db, up, crashes, report>>

TriggerRecovery(p) ==
  /\ "manual" \in Faults /\ up[p]
  /\ AttemptRecovery(p, "manual")
  /\ UNCHANGED <<coordVars, call, partVars, report>>

Conclude(p, result) ==
  rec' = [rec EXCEPT ![p] = Idle(p)] /\ report' = [report EXCEPT ![p] = result]

(* Mutant of ReadState: READY waits for the coordinator, as in two-phase   *)
(* commit.                                                                 *)
ReadStateBlocking(p) ==
  /\ rec[p].pc = "read"
  /\ \/ /\ mem[p] = "PRE_COMMIT"
        /\ rec' = [rec EXCEPT ![p].pc = "query"] /\ UNCHANGED report
     \/ /\ mem[p] = "INIT"
        /\ rec' = [rec EXCEPT ![p].pc = "abort"] /\ UNCHANGED report
     \/ mem[p] \in Final \cup {"READY", "NONE"} /\ Conclude(p, "UNKNOWN")
  /\ UNCHANGED <<coordVars, call, partVars>>

(* The state is read here and acted upon later. *)
ReadState(p) ==
  /\ rec[p].pc = "read"
  /\ \/ /\ mem[p] = "PRE_COMMIT"
        /\ rec' = [rec EXCEPT ![p].pc = "query"] /\ UNCHANGED report
     \/ /\ mem[p] \in {"INIT", "READY"}
        /\ rec' = [rec EXCEPT ![p].pc = "abort"] /\ UNCHANGED report
     \/ mem[p] \in Final \cup {"NONE"} /\ Conclude(p, "UNKNOWN")
  /\ UNCHANGED <<coordVars, call, partVars>>

(* query_state answers from memory only. *)
QueryState(q) == IF mem[q] = "NONE" THEN "UNKNOWN" ELSE mem[q]

QueryPeer(p, q) ==
  /\ rec[p].pc = "query" /\ q \in Peers[p] /\ rec[p].ans[q] = "none"
  /\ \E a \in PeerAnswers :
       /\ \/ up[q] /\ a = QueryState(q)
          \/ (~up[q] \/ "unreachable" \in Faults) /\ a = "UNREACHABLE"
       /\ rec' = [rec EXCEPT ![p].ans[q] = a]
  /\ UNCHANGED <<coordVars, call, partVars, report>>

(* Mutant of Decision: one prepared peer is enough to commit. *)
DecisionAnyPrepared(ans) ==
  LET reachable == {ans[q] : q \in DOMAIN ans} \ {"UNREACHABLE"}
  IN  IF "COMMIT" \in reachable THEN "COMMIT"
      ELSE IF "ABORT" \in reachable THEN "ABORT"
      ELSE IF "PRE_COMMIT" \in reachable THEN "COMMIT"
      ELSE IF reachable \cap {"INIT", "READY"} # {} THEN "ABORT"
      ELSE "UNKNOWN"

Decision(ans) ==
  LET reachable == {ans[q] : q \in DOMAIN ans} \ {"UNREACHABLE"}
  IN  IF reachable = {} THEN "UNKNOWN"
      ELSE IF "COMMIT" \in reachable THEN "COMMIT"
      ELSE IF "ABORT" \in reachable THEN "ABORT"
      ELSE IF reachable \cap {"INIT", "READY"} # {} THEN "ABORT"
      ELSE IF reachable = {"PRE_COMMIT"} THEN "COMMIT"
      ELSE "UNKNOWN"

(* transition(to), whose result is not looked at. *)
Resolve(p, to) ==
  IF CanMove(p, to)
    THEN /\ mem' = [mem EXCEPT ![p] = to]
         /\ rec' = [rec EXCEPT ![p].pc = "save", ![p].to = to,
                               ![p].ans = NoAnswers(p)]
         /\ UNCHANGED report
    ELSE Conclude(p, to) /\ UNCHANGED mem

(* Mutant of AbortPending: the abort is reported and not carried out. *)
AbortUnapplied(p) ==
  /\ rec[p].pc = "abort"
  /\ Conclude(p, "ABORT")
  /\ UNCHANGED <<coordVars, call, partVars>>

AbortPending(p) ==
  /\ rec[p].pc = "abort"
  /\ Resolve(p, "ABORT")
  /\ UNCHANGED <<coordVars, call, db, active, up, crashes>>

MakeDecision(p) ==
  /\ rec[p].pc = "query" /\ \A q \in Peers[p] : rec[p].ans[q] # "none"
  /\ LET d == Decision(rec[p].ans)
     IN  IF d = "UNKNOWN" THEN Conclude(p, d) /\ UNCHANGED mem
                          ELSE Resolve(p, d)
  /\ UNCHANGED <<coordVars, call, db, active, up, crashes>>

(* Mutant of SaveResolution: a recovery's transition is not saved. *)
ResolutionUnsaved(p) ==
  /\ rec[p].pc = "save"
  /\ Conclude(p, rec[p].to)
  /\ UNCHANGED <<coordVars, call, partVars>>

SaveResolution(p) ==
  /\ rec[p].pc = "save"
  /\ db' = [db EXCEPT ![p] = rec[p].to]
  /\ Conclude(p, rec[p].to)
  /\ UNCHANGED <<coordVars, call, mem, active, up, crashes>>

(* The exception releases the lock and leaves attempt_recovery. *)
ResolutionFails(p) ==
  /\ "disk" \in Faults /\ rec[p].pc = "save"
  /\ rec' = [rec EXCEPT ![p] = Idle(p)]
  /\ UNCHANGED <<coordVars, call, partVars, report>>

RecoveryStep(p) ==
  \/ ReadState(p) \/ AbortPending(p) \/ MakeDecision(p) \/ SaveResolution(p)
  \/ \E q \in Peers[p] : QueryPeer(p, q)

-----------------------------------------------------------------------------
(* Crash and restart of a participant *)

(* The memory, the clock and every thread are gone; an answer that the     *)
(* coordinator has not read yet is gone with its connection.               *)
CrashParticipant(p) ==
  /\ "crashParticipant" \in Faults /\ up[p] /\ crashes < MaxCrashes
  /\ up' = [up EXCEPT ![p] = FALSE]
  /\ mem' = [mem EXCEPT ![p] = "NONE"]
  /\ active' = [active EXCEPT ![p] = FALSE]
  /\ crashes' = crashes + 1
  /\ rec' = [rec EXCEPT ![p] = Idle(p)]
  /\ report' = [report EXCEPT ![p] = "none"]
  /\ call' = [m \in Msgs |-> [k \in Positions |->
       IF /\ Urls[k] = p
          /\ \/ call[m][k] \in Handling
             \/ call[m][k] \in Replies /\ m = phase /\ k = next
         THEN "lost" ELSE call[m][k]]]
  /\ UNCHANGED <<coordVars, db>>

(* _restore_from_db reloads a row that is not final. *)
Reloaded(p) == IF db[p] \in Final THEN "NONE" ELSE db[p]

(* run_participant; the new HeartbeatMonitor's flag is down. *)
Restart(p) ==
  /\ ~up[p]
  /\ up' = [up EXCEPT ![p] = TRUE]
  /\ mem' = [mem EXCEPT ![p] = Reloaded(p)]
  /\ UNCHANGED <<coordVars, call, db, active, crashes, recVars>>

-----------------------------------------------------------------------------
(* execute_transaction up to the first call: the STARTED row is saved, or  *)
(* its save is refused.                                                    *)
Init ==
  /\ phase = "INIT_TXN" /\ next = 1
  /\ call = [m \in Msgs |-> [k \in Positions |-> "none"]]
  /\ votes = [p \in Called |-> "none"]
  /\ acks = [p \in Called |-> "none"]
  /\ history = <<"INIT">>
  /\ row = "STARTED" \/ ("store" \in Faults /\ row = "none")
  /\ answer = "none"
  /\ cup = TRUE
  /\ mem = [p \in Participants |-> "NONE"]
  /\ db = [p \in Participants |-> "NONE"]
  /\ active = [p \in Participants |-> FALSE]
  /\ up = [p \in Participants |-> TRUE]
  /\ crashes = 0
  /\ rec = [p \in Participants |-> Idle(p)]
  /\ report = [p \in Participants |-> "none"]

Next ==
  \/ CoordinatorStep
  \/ CrashCoordinator
  \/ \E m \in Msgs, k \in Positions :
       LoseCall(m, k) \/ HandlerStep(m, k) \/ SaveFails(m, k)
  \/ \E p \in Participants :
       \/ MonitorTimeout(p) \/ TriggerRecovery(p) \/ RecoveryStep(p)
       \/ ResolutionFails(p) \/ CrashParticipant(p) \/ Restart(p)

Spec == Init /\ [][Next]_vars

(* Threads run, requests arrive or fail, Docker restarts a container       *)
(* (restart: unless-stopped); faults and operators owe nothing.            *)
Fairness ==
  /\ WF_vars(CoordinatorStep)
  /\ \A m \in Msgs, k \in Positions : WF_vars(HandlerStep(m, k))
  /\ \A p \in Participants :
       WF_vars(MonitorTimeout(p)) /\ WF_vars(RecoveryStep(p))
         /\ WF_vars(Restart(p))

FairSpec == Spec /\ Fairness

(* The coordinator's thread runs, and nobody else has to.                  *)
CoordinatorSpec == Spec /\ WF_vars(CoordinatorStep)
-----------------------------------------------------------------------------
(* Properties *)

RecOK(p, r) ==
  /\ r \in [pc  : {"idle", "read", "abort", "query", "save"},
            by  : {"none", "monitor", "manual"},
            to  : {"none", "COMMIT", "ABORT"},
            ans : [Peers[p] -> PeerAnswers \cup {"none"}]]
  /\ r.pc = "save" => r.to \in Final

(* Every variable has a value the code can give it. *)
TypeOK ==
  /\ phase \in Msgs \cup {"END"} /\ next \in Nat \ {0}
  /\ call \in [Msgs -> [Positions -> CallStates]]
  /\ votes \in [Called -> {"none", "YES", "NO"}]
  /\ acks \in [Called -> {"none", "ACK", "FAIL"}]
  /\ history \in Seq(States \cup {"WAIT"})
  /\ row \in {"none", "STARTED", "COMMIT", "ABORT"}
  /\ answer \in {"none", "committed", "aborted", "error"}
  /\ cup \in BOOLEAN
  /\ mem \in [Participants -> MaybeStates]
  /\ db \in [Participants -> MaybeStates]
  /\ active \in [Participants -> BOOLEAN]
  /\ up \in [Participants -> BOOLEAN]
  /\ crashes \in 0..MaxCrashes
  /\ rec = [p \in Participants |-> rec[p]]
  /\ \A p \in Participants : RecOK(p, rec[p])
  /\ report \in [Participants -> {"none", "COMMIT", "ABORT", "UNKNOWN"}]

(* No participant is ever prepared or committed, in memory or on disk,     *)
(* unless the coordinator counted a YES from every participant, whatever   *)
(* fails, restarts or recovers on its own (REPORT.md:94).                  *)
PastVoting == phase \notin {"INIT_TXN", "CAN_COMMIT"} /\ AllYes

CommitValidity ==
  \A p \in Participants :
    mem[p] \in {"PRE_COMMIT", "COMMIT"} \/ db[p] \in {"PRE_COMMIT", "COMMIT"}
      => PastVoting

(* A YES the coordinator has counted is on the voter's disk: no crash, and *)
(* no late save of another thread, takes its row back to INIT.             *)
VotesDurable ==
  \A p \in Called : votes[p] = "YES" => db[p] \notin {"NONE", "INIT"}

(* The commit barrier of three-phase commit: while the commit outcome      *)
(* exists anywhere, in the coordinator's row, its answer to the client, a  *)
(* memory or a database, no participant of the transaction is short of     *)
(* PRE_COMMIT or aborted, whether or not the coordinator's writes succeed. *)
CommitBarrier ==
  (\/ row = "COMMIT" \/ answer = "committed"
   \/ \E p \in Participants : "COMMIT" \in {mem[p], db[p]})
    => \A q \in Called : mem[q] \in {"PRE_COMMIT", "COMMIT"}

(* Atomicity (REPORT.md:60): no participant commits and another aborts.    *)
Agreement ==
  \A p, q \in Participants :
    ~("COMMIT" \in {mem[p], db[p]} /\ "ABORT" \in {mem[q], db[q]})

(* Memories are the decisions, counted votes the votes. *)
Atomic == INSTANCE AtomicCommit WITH
  Participants <- Called,
  voted <- {p \in Called : votes[p] = "YES"},
  outcome <- [p \in Called |-> IF mem[p] \in Final THEN mem[p] ELSE "undecided"]

(* The participants implement atomic commitment: nobody commits before all *)
(* have voted or once one has aborted, and no decision is changed.         *)
AtomicSpec == Atomic!Spec

(* A thread of p is between its state change and its save. *)
Saving(p) ==
  \/ rec[p].pc = "save"
  \/ \E m \in Msgs, k \in Positions :
       Urls[k] = p /\ call[m][k] \in {"save", "saveAbort"}

(* When no thread of p is between its state change and its save, the row   *)
(* is the state: what a restart would reload (state_manager.py:4-6).       *)
MemoryPersisted ==
  \A p \in Participants : mem[p] # "NONE" /\ ~Saving(p) => mem[p] = db[p]

(* A recovery that returns COMMIT or ABORT, to the monitor or to who posts *)
(* /recover, has left its participant decided, whichever request has       *)
(* overtaken it (auto_recovery.py:59-62); and it never returns COMMIT of a *)
(* transaction that somebody has not voted for.  Which of the two the      *)
(* participant has decided is not said: a transition that is refused is    *)
(* reported as if it had been made.                                        *)
ReportDecided ==
  \A p \in Participants :
    /\ report[p] \in Final => mem[p] \in Final
    /\ report[p] = "COMMIT" => PastVoting

(* A recovery that has run has left its participant decided: the survivors *)
(* of a coordinator need nobody else to go on (REPORT.md:66, 69), even if  *)
(* peers have decided or begun to recover in the meantime.                 *)
RecoveryDecides ==
  \A p \in Participants : report[p] # "none" => mem[p] \in Final

(* A participant that is in a transaction when its coordinator is dead     *)
(* tries to recover it, also after a restart: reloading the transaction is *)
(* what makes that possible (state_manager.py:36-38).                      *)
OrphansRecover ==
  \A p \in Participants :
    up[p] /\ ~cup /\ mem[p] \notin Final \cup {"NONE"}
      ~> ~up[p] \/ mem[p] \in Final \/ report[p] # "none"

(* What three-phase commit is for (REPORT.md:66): a coordinator that       *)
(* crashes blocks nobody; if no participant crashes, all decide.           *)
NonBlocking ==
  \A p \in Participants : mem[p] # "NONE" ~> mem[p] \in Final \/ crashes > 0

(* A client that is told that its transaction was aborted finds it         *)
(* committed nowhere (REPORT.md:60).                                       *)
AbortAnswered ==
  answer = "aborted" =>
    \A p \in Participants : "COMMIT" \notin {mem[p], db[p]}

(* The request ends, unless its coordinator crashes, although participants *)
(* may take it and never answer: every post has a timeout (server.py:313). *)
CoordinatorFinishes == <>(phase = "END" \/ ~cup)
=============================================================================
