# Three-phase commit: verification project

TLA+ modules, TLC runs and TLAPS proofs for the three-phase commit (3PC)
system in `src/`: a Flask coordinator, Flask participants with a SQLite file
each, coordinator heartbeats, autonomous recovery of the participants, and
etcd leader election among three coordinators. Line numbers below are lines of
`src/`.

## 1. The system

A client posts `/execute-transaction` with a list of participant URLs. The
coordinator that is leader runs `execute_3pc_protocol` in the request thread:

    /init-transaction to each -> CAN_COMMIT to each -> all YES?
        -> PRE_COMMIT to each -> all ACK? -> DO_COMMIT to each
    otherwise -> ABORT to each (not after a failed /init-transaction)

All calls are synchronous HTTP posts with timeouts, made one after the other.
Participants run threaded Flask, so several requests, the recovery thread and
the heartbeat monitor of one participant interleave. When a participant has
heard nothing from the coordinator for five seconds in a transaction, it
resolves the transaction by itself: abort if it is in INIT or READY, otherwise
ask its configured peers for their states and decide from the answers.

### Inventory

| component | source | state | operations | modelled by |
|---|---|---|---|---|
| coordinator protocol | `coordinator/server.py` | locals of a request: votes, acks, timings; the `CoordinatorStateManager`s | execute_transaction, execute_3pc_protocol, send_*; status and metrics endpoints | `ThreePhaseCommit` (the protocol), `TransactionService` (leader check, forwarding) |
| coordinator state machine | `coordinator/state.py` | current state, history | transition_to | `ThreePhaseCommit` |
| participant handlers | `participant/server.py` | none of its own | /init-transaction, /message, /heartbeat, /query-state, /recover | `ThreePhaseCommit` |
| participant state manager | `participant/state_manager.py` | state per transaction, in memory, behind a lock | initialize, transition, get_state, _restore_from_db | `ThreePhaseCommit` |
| participant database | `storage/participant_database.py` | one row per transaction | save_state, get_pending, get_all | `ThreePhaseCommit` |
| automatic recovery | `participant/auto_recovery.py` | non-blocking lock | attempt_recovery, _query_peers, _make_decision | `ThreePhaseCommit` |
| heartbeat monitor | `participant/timeout_detector.py` | time of the last heartbeat, one "in flight" flag | update, mark active, mark done, monitor loop | `HeartbeatMonitor`; its flag, for one transaction, in `ThreePhaseCommit` |
| coordinator heartbeat | `coordinator/heartbeat.py` | registry of URLs, never shrinks | register, beat loop | `HeartbeatMonitor` |
| message format | `coordinator/messages.py` | none | to_dict, from_dict | message types only |
| leader election | `coordinator/leader_election.py` | is_leader, lease, two threads; the etcd key | try_become_leader, monitor loop, heartbeat loop, step_down (never called) | `LeaderElection` |
| coordinator database | `storage/database.py` | transactions, events, in one file shared by the coordinators | save_transaction, log_event, queries | `row` in `ThreePhaseCommit`, `rows` in `TransactionService`; averages and listings not |
| metrics | `metrics/collector.py` | counters | record_* | not modelled: nothing reads them |
| dashboard, partition script, deployment, tests | `dashboard/`, `scripts/`, compose files, `tests/` | none that the protocol reads | display, fault injection, configuration | not modelled |

What makes each part correct:

* Coordinator and participants together: atomicity (all commit or none), no
  commit without every vote, no commit while somebody is still able to abort
  on its own (the commit barrier, which is what makes 3PC non-blocking), and a
  decision for everyone that joined.
* State manager and database: memory and row agree whenever nobody is saving,
  and a vote the coordinator has relied on survives a restart.
* Recovery: one that returns a decision leaves its participant decided; it is
  tried whenever the coordinator is dead; it agrees with what the coordinator and
  the peers do.
* Heartbeat monitor: a coordinator that died is noticed; one that lives is heard
  of before the timeout.
* Leader election: one leader at a time, and a leader again after a failure.
* Request forwarding: only one coordinator executes transactions at a time, for
  as long as each takes and not only when the flag is looked at.
* Coordinator database: the row of a transaction never contradicts what its
  client was told.

The behaviours that are hard here, each listed at its line under `hazards` in
`PROJECT.json`: calls that time out and are handled later all the same;
transitions that are refused and acknowledged; memory changed under a lock and
saved after it; a state read and acted upon later (recovery, peer answers,
is_leader); timeouts that fire once; restarts that forget final states; peers
fixed by configuration and participants chosen by the client; one clock for
all transactions; shared database files; writes that are refused silently, or
raise between two phases; rounds of heartbeats that dead participants hold up;
renewal of a lease no key hangs on.

## 2. Modules

| module | content |
|---|---|
| `ThreePhaseCommit` | one transaction: coordinator, network, participants' request threads, memory and database, heartbeat timeout, recovery threads, crashes and restarts; the properties |
| `AtomicCommit` | what a commit protocol promises: a participant commits only after all have voted and nobody has aborted, and decisions are final. `ThreePhaseCommit` instantiates it with a refinement mapping (`AtomicSpec`) |
| `LeaderElection` | the key `/3pc/leader`, and in every coordinator process the flag, the lease and the two threads that run elections; the properties |
| `Leadership` | what an election promises: nobody takes office while it is held, and who lives stays in office. `LeaderElection` instantiates it (`LeadershipSpec`): its flags are who is in office, its processes who lives |
| `HeartbeatMonitor` | how one participant notices that a coordinator died: beat loops and registries of several coordinators, clock and flag of the participant, the request threads of several transactions, the monitor thread; time in seconds |
| `TransactionService` | extends `LeaderElection` with client requests: the leader check, forwarding, execution as one long step, the shared table of transactions, the answers |
| `MCThreePhaseCommit`, `MCLeaderElection`, `MCHeartbeatMonitor`, `MCTransactionService` | constants of the TLC runs |
| `ThreePhaseCommitProofs` | theorems about `ThreePhaseCommit` under every fault: types, validity, durable votes |
| `RecoveryProofs` | extends it: what a recovery has decided when it returns, memory against disk |
| `BarrierProofs` | extends that: the commit barrier, agreement, the refinement of `AtomicCommit`, recoveries that decide |
| `LeaderElectionProofs`, `HeartbeatMonitorProofs`, `TransactionServiceProofs` | theorems about the module each is named after |

### One transaction

Transactions have fresh uuids. At a participant they share nothing but the
heartbeat monitor, so one transaction is modelled; the sharing (a clock stopped
or restarted by another transaction) is the subject of `HeartbeatMonitor`.

### Grain

A step is what happens between two points where another thread or process can
get in. A handler is therefore up to four steps:

    sent --handled--> memory changed, not saved ("save") --> saved and answered
     |                refused READY ("refuse") --> aborted, not saved ("saveAbort") --> answered
     +--> lost

`call[m][k]` is the state of request `m` to the `k`-th URL. The response is
read by the coordinator in a step of its own (`Returned`), which is where a
timeout may take the place of the answer, with the request still going on.

| code | model |
|---|---|
| loops over participant_urls, server.py:229-240 and 307-364 | `Send`, `InitReturns`, `VoteReturns`, `AckReturns`, `DecisionReturns`, position `next` |
| what follows each loop, server.py:242-304 | `AllInitialized`, `CountVotes`, `CountAcks`, `Finish` |
| save_transaction, which drops a refused write (database.py:76-136) | `SaveTransaction`: the row may stay as it is |
| save_transaction or log_event that cannot open the database, and the handler of execute_transaction (server.py:206-209) | `StoreRaises`, `StartFails`: the request ends with "error" between any two phases |
| the answer to the client | `answer` |
| dicts keyed by URL | `votes`, `acks` keyed by participant: a URL given twice has one entry |
| transition_to with its result ignored | `TransitionTo`: history grows only if allowed |
| /init-transaction, participant/server.py:110-145 | `InitTransaction`, then `SaveAndAnswer` |
| /message, participant/server.py:152-301 | `ReceiveUnknown` (400), `ReceiveValid`, `ReceiveInvalid`, `RefuseVote`, `SaveAndAnswer` |
| save_state raising | `SaveFails`, `ResolutionFails` |
| mark_transaction_active / done | the `active` updates in `InitTransaction`, `SaveAndAnswer`, `StopClockIfFinal` |
| monitor loop and its callback | `MonitorTimeout` |
| /recover | `TriggerRecovery` |
| attempt_recovery, its lock and its early returns | `AttemptRecovery`, `Conclude` |
| _recover_transaction | `ReadState`, `AbortPending` (the state is read in one step and acted upon in another) |
| _query_peers, /query-state | `QueryPeer`, one peer per step, in any order |
| _make_decision | `MakeDecision`, `Decision`, `Resolve`, then `SaveResolution` |
| process exit and `_restore_from_db` | `CrashParticipant`, `Restart` |

Left out: logging, event rows, metrics, latencies, the three-second sleep
between the phases (any delay is allowed anyway), and the wording of answers.
QueryPeer asks in any order although the code asks in list order; more
interleavings are allowed than the code has, none fewer.

### Leader election

`try_become_leader` is five steps: entered (`Unavailable` when etcd was not
reached at start-up), `GrantLease`, `PutKey`, `SetFlag`, `StartHeartbeat`; each
etcd call may raise (`GrantFails`, `PutFails`, the latter with or without its
effect). Two threads of a process run it: the monitor (`ReadLeader`,
`ConfirmLeader`, every three seconds), whose first election stands for the one at
module start-up, and the heartbeat thread after a failed renewal
(`RefreshFails`, `HandleLeaseLoss`), which then ends and is never replaced.

| code | model |
|---|---|
| key and its value | `holder` |
| `_lease`, overwritten by each attempt | `current`: the holder's `_lease` is the key's lease |
| `_etcd_available` | `connected` |
| `is_leader` | `isLeader` |
| `_heartbeat_thread` is not None | `pc[n]["heartbeat"] # "none"` |
| lease refresh every five seconds, TTL ten seconds | `Renewed`, a guard of `Expire` |
| get_current_leader for the log, step_down | not modelled: no effect, never called |

Refreshing a lease that has expired does not raise in the etcd client, it only
has no effect; that is why a node which renews the wrong lease does not notice.
Time is abstracted: a lease that is renewed does not expire, and one that is not
renewed may expire at any moment, except in the instant between winning and
starting the heartbeat. Fault "late" removes that guard.

### Heartbeats

One participant, `Me`, is looked at; a coordinator's other participants are only
what its rounds spend time on. Time passes in seconds (`Tick`), only while
threads sleep or wait for the network; the monitor's half-second polling is
"at any moment". A post to `Me` arrives at once, a post to another participant
takes up to `SlowPost`, since that one may be dead: `requests` applies the timeout
of heartbeat.py:90 to connecting and again to waiting for the answer, so that a
post of one second may take two (the resolution of the name, and a peer that sends
its answer in drops, come on top and are left out).

| code | model |
|---|---|
| registry dict, register_participants | `registry`, `Register`: grows only |
| _beat_loop: copy of the registry, posts one by one, sleep | `BeginRound`, `Beat`, `EndRound`, `targets`, `left` |
| `_last_heartbeat` | `elapsed`, not counted beyond `MaxElapsed` |
| `_active_transaction` | `active`, one for all transactions |
| _monitor_loop: read under the lock, lower the flag, reset the clock, call back | `Poll`, `LowerFlag`, `StartRecovery`: three uses of the lock |
| attempt_recovery over all pending rows | `StartRecovery` (reads them), `RecoverTransaction`, `EndRecovery` |
| /init-transaction, then mark_transaction_active | `InitTransaction`, `MarkActive` |
| /message: reset the clock, move, mark_transaction_done if final | `ReceiveMessage`, `EndMessage` |
| process exits | `CrashCoordinator`, `RestartCoordinator`, `Restart` |

Abstractions: the posts of a round go in any order (the dict keeps insertion
order, which clients choose: `SilenceBounded` holds for every order, and the
counterexample of `dead_peers` is the order in which `Me` was named last); a
coordinator makes one call at a time, so a
transaction has one request thread at `Me`; no request arrives after its
coordinator's death; the restart of `Me` is one step; heartbeats to `Me` are not
lost (`ThreePhaseCommit` has the fault "silence" for that); /recover is left to
`ThreePhaseCommit`, and so is what a recovery decides: here it resolves a
transaction or leaves it pending.

### Client requests

`handler[r]` is the innermost thread that works on request r and the node it
runs at; `waiting[r]` are the nodes that have forwarded it and wait. Execution
is `Begin`, some time during which anything may happen to the election, `Decide`,
`Answer`: what goes on inside is `ThreePhaseCommit`.

| code | model |
|---|---|
| a request arrives, from a client or forwarded | `Post`, `Handle` |
| `if not election.is_leader` (server.py:165), read once | `CheckLeader` |
| get_current_leader, `leader_ports.get`, 503 | `LookUpLeader`, `LookUpFails` |
| the post to the leader, its answer, its failure (500), its 60 seconds | `Forward`, `Return`, `ForwardFails`, `ForwardTimesOut` |
| no participants: 400 (server.py:185) | `Refuse` |
| STARTED row; outcome row; jsonify(result) | `Begin`, `Decide`, `Answer` |
| the exception handler | `ExecutionRaises` |
| the threads of a process that stops, the connections to it | `ElectionStep`, `Broken` |

A forwarded request is handled like any other: a node whose flag is down while
the key names it forwards to itself until its monitor has polled. `Forward` may
therefore repeat; no property asks that a request is answered.

### Faults

`Faults` selects what may go wrong, so that a run says precisely under what a
property holds:

| fault | meaning |
|---|---|
| lost | a request fails before it is handled |
| slow | the coordinator's timeout elapses before it reads the answer; the request goes on |
| silence | a monitor sees five seconds of silence while the coordinator lives or its requests are still being handled |
| unreachable | a peer query fails although the peer is up |
| manual | somebody posts /recover |
| disk | SQLite refuses a write of a participant |
| store | SQLite refuses a write of the coordinator, or raises when it is opened |
| crashCoordinator | the coordinator stops for good |
| crashParticipant | a participant stops, at most `MaxCrashes` times in all, and restarts |

The faults of `LeaderElection`: crash (a coordinator stops, at most `MaxCrashes`
times in all, and is restarted after its key has expired), quickRestart (before),
etcd (a call raises, at most `MaxErrors` times), startup (etcd cannot be reached
when a process starts), late (a renewal comes too late). `TransactionService` adds
`StoreFails`; its lookups and forwards may fail at any time. In `HeartbeatMonitor`
coordinators crash at most `MaxCrashes` times and the participant restarts at
most `MaxRestarts` times. Nothing else is bounded.

Without "silence" a timeout is accurate: the coordinator is dead and no
request of its is on its way or being handled (five seconds are long against a
handler that writes one row). That is an assumption of the runs that leave the
fault out, not something the code ensures.

## 3. Runs

Two participants show every
interleaving of two processes with every fault; three are needed where a
majority of answers, a mixed set of peer states or an uninvolved peer matters.
One crash of a participant is enough for each of its effects (lost memory,
row older than memory, forgotten final state, clock not running); the run
`restart` lets it come at any step. Deadlock is not an error in the runs of
`ThreePhaseCommit`: a transaction ends; in all others it is checked.
Participants are not declared
symmetric, because the list of URLs is ordered; coordinators and requests are in
`failover`, which checks no liveness. Two coordinators are enough for a leader and
a rival, three for two rivals; one crash takes the leader, and its return
makes it a rival of its successor (the theorems are for any number of crashes);
two failing etcd calls hit both threads of a node, or one node's election and
its renewal. Two requests are enough for two executors. In `heartbeat` and
`dead_peers` the times are the deployed ones (2, 1 and 5 seconds; server.py:46,
heartbeat.py:20, docker-compose.yml:204), and so are the two participants besides
`Me`, each dead or alive in each post; `MaxElapsed` is 11, one more than the longest
silence there can be, so that a longer one would be seen. Two transactions share
the clock and one coordinator serves both; several coordinators at one participant
are in the theorems only. `shared_flag` needs no more than one other participant.

Passing:

| run | size | faults | properties | what it shows |
|---|---|---|---|---|
| restart | 2, one crash | silence, manual, unreachable, disk, crashParticipant | TypeOK, CommitValidity, VotesDurable, ReportDecided | recoveries at any moment, posts of /recover while requests are handled, failing writes and a restart: nobody is prepared or committed, in memory or on disk, without a counted YES from all; a counted YES is never taken back to INIT; a recovery that returns a decision leaves its participant decided, and never returns COMMIT of a transaction somebody has not voted for |
| barrier | 3 | slow, store, crashCoordinator | CommitBarrier, Agreement, RecoveryDecides, VotesDurable, AtomicSpec, CoordinatorFinishes | requests that outlive their timeouts, a coordinator whose writes are refused or raise, with accurate timeouts, answering peers and no participant crash: once COMMIT exists anywhere, the answer to the client included, nobody is short of PRE_COMMIT; nobody commits, in memory or on disk, and another aborts; a recovery leaves its participant decided; no late save takes a counted vote back; the participants implement atomic commitment; and though participants may take a request and never answer it, the client's request ends |
| persistence | 3, one crash | crashCoordinator, crashParticipant | MemoryPersisted, NonBlocking | memory and row agree whenever no thread is saving; the coordinator's crash at any step blocks nobody, unless a participant crashes too |
| failover | 3 coordinators, 2 requests, 1 crash | crash; refused writes | TypeOK, ServiceTypeOK, AtMostOneLeader, LeaderRenews, OneExecutor, AnswerStored, LeadershipSpec | if restarts wait for the key's expiry: never two leaders, the leader renews its lease and stays in office until it dies, and all transactions under way are at one coordinator, though the flag is read once and the request takes long; the table never contradicts what a client was told |
| etcd_errors | 2 coordinators, 1 crash, 2 errors | all | FlagFollowsKey, LeaderAgain | whatever fails: a flag at odds with the key is set right again, and there is a leader again |
| heartbeat | 1 coordinator, 3 participants, 2 transactions, 1 crash, 1 restart | | TypeOK, SilenceBounded, SilenceNoticed | although both other participants may be dead and `Me` is registered in the middle of a round, a live coordinator is heard of within 10 seconds; when all falls silent under a running clock, recovery tries the transaction |

The limits of atomicity. `CommitBarrier` and `Agreement` are proved under the
hypotheses of `BarrierProofs` (section 4), and `Agreement` fails once a participant
may crash, a timeout may be false, a peer query may fail, or an operator posts
/recover in a transaction that is going on. With a repeated URL and slow
requests `CommitBarrier` fails as well: the vote of a late first CAN_COMMIT can
overwrite in the dict the NO of the second. `RecoveryDecides` fails when a peer
is outside the transaction, or there is no peer, or the only ones do not answer.

In `barrier` a call that is lost is one that is late for ever: with "slow" the
coordinator's post may raise before the request is handled, nothing ever has to handle
it, and after the coordinator's crash `LoseCall` may take it. So "lost" would add no
behaviour that a property there can tell apart, and is left out to keep the run small; the
theorems allow it.

What `ReportDecided` does not say is which decision the participant has. A
recovery acts on a state it read before, `transition` may refuse by then
(auto_recovery.py:175-200 ignores its result), and the answer of /recover names the
decision all the same: posted while the coordinator commits, it may say ABORT of a
participant that has committed.

`CoordinatorFinishes` is checked where it could fail: "slow" is on, the only
fairness of the run is the coordinator's own, and a participant may leave a request
unanswered for ever, which the timeouts of the posts then end (server.py:232, 313,
331, 349, 362). REPORT.md:411 and participant/server.py:11-12 say that protocol
messages have no timeout. A participant that sends its answer in drops is outside
the model.

`MemoryPersisted` is checked and proved without "slow", that is for participants
none of whose requests outlive the five seconds of a post; see below for what
happens otherwise.

`SilenceBounded` gives, for every configuration, how long a live coordinator may go
unheard: the sleep, and twice all other participants. With the deployed numbers this
is 2 + 2*2*2 = 10 seconds, twice the timeout; with posts that fail within one second
it is still 6. So the promise that heartbeats keep the clocks of a live coordinator
from firing (server.py:45) does not hold in the deployment that is shipped: that
is `LiveIsHeard` and the run `dead_peers`. With one other participant and
posts that end within a second, 4 seconds, it would. What a false timeout may do to a
transaction is the fault "silence".

Expected violations. Each run checks one sentence of a doc or a comment of the
repository; the quotation and the explanation are under `findings`.

| run | property | the shortest story |
|---|---|---|
| crashed_peer_splits | Agreement | the coordinator dies, a READY participant aborts and crashes, the prepared ones do not see it and commit |
| aborted_then_committed | AbortAnswered | an ACK and the ABORTs are lost, the client is told "aborted", the coordinator dies, and the prepared participants commit |
| restarted_never_recovers | OrphansRecover | a participant crashes with the transaction on its disk, its coordinator crashes, and after the restart the clock of the reloaded transaction does not run |
| dead_peers | LiveIsHeard | two dead participants hold up a round of heartbeats, and the third takes its live coordinator for dead |
| shared_flag | PendingRecovered | one transaction ends and lowers the flag; the coordinator dies; the other transaction is never recovered |
| two_leaders | OneExecutor | a leader that crashed finds its own name in the key, leads without renewing, the key expires, and two coordinators execute |

Other places where the code and its documents differ, met while modelling and
not kept as runs:

* A DO_COMMIT or ABORT that is lost is not sent again (server.py:281, 362): while the
  coordinator lives, its heartbeats keep the recovery of the prepared participant
  away, and REPORT.md:69 promises that it is not left waiting.
* /recover on a READY participant in a healthy transaction aborts it; it
  acknowledges PRE_COMMIT and DO_COMMIT all the same (participant/server.py:249), and
  the others commit: `Agreement` fails with the fault "manual".
* The save of a slow request thread overwrites a newer row (state_manager.py:126),
  which then stays READY: `MemoryPersisted` fails with the fault "slow".
* `execute_3pc_protocol` never enters WAIT, so `transition_to` refuses
  PRE_COMMIT and COMMIT (server.py:257, 278) and the state history of a committed
  transaction is `[INIT]`, not the one of REPORT.md:734. `TransitionTo` models
  it; only the answer to the client shows it.
* A peer outside the transaction answers UNKNOWN to a query, which no rule of
  `_make_decision` covers (auto_recovery.py:202): prepared participants of a
  transaction of two out of three then wait for ever.
* A recovery that ends in UNKNOWN is not tried later (auto_recovery.py:9 says
  so), since the monitor has lowered its flag (timeout_detector.py:119).
* A failed `/init-transaction` ends the transaction without `send_abort`
  (server.py:240), and so does an exception of the store (server.py:206);
  REPORT.md:333 has ABORT sent to all. The participants
  initialised before stay in INIT, with heartbeats flowing.
* The recovery that one coordinator's death starts takes every pending row
  (auto_recovery.py:73), those of a coordinator that lives included.
* A participant that a coordinator has served once hears its heartbeats for
  ever (heartbeat.py:46-56): the death of another coordinator goes unnoticed.
* After a failed renewal a coordinator wins elections but never renews
  (leader_election.py:168, 189-190): leadership moves with every expiry.
* A coordinator that cannot reach etcd never leads (leader_election.py:60-64);
  REPORT.md:218, 448 and 817 let it assume leadership.
* A coordinator that does not lead forwards requests (server.py:173);
  REPORT.md:201 and 630 have it answer 503. It forwards to
  `http://coordinator-1:5000`, and the service is called `coordinator`
  (docker-compose.yml:62).
* No code resumes the transaction of another coordinator (REPORT.md:94, 101).
* REPORT.md:411 and participant/server.py:11-12 give protocol messages no timeout;
  they have 5 and 2 seconds (server.py:313, 362).

### Fairness

`FairSpec` assumes weak fairness of the coordinator's own steps (`CoordinatorStep`:
its thread runs, and every post returns or raises), of each handler step (a
request that has arrived at a live process is handled), of each participant's
recovery steps and monitor (its loop polls every half second), and of `Restart`
(docker-compose.yml restarts containers: `restart: unless-stopped`). Nothing is
assumed of faults, of crashes or of an operator. `LoseCall` has no fairness
either, and needs none: a request to a dead participant is handled after the
restart or lost, and where "slow" is not a fault a run without participant
crashes always has the handler enabled. Weak fairness is enough because none of
these steps is disabled again and again by the others; a step that a fault
disables has been replaced by the fault's outcome.

`CoordinatorSpec`, the specification of `barrier`, assumes only the first of these: the
coordinator's thread runs and its posts return or raise. Handlers, monitors and
recoveries may stop anywhere for ever.

In `LeaderElection` weak fairness is assumed of the two threads of each process,
of `Expire` (a lease nobody renews is gone after ten seconds) and of `Restart`;
failing calls are bounded and owe nothing. `LeaderAgain` asks for a leader only
while some node could reach etcd when it started.

In `HeartbeatMonitor` weak fairness is assumed of `Running` (time passes, and what
it waits for is done: request threads end, beat loops go on) and of the monitor
thread. Nobody has to start a transaction, to send a message, to crash or to
restart. `SilenceNoticed` starts when the last restart has happened
(`restarts = MaxRestarts`), since a restart loses the clock; it excuses a participant
to which some coordinator sends heartbeats again.

`TransactionService` has no fairness: with requests that forward to themselves the
graph for "every request is answered" was too large to check.

## 4. Proofs

`ThreePhaseCommitProofs` proves, for every list of URLs, every set of
participants, every peer configuration, every set of faults and every number of
crashes:

* `TypeCorrect`: `Spec => []TypeOK`.
* `ValidCommits`: `Spec => []CommitValidity`.
* `DurableVotes`: `Spec => []VotesDurable`.

`LeaderElectionProofs` proves, for every set of coordinators and every bound:

* `TypeCorrect`: `Spec => []TypeOK`, under every fault.
* `LeadersRenew` and `OneLeader`: if `Faults \subseteq {"crash"}`, then
  `Spec => []LeaderRenews` and `Spec => []AtMostOneLeader`.

* `ImplementsLeadership`: under the same hypothesis `Spec => LeadershipSpec`.

The hypothesis of the last three is exact in kind: the run `two_leaders` breaks
`AtMostOneLeader` with a quick restart, and a failing read does so too.

The proofs of the first module use the four named assumptions of `ThreePhaseCommit`
(`UrlsAssumption`, `PeersAssumption`, `FaultsAssumption`,
`MaxCrashesAssumption`), which only say what kind of value each constant is.

`CommitValidity` is not inductive: a PRE_COMMIT may be on its way, or a thread
may be about to save it, and the coordinator may have counted votes by then.
`ValidityInv` is the disjunction that is: either the votes have been counted
and all were YES (`PastVoting`, which is stable), or there is no trace of a
commit anywhere (`NoTrace`): no PRE_COMMIT or DO_COMMIT has been sent, no
memory, row or recovery is at PRE_COMMIT or COMMIT, no peer answer says so. The
only step from the second case to the first is `CountVotes`; in the second
case recovery can only abort, since nobody answers PRE_COMMIT.

`VotesDurable` needs to know that a row beyond INIT is never taken back. A save
of INIT can only be late if its `/init-transaction` call has not answered, and
the coordinator asks for votes only after each has answered: `VoteInv` states
that the initialisations are answered once the voting has begun (`InitDone`)
and that a YES, on its way or counted, has its row beyond INIT (`Beyond`).

`RecoveryProofs` proves, for every list of URLs, every peer configuration and every
number of crashes:

* `ReportsDecided`: `Spec => []ReportDecided`, under every fault.
* `StatesPersisted`: if timeouts are accurate, no call outlives its timeout and no
  write of a participant is refused, `Spec => []MemoryPersisted`.

`BarrierProofs` proves, for every number of participants, under any loss or
lateness of the coordinator's calls, any failing write and the crash of the
coordinator at any step:

* `Barrier`: `Spec => []CommitBarrier`.
* `Atomicity`: `Spec => []Agreement`.
* `ImplementsAtomicCommit`: `Spec => AtomicSpec`.
* `RecoveriesDecide`: `Spec => []RecoveryDecides`.

`ReportsDecided` has no hypothesis; those of the others are operators over the
constants, each with a reason:

| hypothesis | says | used by | without it |
|---|---|---|---|
| AccurateTimeouts | neither "silence" nor "manual" | StatesPersisted and all of `BarrierProofs` | a recovery runs against requests of a live coordinator |
| PromptPosts | not "slow" | StatesPersisted | two request threads of a participant save in the wrong order |
| WritesSucceed | not "disk" | StatesPersisted | the memory has moved and the row has not |
| PeersAnswer | neither "unreachable" nor "crashParticipant" | all of `BarrierProofs` | the run `crashed_peer_splits` |
| PeersKnown | the peers of a participant include all others of the transaction | Barrier, Atomicity, ImplementsAtomicCommit | a prepared participant commits without having heard of the one that aborts |
| DistinctUrls | the client names nobody twice | Barrier, Atomicity, ImplementsAtomicCommit | a late first vote overwrites the NO of the second |
| PeersExact | the peers are the other participants, and there is one | RecoveriesDecide | an outsider answers UNKNOWN, or nobody answers |

The last three hold of docker-compose.yml:203, 234, 265 and a client that names
the three participants; the code checks none of them. The deployed system
satisfies all of them in a run in which nobody restarts, no peer is cut off and
the heartbeats reach who they should.

The argument. `ReportInv` says what still holds between the steps of a recovery, whichever
request overtakes it: one that is about to abort has a participant that tracks the
transaction, so that it either aborts it or finds it decided; one that asks its peers
was prepared, so that by `CommitValidity` all votes have been counted, and its participant
is still prepared or has decided; one that saves has decided. Nothing that runs at a
participant moves a decided memory, and a crash ends the recovery and forgets its report.

Under accurate timeouts a recovery begins only when the
transaction is `Orphaned`: the coordinator is dead, and nothing it has sent is
still to be handled. That is stable (`OrphanedStable`), and from then on only recovery
threads change a participant, each its own. `RecoveryInv` is the consequence: what
a recovery read in an earlier step is still so when it acts. For `MemoryPersisted`, `OneCall` says that the coordinator, which
waits for each call, has at most one under way; with `Orphaned` this leaves one
thread at a time that may change a participant, and `SaveInv` says that what it
is about to write is what the memory holds.

`CommitBarrier` is not inductive: it does not say why nobody commits while
somebody is not prepared. `BarrierInv` does, in parts that are proved one by one:

* `PhaseInv`: what the coordinator knows. It decides to commit only when every
  PRE_COMMIT has been acknowledged, and sends ABORT only if it never does.
* `FinalInv`: a decision on disk, about to be written, or learnt from a peer is
  the decision in the memory it is about.
* `FollowInv`, as long as the transaction is not orphaned: an acknowledged PRE_COMMIT
  has prepared its participant, unless an ABORT is involved, and nobody has
  committed before the coordinator has decided to.
* `DecidedInv`: either the transaction is `Cleared`, everybody prepared and
  no recovery about to abort or told of anybody who is not, or it is doomed: some
  participant is not prepared and no recovery believes that it is (`DoomedBy`).
  Where COMMIT exists it is cleared.

While the coordinator lives no recovery runs and `DecidedInv` follows from the
other parts (`CalmDecided`). Afterwards the two cases are closed under the steps of
recoveries, however they interleave: in a cleared transaction nobody decides
ABORT (`ClearedCommits`), in a doomed one nobody decides COMMIT (`DoomedAborts`), since
each recovery asks the participant that is not prepared, and its answer, once
given, stays below PRE_COMMIT.

The refinement maps a participant's memory to its decision and the counted
votes to the votes. `VoteReturns` maps to a vote (`AtomicVote`: nobody has
committed yet, by `CommitValidity`), a change of a memory to COMMIT or ABORT to a
decision (`AtomicDecide`: all have voted by `CommitValidity`, and `CommitBarrier` after
the step keeps the two decisions apart), every other step to a stutter.

`RecoveryDecides` rests on `TrackedInv`: a participant with a row, or a recovery that
reads, has the transaction in memory, and no answer is UNKNOWN. The second
holds because somebody is prepared only after every participant has answered
/init-transaction (`AllTracked`, from `VoteInv` and `ValidityInv`), and only a prepared
participant asks. Answers that are all states leave `_make_decision` no case
without a decision (`AnswersDecide`). This is the safety half of non-blocking:
a recovery that ends has decided; that it ends is `NonBlocking`, which is checked.

`AtMostOneLeader` says nothing of the key; `LeaderInv` does. It says of each node
that its flag, and every step about to raise it, implies that the key is its
own (`Leading`), and that a running process whose name is in the key renews it
and is not in an election. The second part makes the first inductive: `Expire`
can then only delete the key of a process that is down, and `GrantLease` can only
overwrite the lease of a node that does not hold the key. The proofs use
`NobodyAssumption`. `ImplementsLeadership` maps each step under `LeaderInv` to one of
`Leadership`: `SetFlag` and `ConfirmLeader` take office only when nobody that runs has the
flag, and no step of a thread lowers the flag of a node that has it; only a
crash does.

`HeartbeatMonitorProofs` proves, for every set of coordinators, participants and
transactions, all times and any number of crashes and restarts:

* `TypeCorrect`: `Spec => []TypeOK`.
* `SilenceIsBounded`: `Spec => []SilenceBounded`.

`TypeOK` says here also that no round of heartbeats and no recovery of the pending
transactions ends before it has come to the last of them.

`SilenceBounded` is the end of a countdown. `BeatInv` says of each coordinator how long
its round can still take for the participants left (`RoundInv`), of each
transaction that its live coordinator has `Me` in its registry (`OwnerInv`), and of
both that the seconds since the last heartbeat plus the longest wait for the
next one stay within `Interval` and two full rounds (`HeardInv`): the round that
began before `Me` was registered, and the one in which `Me` comes last. `Tick` moves a
second from the wait to the clock. The proofs use `OthersAssumption` (finitely many
others), `TimesAssumption` and `BoundsAssumption`, and the library's facts about cardinality.

`TransactionServiceProofs` proves, for every set of coordinators and requests:

* `ServiceTypeCorrect`: `ServiceSpec => []ServiceTypeOK`, under every fault.
* `AnswersStored`: `ServiceSpec => []AnswerStored`, under every fault.
* `OneExecutes`: if `Faults \subseteq {"crash"}`, then `ServiceSpec => []OneExecutor`.

Request steps leave the election alone, so `ServiceSpec` implies `Spec` (`ElectionRefined`)
and the invariants of `LeaderElectionProofs` carry over. `OneExecutor` is made
inductive by `ExecInv`: who executes is up and holds the key. That a flag that was
read long ago is still good is the lemma `HolderStays`: the key stays with a
holder that runs, since it renews its lease. `AnswerInv` says of a request that
has decided that its row is the outcome, or was refused, and that nobody
touches the row of a request that has been answered.

Only model-checked: the liveness properties `NonBlocking`, `CoordinatorFinishes`,
`SilenceNoticed`, `FlagFollowsKey` and `LeaderAgain`, since fairness and ENABLED are beyond
the prover. Every other property of a passing run is a theorem; those of the
runs that expect a violation are false. Nothing here needs induction over data
or a recursive operator.

## 5. Plan

Done: `ThreePhaseCommit` with the coordinator's database, `AtomicCommit`,
`LeaderElection`, `Leadership`, `HeartbeatMonitor`, `TransactionService`, their runs and theorems.
Left, in this order:

1. Validity of aborts: what has to have happened before a participant aborts.
2. `Agreement` where participants crash as well, under the condition that the
   transaction was cleared or that no crash falls between a decision and the
   peers' questions.
3. That requests are answered, for which forwarding to oneself has to be bounded
   by the monitor's next poll.

### Not modelled

The metrics collector: its counters are written and never read (get_snapshot is
not called; /metrics is served from the database), so that an exception after
record_commit counts both a commit and an abort (server.py:208) and a NO vote
counts no abort (server.py:247-251) shows nowhere. The averages and listings of the
coordinator database, /metrics, /leader-status and the status endpoints only read.
/start-transaction adds an entry that nothing uses; `active_transactions` never
shrinks.

Nor the dashboard (display), the partition script (a test tool, its
effect is in `Faults`), deployment files (the constants of the runs come from
them) and the encoding of messages (pure, no state).
