-------------------------- MODULE HeartbeatMonitor --------------------------
(***************************************************************************)
(* How one participant, Me, notices that a coordinator has died: the beat  *)
(* loop and the registry of every coordinator process, the clock and the   *)
(* flag of Me's HeartbeatMonitor, which all its transactions share, the    *)
(* request threads that reset and stop the clock, and the monitor thread   *)
(* that starts recovery.                                                   *)
(*                                                                         *)
(* Time passes in ticks of one second.  It passes while threads sleep or   *)
(* wait for the network, not while they run: Tick waits for every step     *)
(* that takes no time.  A heartbeat to Me arrives at once, a heartbeat to  *)
(* another participant takes up to SlowPost, since that one may be dead.   *)
(***************************************************************************)
EXTENDS Naturals, FiniteSets

CONSTANTS
  Coordinators, \* the coordinator processes
  Me,           \* the participant that is watched
  Others,       \* the other participants
  Txns,         \* the transactions Me may take part in
  Requests,     \* the <<c, t>> such that clients may ask c to execute t
  Interval,     \* seconds between two rounds of heartbeats
  SendTimeout,  \* the timeout of a heartbeat's post, in seconds
  Timeout,      \* seconds of silence that make Me recover
  MaxElapsed,   \* bound on the seconds of silence that are counted
  MaxCrashes,   \* bound on the number of coordinator crashes
  MaxRestarts   \* bound on the number of restarts of Me

ASSUME OthersAssumption == IsFiniteSet(Others) /\ Me \notin Others
ASSUME OwnerAssumption == Coordinators \cap {"nobody", "dead"} = {}
ASSUME RequestsAssumption == Requests \subseteq Coordinators \X Txns
ASSUME TimesAssumption ==
  Interval \in Nat \ {0} /\ SendTimeout \in Nat /\ Timeout \in Nat \ {0}
ASSUME BoundsAssumption ==
  /\ MaxCrashes \in Nat /\ MaxRestarts \in Nat
  /\ MaxElapsed \in Nat /\ MaxElapsed >= Timeout

Participants == {Me} \cup Others

(* The longest a post takes: requests applies its timeout to connecting    *)
(* and again to waiting for the answer.                                    *)
SlowPost == 2 * SendTimeout

VARIABLES
  (* The monitor of Me *)
  elapsed,   \* seconds since _last_heartbeat
  active,    \* _active_transaction
  mon,       \* where the monitor thread is
  todo,      \* the pending transactions its recovery has still to try
  (* The transactions at Me *)
  owner,     \* owner[t]: the process executing t, "nobody" yet, or "dead"
  state,     \* state[t]: "none" when not tracked, "pending" or "final"
  thread,    \* thread[t]: what t's request thread has still to do
  restarts,
  (* The coordinators *)
  up,        \* up[c]: process c runs
  registry,  \* registry[c]: the participants c sends heartbeats to
  loop,      \* loop[c]: c's beat loop sends a round or sleeps
  targets,   \* targets[c]: those of its round still to be sent to
  left,      \* left[c]: seconds until its sleep or its current post ends
  crashes

monVars == <<elapsed, active, mon, todo>>
txnVars == <<owner, state, thread, restarts>>
beatVars == <<loop, targets, left>>
coordVars == <<up, registry, beatVars, crashes>>
vars == <<monVars, txnVars, coordVars>>

-----------------------------------------------------------------------------
(* The coordinators *)

(* Mutant of Register: the registry holds the last transaction's only. *)
RegisterLast(c, urls) == registry' = [registry EXCEPT ![c] = urls]

(* register_participants: nobody is ever taken out. *)
Register(c, urls) == registry' = [registry EXCEPT ![c] = @ \cup urls]

(* execute_3pc_protocol registers the participants before it calls any. *)
StartTransaction(c, t, urls) ==
  /\ <<c, t>> \in Requests /\ up[c] /\ owner[t] = "nobody" /\ Me \in urls
  /\ owner' = [owner EXCEPT ![t] = c]
  /\ Register(c, urls)
  /\ UNCHANGED <<monVars, state, thread, restarts, up, beatVars, crashes>>

(* A transaction that Me has no part in. *)
StartElsewhere(c, urls) ==
  /\ up[c] /\ urls # {} /\ Me \notin urls
  /\ Register(c, urls)
  /\ UNCHANGED <<monVars, txnVars, up, beatVars, crashes>>

(* The loop wakes up and copies the registry. *)
BeginRound(c) ==
  /\ up[c] /\ loop[c] = "sleep" /\ left[c] = 0
  /\ loop' = [loop EXCEPT ![c] = "round"]
  /\ targets' = [targets EXCEPT ![c] = registry[c]]
  /\ UNCHANGED <<monVars, txnVars, up, registry, left, crashes>>

(* The post to u; a dead u keeps the round waiting, its exception is      *)
(* dropped.  Me's handler resets the clock.                                *)
Beat(c, u) ==
  /\ up[c] /\ loop[c] = "round" /\ left[c] = 0 /\ u \in targets[c]
  /\ targets' = [targets EXCEPT ![c] = @ \ {u}]
  /\ IF u = Me
       THEN elapsed' = 0 /\ UNCHANGED left
       ELSE /\ \E d \in 0..SlowPost : left' = [left EXCEPT ![c] = d]
            /\ UNCHANGED elapsed
  /\ UNCHANGED <<active, mon, todo, txnVars, up, registry, loop, crashes>>

(* Mutant of EndRound: the first post that fails breaks the round off. *)
BreakRound(c) ==
  /\ up[c] /\ loop[c] = "round" /\ left[c] = 0
  /\ loop' = [loop EXCEPT ![c] = "sleep"]
  /\ left' = [left EXCEPT ![c] = Interval]
  /\ UNCHANGED <<monVars, txnVars, up, registry, targets, crashes>>

EndRound(c) ==
  /\ up[c] /\ loop[c] = "round" /\ left[c] = 0 /\ targets[c] = {}
  /\ loop' = [loop EXCEPT ![c] = "sleep"]
  /\ left' = [left EXCEPT ![c] = Interval]
  /\ UNCHANGED <<monVars, txnVars, up, registry, targets, crashes>>

BeatLoop(c) ==
  BeginRound(c) \/ EndRound(c) \/ \E u \in Participants : Beat(c, u)

(* The registry is memory; nobody takes the transactions over. *)
CrashCoordinator(c) ==
  /\ up[c] /\ crashes < MaxCrashes
  /\ up' = [up EXCEPT ![c] = FALSE]
  /\ registry' = [registry EXCEPT ![c] = {}]
  /\ loop' = [loop EXCEPT ![c] = "sleep"]
  /\ targets' = [targets EXCEPT ![c] = {}]
  /\ left' = [left EXCEPT ![c] = 0]
  /\ owner' = [t \in Txns |-> IF owner[t] = c THEN "dead" ELSE owner[t]]
  /\ crashes' = crashes + 1
  /\ UNCHANGED <<monVars, state, thread, restarts>>

(* A new process, whose beat loop starts with a round. *)
RestartCoordinator(c) ==
  /\ ~up[c]
  /\ up' = [up EXCEPT ![c] = TRUE]
  /\ UNCHANGED <<monVars, txnVars, registry, beatVars, crashes>>

-----------------------------------------------------------------------------
(* The request threads of Me: one at a time for each transaction, since    *)
(* its coordinator makes one call at a time.                               *)

Calls(t) == owner[t] \in Coordinators /\ thread[t] = "none"

(* /init-transaction: the transaction is tracked before the clock runs. *)
InitTransaction(t) ==
  /\ Calls(t) /\ state[t] = "none"
  /\ state' = [state EXCEPT ![t] = "pending"]
  /\ thread' = [thread EXCEPT ![t] = "activate"]
  /\ UNCHANGED <<monVars, owner, restarts, coordVars>>

MarkActive(t) ==
  /\ thread[t] = "activate"
  /\ active' = TRUE /\ elapsed' = 0
  /\ thread' = [thread EXCEPT ![t] = "none"]
  /\ UNCHANGED <<mon, todo, owner, state, restarts, coordVars>>

(* /message: the clock is reset, then the transaction moves on or ends. *)
ReceiveMessage(t) ==
  /\ Calls(t)
  /\ elapsed' = 0
  /\ IF state[t] = "none"
       THEN UNCHANGED <<state, thread>>
       ELSE /\ thread' = [thread EXCEPT ![t] = "answer"]
            /\ \/ state' = [state EXCEPT ![t] = "final"]
               \/ UNCHANGED state
  /\ UNCHANGED <<active, mon, todo, owner, restarts, coordVars>>

(* A final transaction stops the clock, whatever else is pending. *)
EndMessage(t) ==
  /\ thread[t] = "answer"
  /\ active' = (active /\ state[t] # "final")
  /\ thread' = [thread EXCEPT ![t] = "none"]
  /\ UNCHANGED <<elapsed, mon, todo, owner, state, restarts, coordVars>>

RequestThread(t) == MarkActive(t) \/ EndMessage(t)

-----------------------------------------------------------------------------
(* The monitor thread: each step is one use of the lock.                   *)

Poll ==
  /\ mon = "sleep" /\ active /\ elapsed >= Timeout
  /\ mon' = "alarm"
  /\ UNCHANGED <<elapsed, active, todo, txnVars, coordVars>>

LowerFlag ==
  /\ mon = "alarm"
  /\ active' = FALSE
  /\ mon' = "lowered"
  /\ UNCHANGED <<elapsed, todo, txnVars, coordVars>>

(* Mutant of StartRecovery: the clock is reset and nobody is called back. *)
SkipRecovery ==
  /\ mon = "lowered"
  /\ elapsed' = 0
  /\ mon' = "sleep"
  /\ UNCHANGED <<active, todo, txnVars, coordVars>>

Pending == {t \in Txns : state[t] = "pending"}

(* The clock is reset and attempt_recovery reads the pending rows, those   *)
(* of live coordinators included.                                          *)
StartRecovery ==
  /\ mon = "lowered"
  /\ elapsed' = 0
  /\ mon' = "recover"
  /\ todo' = Pending
  /\ UNCHANGED <<active, txnVars, coordVars>>

(* One transaction is resolved, or cannot be: it stays pending. *)
RecoverTransaction(t) ==
  /\ mon = "recover" /\ t \in todo
  /\ todo' = todo \ {t}
  /\ \/ state' = [state EXCEPT ![t] = "final"]
     \/ UNCHANGED state
  /\ UNCHANGED <<elapsed, active, mon, owner, thread, restarts, coordVars>>

EndRecovery ==
  /\ mon = "recover" /\ todo = {}
  /\ mon' = "sleep"
  /\ UNCHANGED <<elapsed, active, todo, txnVars, coordVars>>

MonitorStep ==
  \/ Poll \/ LowerFlag \/ StartRecovery \/ EndRecovery
  \/ \E t \in Txns : RecoverTransaction(t)

(* Me stops and is started again: threads and clock are new, final         *)
(* transactions are forgotten, pending ones reloaded.                      *)
Restart ==
  /\ restarts < MaxRestarts
  /\ restarts' = restarts + 1
  /\ elapsed' = 0 /\ active' = FALSE /\ mon' = "sleep" /\ todo' = {}
  /\ state' = [t \in Txns |-> IF state[t] = "final" THEN "none" ELSE state[t]]
  /\ thread' = [t \in Txns |-> "none"]
  /\ UNCHANGED <<owner, coordVars>>

-----------------------------------------------------------------------------
Tick ==
  /\ \A c \in Coordinators : up[c] => left[c] > 0
  /\ \A t \in Txns : thread[t] = "none"
  /\ mon \in {"sleep", "recover"}
  /\ elapsed' = IF elapsed < MaxElapsed THEN elapsed + 1 ELSE elapsed
  /\ left' = [c \in Coordinators |-> IF up[c] THEN left[c] - 1 ELSE left[c]]
  /\ UNCHANGED <<active, mon, todo, txnVars, up, registry, loop, targets, crashes>>

Init ==
  /\ elapsed = 0 /\ active = FALSE /\ mon = "sleep" /\ todo = {}
  /\ owner = [t \in Txns |-> "nobody"]
  /\ state = [t \in Txns |-> "none"]
  /\ thread = [t \in Txns |-> "none"]
  /\ restarts = 0
  /\ up = [c \in Coordinators |-> TRUE]
  /\ registry = [c \in Coordinators |-> {}]
  /\ loop = [c \in Coordinators |-> "sleep"]
  /\ targets = [c \in Coordinators |-> {}]
  /\ left = [c \in Coordinators |-> 0]
  /\ crashes = 0

CoordinatorStep(c) ==
  \/ BeatLoop(c) \/ CrashCoordinator(c) \/ RestartCoordinator(c)
  \/ \E urls \in SUBSET Participants :
       StartElsewhere(c, urls) \/ \E t \in Txns : StartTransaction(c, t, urls)

ParticipantStep ==
  \/ \E t \in Txns : InitTransaction(t) \/ ReceiveMessage(t) \/ RequestThread(t)
  \/ MonitorStep \/ Restart

Next == Tick \/ ParticipantStep \/ \E c \in Coordinators : CoordinatorStep(c)

Spec == Init /\ [][Next]_vars

(* Time passes, and what it waits for is done; the monitor polls.  Nobody  *)
(* has to start a transaction, to send a message or to crash.              *)
Running ==
  \/ Tick
  \/ \E t \in Txns : RequestThread(t)
  \/ \E c \in Coordinators : BeatLoop(c)

Fairness == WF_vars(Running) /\ WF_vars(MonitorStep)

FairSpec == Spec /\ Fairness
-----------------------------------------------------------------------------
(* Properties *)

(* Every variable has a value the code can give it, and no loop, over the  *)
(* participants of a round or the pending transactions, ends before it has *)
(* come to the last of them.                                               *)
TypeOK ==
  /\ elapsed \in 0..MaxElapsed /\ active \in BOOLEAN
  /\ mon \in {"sleep", "alarm", "lowered", "recover"}
  /\ todo \in SUBSET Txns
  /\ owner \in [Txns -> Coordinators \cup {"nobody", "dead"}]
  /\ state \in [Txns -> {"none", "pending", "final"}]
  /\ thread \in [Txns -> {"none", "activate", "answer"}]
  /\ restarts \in Nat
  /\ up \in [Coordinators -> BOOLEAN]
  /\ registry \in [Coordinators -> SUBSET Participants]
  /\ loop \in [Coordinators -> {"sleep", "round"}]
  /\ targets \in [Coordinators -> SUBSET Participants]
  /\ left \in [Coordinators -> Nat]
  /\ crashes \in Nat
  /\ \A c \in Coordinators : loop[c] = "sleep" => targets[c] = {}
  /\ mon # "recover" => todo = {}

InFlight(t) == state[t] = "pending" /\ thread[t] # "activate"

(* How long Me may hear nothing of a live coordinator whose transaction it *)
(* has in flight: a round that Me was registered too late for, the sleep,  *)
(* and a round in which Me comes last, with every other participant dead.  *)
SilenceBounded ==
  \A t \in Txns :
    InFlight(t) /\ owner[t] \in Coordinators
      => elapsed <= Interval + 2 * (Cardinality(Others) * SlowPost)

(* A coordinator that lives is not taken for dead (server.py:45): while a  *)
(* transaction of a live process is in flight and the clock runs, it stays *)
(* short of the timeout, however many participants are dead.               *)
LiveIsHeard ==
  \A t \in Txns :
    InFlight(t) /\ owner[t] \in Coordinators /\ active => elapsed < Timeout

(* Heartbeats reach Me, now or in the next round. *)
Watched == \E c \in Coordinators : Me \in registry[c] \cup targets[c]

AllQuiet == ~Watched /\ \A t \in Txns : thread[t] = "none"

(* Silence is noticed (participant/timeout_detector.py:4-6): a transaction *)
(* in flight with its clock running is tried by recovery, unless some      *)
(* coordinator begins to send heartbeats again.                            *)
SilenceNoticed ==
  \A t \in Txns :
    state[t] = "pending" /\ active /\ AllQuiet /\ restarts = MaxRestarts
      ~> t \in todo \/ state[t] = "final" \/ Watched

(* The promise of timeout_detector.py:21-24: whenever all coordinators     *)
(* are gone, every transaction in flight is recovered.                     *)
PendingRecovered ==
  \A t \in Txns :
    state[t] = "pending" /\ AllQuiet
      ~> t \in todo \/ state[t] = "final" \/ Watched
=============================================================================
