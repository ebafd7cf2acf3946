----------------------- MODULE HeartbeatMonitorProofs -----------------------
(***************************************************************************)
(* Theorems about HeartbeatMonitor, for every number of coordinators,      *)
(* participants and transactions, all times and any number of crashes.     *)
(***************************************************************************)
EXTENDS HeartbeatMonitor, FiniteSetTheorems, TLAPS

-----------------------------------------------------------------------------
(* Type correctness. *)

LEMMA Times ==
  Interval \in Nat /\ SlowPost \in Nat /\ Timeout \in Nat /\ MaxElapsed \in Nat
BY TimesAssumption, BoundsAssumption DEF SlowPost

LEMMA TypeInit == Init => TypeOK
<1> SUFFICES ASSUME Init PROVE TypeOK
  OBVIOUS
<1>1. /\ registry \in [Coordinators -> SUBSET Participants]
      /\ targets \in [Coordinators -> SUBSET Participants]
  BY DEF Init
<1>2. left \in [Coordinators -> Nat] /\ up \in [Coordinators -> BOOLEAN]
  BY DEF Init
<1>3. /\ owner \in [Txns -> Coordinators \cup {"nobody", "dead"}]
      /\ state \in [Txns -> {"none", "pending", "final"}]
      /\ thread \in [Txns -> {"none", "activate", "answer"}]
      /\ loop \in [Coordinators -> {"sleep", "round"}]
  BY DEF Init
<1>4. elapsed \in 0..MaxElapsed /\ restarts \in Nat /\ crashes \in Nat
  BY Times DEF Init
<1>5. active \in BOOLEAN /\ mon \in {"sleep", "alarm", "lowered", "recover"}
  BY Zenon DEF Init
<1>6. todo \in SUBSET Txns
  BY Zenon DEF Init
<1> QED
  BY <1>1, <1>2, <1>3, <1>4, <1>5, <1>6 DEF TypeOK, Init

(* The steps of the coordinators. *)
LEMMA TypeCoordinator ==
  ASSUME TypeOK, NEW c \in Coordinators, CoordinatorStep(c)
  PROVE  TypeOK'
<1> USE DEF TypeOK, monVars, txnVars, beatVars
<1>0. ASSUME NEW urls \in SUBSET Participants, StartElsewhere(c, urls)
      PROVE  TypeOK'
  BY <1>0 DEF StartElsewhere, Register
<1>1. ASSUME NEW urls \in SUBSET Participants, NEW t \in Txns,
             StartTransaction(c, t, urls)
      PROVE  TypeOK'
  BY <1>1 DEF StartTransaction, Register
<1>2. CASE BeginRound(c)
  BY <1>2 DEF BeginRound
<1>3. ASSUME NEW u \in Participants, Beat(c, u) PROVE TypeOK'
  <2>1. left' \in [Coordinators -> Nat]
    BY <1>3, Times DEF Beat
  <2>2. elapsed' \in 0..MaxElapsed
    BY <1>3, Times DEF Beat
  <2> QED BY <1>3, <2>1, <2>2 DEF Beat
<1>4. CASE EndRound(c)
  BY <1>4, Times DEF EndRound
<1>5. CASE CrashCoordinator(c)
  BY <1>5 DEF CrashCoordinator
<1>6. CASE RestartCoordinator(c)
  BY <1>6 DEF RestartCoordinator
<1> QED
  BY <1>0, <1>1, <1>2, <1>3, <1>4, <1>5, <1>6 DEF CoordinatorStep, BeatLoop

(* The steps of the participant, and time. *)
LEMMA TypeParticipant ==
  ASSUME TypeOK, ParticipantStep
  PROVE  TypeOK'
<1> USE DEF TypeOK, monVars, txnVars, beatVars, coordVars
<1>0. 0 \in 0..MaxElapsed
  BY Times
<1>1. ASSUME NEW t \in Txns,
             InitTransaction(t) \/ ReceiveMessage(t) \/ RequestThread(t)
      PROVE  TypeOK'
  BY <1>0, <1>1 DEF InitTransaction, ReceiveMessage, RequestThread, MarkActive,
     EndMessage
<1>2. CASE Poll \/ LowerFlag \/ StartRecovery \/ EndRecovery
  BY <1>0, <1>2 DEF Poll, LowerFlag, StartRecovery, EndRecovery, Pending
<1>3. ASSUME NEW t \in Txns, RecoverTransaction(t) PROVE TypeOK'
  BY <1>3 DEF RecoverTransaction
<1>4. CASE Restart
  <2>1. elapsed' \in 0..MaxElapsed /\ restarts' \in Nat
    BY <1>0, <1>4 DEF Restart
  <2>2. active' \in BOOLEAN /\ mon' \in {"sleep", "alarm", "lowered", "recover"}
    BY <1>4, Zenon DEF Restart
  <2>3. todo' \in SUBSET Txns
    BY <1>4, Zenon DEF Restart
  <2>4. /\ state' \in [Txns -> {"none", "pending", "final"}]
        /\ thread' \in [Txns -> {"none", "activate", "answer"}]
    BY <1>4 DEF Restart
  <2> QED BY <1>4, <2>1, <2>2, <2>3, <2>4 DEF Restart
<1> QED
  BY <1>1, <1>2, <1>3, <1>4 DEF ParticipantStep, MonitorStep

LEMMA TypeTick == ASSUME TypeOK, Tick PROVE TypeOK'
<1> USE DEF TypeOK, txnVars
<1>1. elapsed' \in 0..MaxElapsed
  BY Times DEF Tick
<1>2. left' \in [Coordinators -> Nat]
  BY DEF Tick
<1> QED
  BY <1>1, <1>2 DEF Tick

LEMMA TypeNext == ASSUME TypeOK, [Next]_vars PROVE TypeOK'
<1>1. CASE UNCHANGED vars
  BY <1>1 DEF TypeOK, vars, monVars, txnVars, beatVars, coordVars
<1> QED
  BY <1>1, TypeCoordinator, TypeParticipant, TypeTick DEF Next

(* The model never leaves its types: no round sends to anybody but a       *)
(* participant or ends before it has come to the last (heartbeat.py:85-91).*)
THEOREM TypeCorrect == Spec => []TypeOK
BY TypeInit, TypeNext, PTL DEF Spec

-----------------------------------------------------------------------------
(* How long Me may wait for the next heartbeat. *)

(* Seconds that a round can still take for the members of T. *)
Load(T) == Cardinality(T \ {Me}) * SlowPost

(* The longest round. *)
Full == Cardinality(Others) * SlowPost

(* A round may ask every other participant before it comes to Me; if it   *)
(* has no Me, or is past it, Me waits for the next one.                    *)
Wait(c) ==
  CASE loop[c] = "sleep" -> left[c] + Full
    [] loop[c] = "round" /\ Me \in targets[c] -> left[c] + Load(targets[c])
    [] loop[c] = "round" /\ Me \notin targets[c] ->
         left[c] + Load(targets[c]) + Interval + Full

Longest == Interval + Full + Full

(* Everybody who executes a transaction of Me is alive and has registered  *)
(* Me; a transaction nobody has executed is neither tracked nor recovered.     *)
OwnerInv ==
  \A t \in Txns :
    /\ owner[t] \in Coordinators => up[owner[t]] /\ Me \in registry[owner[t]]
    /\ owner[t] = "nobody" => state[t] = "none" /\ t \notin todo

RoundInv ==
  \A c \in Coordinators :
    /\ loop[c] = "sleep" => left[c] <= Interval
    /\ loop[c] = "round" => left[c] + Load(targets[c]) <= Full

HeardInv ==
  \A c \in Coordinators, t \in Txns :
    InFlight(t) /\ owner[t] = c => elapsed + Wait(c) <= Longest

(* The inductive invariant. *)
BeatInv == TypeOK /\ OwnerInv /\ RoundInv /\ HeardInv

-----------------------------------------------------------------------------
(* Arithmetic of rounds.                                                   *)

LEMMA ProductNat == ASSUME NEW k \in Nat PROVE k * SlowPost \in Nat
BY Times

LEMMA ProductMonotone ==
  ASSUME NEW k \in Nat, NEW m \in Nat, k <= m
  PROVE  k * SlowPost <= m * SlowPost
<1>1. SlowPost \in Nat
  BY Times
<1> QED BY <1>1

(* A round takes no longer than a post to every other participant. *)
LEMMA LoadBound ==
  ASSUME NEW T \in SUBSET Participants
  PROVE  Load(T) \in Nat /\ Full \in Nat /\ Load(T) <= Full
<1>1. T \ {Me} \subseteq Others /\ IsFiniteSet(Others)
  BY OthersAssumption DEF Participants
<1>2. /\ Cardinality(T \ {Me}) \in Nat /\ Cardinality(Others) \in Nat
      /\ Cardinality(T \ {Me}) <= Cardinality(Others)
  BY <1>1, FS_Subset, FS_CardinalityType
<1> QED
  BY <1>2, ProductNat, ProductMonotone DEF Load, Full

LEMMA LoadEmpty == Load({}) = 0
<1>1. Cardinality({} \ {Me}) = 0
  BY FS_EmptySet
<1> QED
  BY <1>1, Times DEF Load

(* A post takes its time off the rest of the round. *)
LEMMA LoadBeat ==
  ASSUME NEW T \in SUBSET Participants, NEW u \in T, u # Me
  PROVE  Load(T) = Load(T \ {u}) + SlowPost
<1> DEFINE R == T \ {Me}
<1>1. IsFiniteSet(R)
  BY OthersAssumption, FS_Subset DEF Participants
<1>2. u \in R /\ (T \ {u}) \ {Me} = R \ {u}
  OBVIOUS
<1>3. Cardinality(R \ {u}) = Cardinality(R) - 1 /\ Cardinality(R) \in Nat
      /\ Cardinality(R \ {u}) \in Nat
  BY <1>1, <1>2, FS_RemoveElement, FS_CardinalityType
<1>4. \A k, S \in Nat : (k + 1) * S = k * S + S
  OBVIOUS
<1>5. Cardinality(R) = Cardinality(R \ {u}) + 1
  BY <1>3
<1> QED
  BY <1>2, <1>3, <1>4, <1>5, Times DEF Load

LEMMA LoadMe ==
  ASSUME NEW T PROVE Load(T \ {Me}) = Load(T)
<1>1. (T \ {Me}) \ {Me} = T \ {Me}
  OBVIOUS
<1> QED BY <1>1 DEF Load

(* Right after Me has heard from anybody, no wait is too long. *)
LEMMA WaitBound ==
  ASSUME TypeOK, RoundInv, NEW c \in Coordinators
  PROVE  /\ Wait(c) \in Nat /\ Longest \in Nat /\ Wait(c) <= Longest
         /\ loop[c] = "round" /\ Me \in targets[c] => Wait(c) <= Full
<1>1. /\ loop[c] \in {"sleep", "round"} /\ left[c] \in Nat /\ Interval \in Nat
      /\ targets[c] \in SUBSET Participants
  BY Times DEF TypeOK
<1>2. Load(targets[c]) \in Nat /\ Full \in Nat
  BY <1>1, LoadBound
<1>3. CASE loop[c] = "sleep"
  BY <1>1, <1>2, <1>3 DEF Wait, Longest, RoundInv
<1>4. CASE loop[c] = "round" /\ Me \in targets[c]
  <2>1. Wait(c) = left[c] + Load(targets[c])
    BY <1>4 DEF Wait
  <2> QED BY <1>1, <1>2, <1>4, <2>1 DEF Longest, RoundInv
<1>5. CASE loop[c] = "round" /\ Me \notin targets[c]
  <2>1. Wait(c) = left[c] + Load(targets[c]) + Interval + Full
    BY <1>5 DEF Wait
  <2> QED BY <1>1, <1>2, <1>5, <2>1 DEF Longest, RoundInv
<1> QED BY <1>1, <1>3, <1>4, <1>5

-----------------------------------------------------------------------------
(* The invariant holds initially, and each conjunct is kept by every step. *)

LEMMA BeatInit == Init => BeatInv
<1> SUFFICES ASSUME Init PROVE BeatInv
  OBVIOUS
<1>1. TypeOK
  BY TypeInit
<1>2. OwnerInv
  BY OwnerAssumption DEF Init, OwnerInv
<1>3. RoundInv
  BY Times DEF Init, RoundInv
<1>4. HeardInv
  BY DEF Init, HeardInv, InFlight
<1> QED BY <1>1, <1>2, <1>3, <1>4 DEF BeatInv

LEMMA OwnerNext ==
  ASSUME TypeOK, OwnerInv, Next
  PROVE  OwnerInv'
<1> USE DEF TypeOK, OwnerInv, monVars, txnVars, beatVars, coordVars
<1>1. ASSUME NEW c \in Coordinators, NEW urls \in SUBSET Participants,
             StartElsewhere(c, urls)
      PROVE  OwnerInv'
  BY <1>1 DEF StartElsewhere, Register
<1>2. ASSUME NEW c \in Coordinators, NEW urls \in SUBSET Participants,
             NEW t \in Txns, StartTransaction(c, t, urls)
      PROVE  OwnerInv'
  BY <1>2, OwnerAssumption DEF StartTransaction, Register
<1>3. ASSUME NEW c \in Coordinators, BeatLoop(c) PROVE OwnerInv'
  BY <1>3 DEF BeatLoop, BeginRound, Beat, EndRound
<1>4. ASSUME NEW c \in Coordinators, CrashCoordinator(c) PROVE OwnerInv'
  BY <1>4, OwnerAssumption DEF CrashCoordinator
<1>5. ASSUME NEW c \in Coordinators, RestartCoordinator(c) PROVE OwnerInv'
  BY <1>5 DEF RestartCoordinator
<1>6. ASSUME NEW t \in Txns,
             InitTransaction(t) \/ ReceiveMessage(t) \/ RequestThread(t)
      PROVE  OwnerInv'
  BY <1>6, OwnerAssumption DEF InitTransaction, ReceiveMessage, RequestThread,
     MarkActive, EndMessage, Calls
<1>7. CASE Poll \/ LowerFlag \/ StartRecovery \/ EndRecovery
  BY <1>7 DEF Poll, LowerFlag, StartRecovery, EndRecovery, Pending
<1>8. ASSUME NEW t \in Txns, RecoverTransaction(t) PROVE OwnerInv'
  BY <1>8 DEF RecoverTransaction
<1>9. CASE Restart
  BY <1>9 DEF Restart
<1>10. CASE Tick
  BY <1>10 DEF Tick
<1> QED
  BY <1>1, <1>2, <1>3, <1>4, <1>5, <1>6, <1>7, <1>8, <1>9, <1>10
     DEF Next, CoordinatorStep, ParticipantStep, MonitorStep

LEMMA RoundNext ==
  ASSUME TypeOK, RoundInv, Next
  PROVE  RoundInv'
<1> USE DEF TypeOK, RoundInv, monVars, txnVars, beatVars, coordVars
<1>0. Interval \in Nat /\ SlowPost \in Nat
  BY Times
<1>1. ASSUME NEW c \in Coordinators, NEW urls \in SUBSET Participants,
             \/ StartElsewhere(c, urls)
             \/ \E t \in Txns : StartTransaction(c, t, urls)
      PROVE  RoundInv'
  BY <1>1 DEF StartElsewhere, StartTransaction
<1>2. ASSUME NEW c \in Coordinators, BeginRound(c) PROVE RoundInv'
  <2>1. targets'[c] = registry[c] /\ Load(registry[c]) <= Full
    BY <1>2, LoadBound DEF BeginRound
  <2>2. left'[c] = 0 /\ left'[c] + Load(targets'[c]) <= Full
    BY <1>2, <2>1, LoadBound DEF BeginRound
  <2> QED BY <1>2, <2>2 DEF BeginRound
<1>3. ASSUME NEW c \in Coordinators, NEW u \in Participants, Beat(c, u)
      PROVE  RoundInv'
  <2>1. /\ targets[c] \in SUBSET Participants /\ u \in targets[c]
        /\ targets'[c] = targets[c] \ {u} /\ loop'[c] = "round" /\ left[c] = 0
        /\ left'[c] \in Nat
        /\ \A b \in Coordinators \ {c} :
             targets'[b] = targets[b] /\ loop'[b] = loop[b] /\ left'[b] = left[b]
    BY <1>3, <1>0 DEF Beat
  <2>2. Load(targets[c]) <= Full /\ Full \in Nat /\ Load(targets[c]) \in Nat
        /\ Load(targets[c] \ {u}) \in Nat
    BY <2>1, LoadBound
  <2>3. CASE u = Me
    <3>1. left'[c] = 0 /\ Load(targets'[c]) = Load(targets[c])
      BY <1>3, <2>1, <2>3, LoadMe DEF Beat
    <3> QED BY <2>1, <2>2, <3>1
  <2>4. CASE u # Me
    <3>1. left'[c] <= SlowPost
      BY <1>0, <1>3, <2>4 DEF Beat
    <3>2. Load(targets[c]) = Load(targets'[c]) + SlowPost
      BY <2>1, <2>4, LoadBeat
    <3>3. left'[c] + Load(targets'[c]) <= Full
      BY <1>0, <2>1, <2>2, <3>1, <3>2
    <3> QED BY <2>1, <3>3
  <2> QED BY <2>3, <2>4
<1>4. ASSUME NEW c \in Coordinators, EndRound(c) PROVE RoundInv'
  BY <1>0, <1>4 DEF EndRound
<1>5. ASSUME NEW c \in Coordinators, CrashCoordinator(c) PROVE RoundInv'
  BY <1>0, <1>5 DEF CrashCoordinator
<1>6. ASSUME NEW c \in Coordinators, RestartCoordinator(c) PROVE RoundInv'
  BY <1>6 DEF RestartCoordinator
<1>7. ASSUME ParticipantStep PROVE RoundInv'
  BY <1>7 DEF ParticipantStep, InitTransaction, ReceiveMessage, RequestThread,
     MarkActive, EndMessage, MonitorStep, Poll, LowerFlag, StartRecovery,
     EndRecovery, RecoverTransaction, Restart
<1>8. CASE Tick
  <2>1. \A c \in Coordinators : left'[c] <= left[c] /\ left'[c] \in Nat
    BY <1>8 DEF Tick
  <2>2. \A c \in Coordinators : Load(targets[c]) \in Nat /\ Full \in Nat
    BY LoadBound
  <2>3. UNCHANGED <<loop, targets>>
    BY <1>8 DEF Tick
  <2> QED BY <1>0, <2>1, <2>2, <2>3
<1> QED
  BY <1>1, <1>2, <1>3, <1>4, <1>5, <1>6, <1>7, <1>8
     DEF Next, CoordinatorStep, BeatLoop

WaitOK ==
  TypeOK /\ RoundInv =>
    \A c \in Coordinators :
      Wait(c) \in Nat /\ Longest \in Nat /\ Wait(c) <= Longest

LEMMA WaitBounds == WaitOK
BY WaitBound DEF WaitOK

LEMMA WaitBoundsNext == WaitOK'
BY WaitBounds, PTL

LEMMA WaitSame ==
  ASSUME NEW c, loop[c]' = loop[c], left[c]' = left[c], targets[c]' = targets[c]
  PROVE  Wait(c)' = Wait(c)
BY DEF Wait

(* A transaction keeps its bound if it has just heard a heartbeat or a     *)
(* call, or if it waits no longer than before.                             *)
LEMMA HeardKept ==
  ASSUME TypeOK, TypeOK', RoundInv, RoundInv', HeardInv,
         NEW c \in Coordinators, NEW t \in Txns,
         \/ elapsed' = 0
         \/ /\ InFlight(t) /\ owner[t] = c
            /\ elapsed' + Wait(c)' <= elapsed + Wait(c)
  PROVE  elapsed' + Wait(c)' <= Longest
<1>1. Wait(c)' \in Nat /\ Longest \in Nat /\ Wait(c)' <= Longest
  BY WaitBoundsNext DEF WaitOK, Longest, Full
<1>2. elapsed' \in Nat /\ elapsed \in Nat
  BY Times DEF TypeOK
<1>3. Wait(c) \in Nat
  BY WaitBounds DEF WaitOK
<1>4. CASE elapsed' = 0
  BY <1>1, <1>4
<1>5. CASE /\ InFlight(t) /\ owner[t] = c
           /\ elapsed' + Wait(c)' <= elapsed + Wait(c)
  BY <1>1, <1>2, <1>3, <1>5 DEF HeardInv
<1> QED BY <1>4, <1>5

(* Steps of a coordinator: only its own transactions wait differently. *)
LEMMA HeardCoordinator ==
  ASSUME TypeOK, OwnerInv, RoundInv,
         NEW b \in Coordinators, CoordinatorStep(b),
         NEW c \in Coordinators, NEW t \in Txns, InFlight(t)', owner'[t] = c
  PROVE  \/ elapsed' = 0
         \/ /\ InFlight(t) /\ owner[t] = c
            /\ elapsed' + Wait(c)' <= elapsed + Wait(c)
<1> USE DEF monVars, txnVars, beatVars, coordVars
<1>0. /\ Interval \in Nat /\ SlowPost \in Nat
      /\ elapsed \in Nat /\ loop[c] \in {"sleep", "round"} /\ left[c] \in Nat
      /\ targets[c] \in SUBSET Participants
      /\ registry[c] \in SUBSET Participants
      /\ Load(targets[c]) \in Nat /\ Full \in Nat /\ Wait(c) \in Nat
      /\ Load(registry[c]) \in Nat /\ Load(registry[c]) <= Full
  BY Times, LoadBound, WaitBounds DEF TypeOK, WaitOK
<1>a. ASSUME UNCHANGED <<elapsed, loop[c], left[c], targets[c]>>
      PROVE  elapsed' + Wait(c)' <= elapsed + Wait(c)
  BY <1>0, <1>a, WaitSame
<1>1. ASSUME NEW urls \in SUBSET Participants, StartElsewhere(b, urls)
      PROVE  /\ InFlight(t) /\ owner[t] = c
             /\ elapsed' + Wait(c)' <= elapsed + Wait(c)
  BY <1>1, <1>a DEF StartElsewhere, InFlight
<1>2. ASSUME NEW urls \in SUBSET Participants, NEW s \in Txns,
             StartTransaction(b, s, urls)
      PROVE  /\ InFlight(t) /\ owner[t] = c
             /\ elapsed' + Wait(c)' <= elapsed + Wait(c)
  <2>1. InFlight(t) /\ s # t
    BY <1>2 DEF StartTransaction, InFlight, OwnerInv
  <2>2. owner[t] = c
    BY <1>2, <2>1 DEF StartTransaction, TypeOK
  <2> QED BY <1>2, <1>a, <2>1, <2>2 DEF StartTransaction
<1>3. CASE BeginRound(b)
  <2>1. InFlight(t) /\ owner[t] = c /\ Me \in registry[c]
    BY <1>3 DEF BeginRound, InFlight, OwnerInv
  <2>2. CASE b # c
    BY <1>3, <1>a, <2>1, <2>2 DEF BeginRound, TypeOK
  <2>3. CASE b = c
    <3>1. Wait(c) = Full /\ elapsed' = elapsed
      BY <1>0, <1>3, <2>3 DEF BeginRound, Wait
    <3>2. /\ loop'[c] = "round" /\ targets'[c] = registry[c] /\ left'[c] = 0
      BY <1>3, <2>3 DEF BeginRound, TypeOK
    <3>3. Wait(c)' = 0 + Load(registry[c])
      BY <2>1, <3>2 DEF Wait, Load
    <3> QED BY <1>0, <2>1, <3>1, <3>3
  <2> QED BY <2>2, <2>3
<1>4. ASSUME NEW u \in Participants, Beat(b, u), u # Me
      PROVE  /\ InFlight(t) /\ owner[t] = c
             /\ elapsed' + Wait(c)' <= elapsed + Wait(c)
  <2>1. InFlight(t) /\ owner[t] = c /\ elapsed' = elapsed
    BY <1>4 DEF Beat, InFlight
  <2>2. CASE b # c
    BY <1>4, <1>a, <2>1, <2>2 DEF Beat, TypeOK
  <2>3. CASE b = c
    <3>1. /\ loop[c] = "round" /\ left[c] = 0 /\ u \in targets[c]
          /\ loop'[c] = "round" /\ targets'[c] = targets[c] \ {u}
          /\ left'[c] \in 0..SlowPost
      BY <1>4, <2>3 DEF Beat, TypeOK
    <3>2. Load(targets[c]) = Load(targets'[c]) + SlowPost
          /\ Load(targets'[c]) \in Nat
      BY <1>0, <1>4, <3>1, LoadBeat, LoadBound
    <3>3. Load(targets[c])' = Load(targets'[c])
      BY DEF Load
    <3>4. left'[c] + Load(targets[c])' <= left[c] + Load(targets[c])
          /\ left'[c] \in Nat
      BY <1>0, <3>1, <3>2, <3>3
    <3>5. CASE Me \in targets[c]
      <4>1. Wait(c) = left[c] + Load(targets[c])
        BY <3>1, <3>5 DEF Wait
      <4>2. Wait(c)' = left'[c] + Load(targets[c])'
        BY <1>4, <3>1, <3>5 DEF Wait
      <4> QED BY <1>0, <2>1, <3>2, <3>3, <3>4, <4>1, <4>2
    <3>6. CASE Me \notin targets[c]
      <4>1. Wait(c) = left[c] + Load(targets[c]) + Interval + Full
        BY <3>1, <3>6 DEF Wait
      <4>2. Wait(c)' = left'[c] + Load(targets[c])' + Interval + Full
        BY <1>4, <3>1, <3>6 DEF Wait, Full
      <4> QED BY <1>0, <2>1, <3>2, <3>3, <3>4, <4>1, <4>2
    <3> QED BY <3>5, <3>6
  <2> QED BY <2>2, <2>3
<1>5. CASE Beat(b, Me)
  BY <1>5 DEF Beat
<1>6. CASE EndRound(b)
  <2>1. InFlight(t) /\ owner[t] = c /\ elapsed' = elapsed
    BY <1>6 DEF EndRound, InFlight
  <2>2. CASE b # c
    BY <1>6, <1>a, <2>1, <2>2 DEF EndRound, TypeOK
  <2>3. CASE b = c
    <3>1. /\ loop[c] = "round" /\ left[c] = 0 /\ targets[c] = {}
          /\ loop'[c] = "sleep" /\ left'[c] = Interval
      BY <1>6, <2>3 DEF EndRound, TypeOK
    <3>2. Wait(c) = Interval + Full
      BY <1>0, <3>1, LoadEmpty DEF Wait
    <3>3. Wait(c)' = Interval + Full
      BY <3>1 DEF Wait, Full
    <3> QED BY <1>0, <2>1, <3>2, <3>3
  <2> QED BY <2>2, <2>3
<1>7. CASE CrashCoordinator(b)
  <2>1. InFlight(t) /\ owner[t] = c /\ b # c
    BY <1>7, OwnerAssumption DEF CrashCoordinator, InFlight, TypeOK
  <2> QED BY <1>7, <1>a, <2>1 DEF CrashCoordinator, TypeOK
<1>8. CASE RestartCoordinator(b)
  BY <1>8, <1>a DEF RestartCoordinator, InFlight
<1> QED
  BY <1>1, <1>2, <1>3, <1>4, <1>5, <1>6, <1>7, <1>8 DEF CoordinatorStep, BeatLoop

(* Steps of the participant: a call resets the clock, the rest leaves both *)
(* clock and rounds alone.                                                 *)
LEMMA HeardParticipant ==
  ASSUME TypeOK, RoundInv, NEW c \in Coordinators, NEW t \in Txns,
         ParticipantStep, InFlight(t)', owner'[t] = c
  PROVE  \/ elapsed' = 0
         \/ /\ InFlight(t) /\ owner[t] = c
            /\ elapsed' + Wait(c)' <= elapsed + Wait(c)
<1> USE DEF monVars, txnVars, beatVars, coordVars
<1>0. elapsed \in Nat /\ Wait(c) \in Nat
  BY Times, WaitBounds DEF TypeOK, WaitOK
<1>a. ASSUME UNCHANGED <<elapsed, loop, left, targets>>
      PROVE  elapsed' + Wait(c)' <= elapsed + Wait(c)
  BY <1>0, <1>a, WaitSame
<1>1. ASSUME NEW s \in Txns, InitTransaction(s) \/ EndMessage(s)
      PROVE  /\ InFlight(t) /\ owner[t] = c
             /\ elapsed' + Wait(c)' <= elapsed + Wait(c)
  <2>1. InFlight(t) /\ owner[t] = c
    BY <1>1 DEF InitTransaction, EndMessage, InFlight, TypeOK
  <2> QED BY <1>1, <1>a, <2>1 DEF InitTransaction, EndMessage
<1>2. ASSUME NEW s \in Txns, MarkActive(s) \/ ReceiveMessage(s)
      PROVE  elapsed' = 0
  BY <1>2 DEF MarkActive, ReceiveMessage
<1>3. CASE StartRecovery \/ Restart
  BY <1>3 DEF StartRecovery, Restart
<1>4. CASE Poll \/ LowerFlag \/ EndRecovery
  BY <1>4, <1>a DEF Poll, LowerFlag, EndRecovery, InFlight
<1>5. ASSUME NEW s \in Txns, RecoverTransaction(s)
      PROVE  /\ InFlight(t) /\ owner[t] = c
             /\ elapsed' + Wait(c)' <= elapsed + Wait(c)
  <2>1. InFlight(t) /\ owner[t] = c
    BY <1>5 DEF RecoverTransaction, InFlight, TypeOK
  <2> QED BY <1>5, <1>a, <2>1 DEF RecoverTransaction
<1> QED
  BY <1>1, <1>2, <1>3, <1>4, <1>5 DEF ParticipantStep, RequestThread, MonitorStep

(* A second that passes brings the next heartbeat a second nearer. *)
LEMMA HeardTick ==
  ASSUME TypeOK, OwnerInv, RoundInv, NEW c \in Coordinators, NEW t \in Txns,
         Tick, InFlight(t)', owner'[t] = c
  PROVE  /\ InFlight(t) /\ owner[t] = c
         /\ elapsed' + Wait(c)' <= elapsed + Wait(c)
<1> USE DEF txnVars
<1>1. InFlight(t) /\ owner[t] = c /\ up[c]
  BY DEF Tick, InFlight, OwnerInv
<1>2. /\ elapsed \in Nat /\ elapsed' \in Nat /\ elapsed' <= elapsed + 1
      /\ left[c] \in Nat /\ left'[c] \in Nat /\ left[c] = left'[c] + 1
      /\ loop'[c] = loop[c] /\ targets'[c] = targets[c]
      /\ loop[c] \in {"sleep", "round"} /\ targets[c] \in SUBSET Participants
  BY <1>1, Times DEF Tick, TypeOK
<1>3. Load(targets[c]) \in Nat /\ Full \in Nat /\ Interval \in Nat
  BY <1>2, LoadBound, Times
<1>4. CASE loop[c] = "sleep"
  <2>1. Wait(c) = left[c] + Full /\ Wait(c)' = left'[c] + Full
    BY <1>2, <1>4 DEF Wait, Full
  <2> QED BY <1>1, <1>2, <1>3, <2>1
<1>5. CASE loop[c] = "round" /\ Me \in targets[c]
  <2>1. /\ Wait(c) = left[c] + Load(targets[c])
        /\ Wait(c)' = left'[c] + Load(targets[c])
    BY <1>2, <1>5 DEF Wait, Load
  <2> QED BY <1>1, <1>2, <1>3, <2>1
<1>6. CASE loop[c] = "round" /\ Me \notin targets[c]
  <2>1. /\ Wait(c) = left[c] + Load(targets[c]) + Interval + Full
        /\ Wait(c)' = left'[c] + Load(targets[c]) + Interval + Full
    BY <1>2, <1>6 DEF Wait, Load, Full
  <2> QED BY <1>1, <1>2, <1>3, <2>1
<1> QED BY <1>2, <1>4, <1>5, <1>6

LEMMA HeardNext ==
  ASSUME BeatInv, TypeOK', RoundInv', Next
  PROVE  HeardInv'
<1> SUFFICES ASSUME NEW c \in Coordinators, NEW t \in Txns,
                    InFlight(t)', owner'[t] = c
             PROVE  elapsed' + Wait(c)' <= Longest
  BY DEF HeardInv, Longest, Full
<1>1. \/ elapsed' = 0
      \/ /\ InFlight(t) /\ owner[t] = c
         /\ elapsed' + Wait(c)' <= elapsed + Wait(c)
  BY HeardCoordinator, HeardParticipant, HeardTick DEF Next, BeatInv
<1> QED BY <1>1, HeardKept DEF BeatInv

LEMMA BeatNext == BeatInv /\ [Next]_vars => BeatInv'
<1> SUFFICES ASSUME BeatInv, [Next]_vars PROVE BeatInv'
  OBVIOUS
<1>1. CASE Next
  BY <1>1, TypeNext, OwnerNext, RoundNext, HeardNext DEF BeatInv
<1>2. CASE UNCHANGED vars
  BY <1>2 DEF BeatInv, TypeOK, OwnerInv, RoundInv, HeardInv, InFlight, Wait,
     Load, Longest, Full, vars, monVars, txnVars, beatVars, coordVars
<1> QED BY <1>1, <1>2

THEOREM BeatCorrect == Spec => []BeatInv
BY BeatInit, BeatNext, PTL DEF Spec

(* How long Me may hear nothing of a live coordinator: for every set of    *)
(* coordinators, participants and transactions, all times, and any number  *)
(* of crashes and restarts, no longer than the sleep and two rounds in     *)
(* which every other participant is dead (heartbeat.py:80-97).             *)
THEOREM SilenceIsBounded == Spec => []SilenceBounded
<1>1. BeatInv => SilenceBounded
  <2> SUFFICES ASSUME BeatInv, NEW t \in Txns, InFlight(t),
                      owner[t] \in Coordinators
               PROVE  elapsed <= Interval + 2 * (Cardinality(Others) * SlowPost)
    BY DEF SilenceBounded
  <2>1. elapsed \in Nat /\ Wait(owner[t]) \in Nat
    BY WaitBounds, Times DEF BeatInv, TypeOK, WaitOK
  <2>2. elapsed + Wait(owner[t]) <= Longest
    BY DEF BeatInv, HeardInv
  <2>3. Longest = Interval + 2 * Full /\ Longest \in Nat /\ Full \in Nat
    BY LoadBound, Times DEF Longest
  <2> QED BY <2>1, <2>2, <2>3 DEF Full
<1> QED BY <1>1, BeatCorrect, PTL
=============================================================================
