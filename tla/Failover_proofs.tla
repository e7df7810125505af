--------------------------- MODULE Failover_proofs ---------------------------
(* The monitors, for any number of replicas and partitions: they run the    *)
(* heartbeat protocol, never lose a consumer and follow what they believe.  *)
EXTENDS Failover, HealthCheckpoint_proofs

(* Every step of the composition is a step of the heartbeat or none of its  *)
(* business, so what HealthCheckpoint_proofs proves holds here as well.     *)
LEMMA StepImplements == [FailoverNext]_vars => [Next]_hcVars
<1> SUFFICES ASSUME [FailoverNext]_vars PROVE [Next]_hcVars
  OBVIOUS
<1>1. CASE TimePasses
  BY <1>1 DEF TimePasses, Next
<1>2. ASSUME NEW r \in Replicas, StartReplica(r) \/ CrashReplica(r) PROVE Next
  BY <1>2 DEF StartReplica, CrashReplica, Next
<1>3. ASSUME NEW r \in Replicas, HealthLoop(r) PROVE Next
  BY <1>3 DEF HealthLoop, Next
<1>4. ASSUME NEW r \in Replicas, Creation(r) \/ ConsumerGoroutine(r) \/ ConsumerDies(r)
      PROVE  UNCHANGED hcVars
  BY <1>4 DEF Creation, CreateEventHubConsumer, CreateEventHubConsumerFails, MarkStarted,
       ConsumerGoroutine, ConsumerStart, ConsumerStartFails, ConsumerDies
<1>5. ASSUME NEW r \in Replicas, NEW k \in Partitions, PartitionStep(r, k)
      PROVE  [Next]_hcVars
  BY <1>5 DEF PartitionStep, ReceiveEvents, Publish, ReceiveReport, Next, GOOD, BAD
<1>6. ASSUME NEW b \in Backups, Monitor(b) PROVE Next
  BY <1>6 DEF Monitor, TakeoverOn, TakeoverOff, TakeoverOffPanics, CrashReplica, Next, Replicas
<1>7. CASE UNCHANGED vars
  BY <1>7 DEF vars
<1> QED
  BY <1>1, <1>2, <1>3, <1>4, <1>5, <1>6, <1>7 DEF FailoverNext

(* The composed system keeps to the heartbeat protocol (health.go:201-351). *)
THEOREM Implements == FailoverSpec => Spec
<1>1. FailoverInit => Init
  BY DEF FailoverInit
<1> QED
  BY <1>1, StepImplements, PTL DEF FailoverSpec, Spec

-----------------------------------------------------------------------------
Idle(b) == starter[b] = "idle" /\ ~held[b] /\ goroutine[b] \notin Live

(* A live consumer is the one the monitor holds, and is marked as started   *)
(* or about to be; nobody creates a consumer while there is a live one.     *)
Handle(r) ==
  /\ goroutine[r] \in Live => held[r] /\ (started[r] \/ starter[r] = "marking")
  /\ starter[r] = "creating" => goroutine[r] \notin Live

(* A backup is idle from the TakeoverOff it has received to the TakeoverOn  *)
(* it has not received yet.                                                 *)
Belief(b) ==
  /\ peerHealth[b] = GOOD /\ loop[b] # "send" => Idle(b)
  /\ peerHealth[b] = BAD /\ loop[b] = "send" => Idle(b)

(* ConsumesUnlessLost, and while isEHConsumerStarted is being set as well.  *)
Asked(r) ==
  ShouldConsume(r) /\ starter[r] # "creating" => goroutine[r] \in Live \/ lost[r]

FInv ==
  /\ FailoverTypeOK
  /\ NoOrphan
  /\ \A r \in Replicas : Handle(r)
  /\ \A r \in Replicas : Asked(r)
  /\ \A b \in Backups : Belief(b)

(* Monitors start with well-typed state (monitor.go:98-162).                *)
LEMMA FailoverTypeInit == FailoverInit => FailoverTypeOK
  BY TypeInit DEF FailoverInit, FailoverTypeOK, Live

(* A replica that starts or dies gets a well-typed monitor.                 *)
LEMMA NewMonitorTypes ==
  ASSUME FailoverTypeOK, NEW r \in Replicas, NEW s \in {"idle", "creating"}, NewMonitor(r, s)
  PROVE  /\ starter' \in [Replicas -> {"idle", "creating", "marking"}]
         /\ held' \in [Replicas -> BOOLEAN]
         /\ started' \in [Replicas -> BOOLEAN]
         /\ goroutine' \in [Replicas -> Live \cup {"none", "ended"}]
         /\ orphan' \in [Replicas -> BOOLEAN]
         /\ lost' \in [Replicas -> BOOLEAN]
         /\ part' \in [Replicas -> [Partitions -> {"idle", "busy", GOOD, BAD}]]
  BY DEF FailoverTypeOK, NewMonitor

(* Every step of the composition keeps the types.                           *)
LEMMA FailoverTypeStep == FailoverTypeOK /\ [FailoverNext]_vars => FailoverTypeOK'
<1> SUFFICES ASSUME FailoverTypeOK, [FailoverNext]_vars PROVE FailoverTypeOK'
  OBVIOUS
<1>1. TypeOK'
  BY TypeStep, StepImplements DEF FailoverTypeOK
<1>2. CASE UNCHANGED monVars
  BY <1>1, <1>2 DEF FailoverTypeOK, monVars
<1>3. ASSUME NEW r \in Replicas, StartReplica(r) \/ CrashReplica(r) PROVE FailoverTypeOK'
  BY <1>1, <1>3, NewMonitorTypes DEF StartReplica, CrashReplica, FailoverTypeOK
<1>4. ASSUME NEW r \in Replicas, Creation(r) PROVE FailoverTypeOK'
  BY <1>1, <1>4 DEF Creation, CreateEventHubConsumer, CreateEventHubConsumerFails,
       MarkStarted, FailoverTypeOK, Live
<1>5. ASSUME NEW r \in Replicas, ConsumerGoroutine(r) \/ ConsumerDies(r) PROVE FailoverTypeOK'
  BY <1>1, <1>5 DEF ConsumerGoroutine, ConsumerStart, ConsumerStartFails, ConsumerDies,
       FailoverTypeOK, Live
<1>6. ASSUME NEW r \in Replicas, NEW k \in Partitions, PartitionStep(r, k)
      PROVE  FailoverTypeOK'
  <2>1. PICK x \in {"idle", "busy", GOOD, BAD} : part' = [part EXCEPT ![r][k] = x]
    BY <1>6 DEF PartitionStep, ReceiveEvents, Publish, ReceiveReport
  <2>2. part' \in [Replicas -> [Partitions -> {"idle", "busy", GOOD, BAD}]]
    BY <2>1 DEF FailoverTypeOK
  <2>3. UNCHANGED <<starter, held, started, goroutine, orphan, lost>>
    BY <1>6 DEF PartitionStep, ReceiveEvents, Publish, ReceiveReport
  <2> QED
    BY <1>1, <2>2, <2>3 DEF FailoverTypeOK
<1>7. ASSUME NEW b \in Backups, TakeoverOn(b) \/ TakeoverOff(b) PROVE FailoverTypeOK'
  <2>1. CASE TakeoverOn(b)
    BY <1>1, <2>1 DEF TakeoverOn, FailoverTypeOK
  <2>2. CASE TakeoverOff(b)
    <3>1. PICK g \in AfterStop(b) : goroutine' = [goroutine EXCEPT ![b] = g]
      BY <2>2 DEF TakeoverOff
    <3>2. g \in Live \cup {"none", "ended"}
      BY <1>7 DEF AfterStop, FailoverTypeOK, Replicas
    <3> QED
      BY <1>1, <2>2, <3>1, <3>2 DEF TakeoverOff, FailoverTypeOK
  <2> QED
    BY <1>7, <2>1, <2>2
<1>8. ASSUME NEW b \in Backups, TakeoverOffPanics(b) PROVE FailoverTypeOK'
  BY <1>3, <1>8 DEF TakeoverOffPanics, Replicas
<1> QED
  BY <1>2, <1>3, <1>4, <1>5, <1>6, <1>7, <1>8
  DEF FailoverNext, TimePasses, HealthLoop, Monitor, vars, monVars

-----------------------------------------------------------------------------
(* What the parts of FInv that are not types become in one step.            *)
Control ==
  /\ NoOrphan
  /\ \A r \in Replicas : Handle(r)
  /\ \A r \in Replicas : Asked(r)
  /\ \A b \in Backups : Belief(b)

(* Nobody holds a consumer at first (monitor.go:103-105).                   *)
LEMMA ControlInit == FailoverInit => Control
  BY DEF FailoverInit, Init, Control, NoOrphan, Handle, Belief, Idle, Live, Replicas,
     Asked, ShouldConsume

(* The passing of time does not touch monitors or consumers.                *)
LEMMA ControlTime ==
  ASSUME FInv, TimePasses
  PROVE  Control'
  BY DEF FInv, Control, TimePasses, Tick, monVars, NoOrphan, Handle, Belief, Idle,
     Asked, ShouldConsume

(* The replica that starts or dies has no consumer, the others keep theirs. *)
LEMMA ControlReplica ==
  ASSUME FInv, NEW r \in Replicas, StartReplica(r) \/ CrashReplica(r)
  PROVE  Control'
<1>1. PICK s \in {"idle", "creating"} : NewMonitor(r, s) /\ (r \in Backups => s = "idle")
  BY ReplicasDisjoint DEF StartReplica, CrashReplica
<1>2. StepOf(r) /\ TypeOK
  BY DEF StartReplica, CrashReplica, StepOf, FInv, FailoverTypeOK
<1>3. NoOrphan'
  BY <1>1 DEF FInv, FailoverTypeOK, NewMonitor, NoOrphan
<1>4. \A q \in Replicas : Handle(q)'
  BY <1>1, <1>2, Locality DEF FInv, FailoverTypeOK, NewMonitor, Handle, Live
<1>5. Idle(r)' \/ r \notin Backups
  BY <1>1 DEF FInv, FailoverTypeOK, NewMonitor, Idle, Live
<1>6. \A b \in Backups : Belief(b)'
  BY <1>1, <1>2, <1>5, Locality DEF FInv, FailoverTypeOK, NewMonitor, Belief, Idle, Replicas
<1>7. Asked(r)'
  <2>1. CASE StartReplica(r)
    <3>1. (starter'[r] = "creating") \/ (r \in Backups /\ peerHealth'[r] = GOOD)
      BY <2>1 DEF StartReplica, Start, Fresh, NewMonitor, FInv, FailoverTypeOK, Replicas
    <3> QED
      BY <3>1 DEF Asked, ShouldConsume, GOOD, BAD
  <2>2. CASE CrashReplica(r)
    <3>1. loop'[r] = "down"
      BY <1>2, <2>2 DEF CrashReplica, Crash, Goto, TypeOK
    <3> QED
      BY <3>1 DEF Asked, ShouldConsume
  <2> QED
    BY <2>1, <2>2
<1>8. \A q \in Replicas : Asked(q)'
  <2> SUFFICES ASSUME NEW q \in Replicas, q # r PROVE Asked(q)'
    BY <1>7
  <2>1. Asked(q)
    BY DEF FInv
  <2>2. /\ starter'[q] = starter[q] /\ goroutine'[q] = goroutine[q] /\ lost'[q] = lost[q]
    BY <1>1 DEF NewMonitor, FInv, FailoverTypeOK
  <2>3. /\ loop'[q] = loop[q]
        /\ q \in Backups => peerHealth'[q] = peerHealth[q]
    BY <1>2, Locality
  <2> QED
    BY <2>1, <2>2, <2>3 DEF Asked, ShouldConsume
<1> QED
  BY <1>3, <1>4, <1>6, <1>8 DEF Control

(* A step of the health loop changes what the backup believes only on its   *)
(* way to the channel (health.go:322-351).                                  *)
LEMMA ControlHealthLoop ==
  ASSUME FInv, NEW r \in Replicas, HealthLoop(r)
  PROVE  Control'
<1>1. StepOf(r) /\ TypeOK /\ UNCHANGED monVars
  BY DEF HealthLoop, StepOf, FInv, FailoverTypeOK
<1>2. \A q \in Replicas : Handle(q)'
  BY <1>1 DEF FInv, monVars, Handle
<1>3. r \in Backups => Belief(r)'
  <2>1. SUFFICES ASSUME r \in Backups PROVE Belief(r)'
    OBVIOUS
  <2>2. ReaderStep(r) /\ Belief(r) /\ (Idle(r) => Idle(r)')
    BY <1>1, <2>1, ReplicasDisjoint DEF HealthLoop, FInv, monVars, Idle
  <2>3. CASE SetPeerHealth(r)
    BY <1>1, <2>1, <2>2, <2>3
    DEF SetPeerHealth, Judgement, Return, Goto, TypeOK, Belief, GOOD, BAD
  <2>4. CASE ~SetPeerHealth(r)
    <3>1. peerHealth'[r] = peerHealth[r] /\ loop[r] # "send" /\ loop'[r] # "send"
      BY <1>1, <2>1, <2>2, <2>4 DEF ReaderStep, ReadCheckpointHealth, GetCheckpointLastModify,
         GetCheckpointLastModifyFails, TakeTick, Exit, Return, Goto, TypeOK
    <3> QED
      BY <2>2, <3>1 DEF Belief
  <2> QED
    BY <2>3, <2>4
<1>4. \A b \in Backups : Belief(b)'
  BY <1>1, <1>3, Locality DEF FInv, monVars, Belief, Idle, Replicas
<1>5. ShouldConsume(r)' => ShouldConsume(r)
  <2>1. CASE r \in Backups
    <3>1. ReaderStep(r)
      BY <2>1, ReplicasDisjoint DEF HealthLoop
    <3>2. CASE SetPeerHealth(r)
      BY <1>1, <2>1, <3>2
      DEF SetPeerHealth, Judgement, Return, Goto, TypeOK, ShouldConsume, GOOD, BAD
    <3>3. CASE ~SetPeerHealth(r)
      BY <1>1, <2>1, <3>1, <3>3 DEF ReaderStep, ReadCheckpointHealth, GetCheckpointLastModify,
         GetCheckpointLastModifyFails, TakeTick, Exit, Return, Goto, TypeOK, ShouldConsume
    <3> QED
      BY <3>2, <3>3
  <2>2. CASE r \notin Backups
    <3>1. WriterStep(r)
      BY <2>2 DEF HealthLoop
    <3>2. loop[r] # "down"
      BY <3>1 DEF WriterStep, WriteCheckpointHealth, SetCheckpoint, SetCheckpointReturns,
         SetCheckpointFails, TakeTick
    <3> QED
      BY <2>2, <3>2 DEF ShouldConsume
  <2> QED
    BY <2>1, <2>2
<1>6. \A q \in Replicas : ShouldConsume(q)' => ShouldConsume(q)
  BY <1>1, <1>5, Locality DEF ShouldConsume
<1>7. \A q \in Replicas : Asked(q)'
  BY <1>1, <1>6 DEF FInv, Asked, monVars
<1> QED
  BY <1>1, <1>2, <1>4, <1>7 DEF Control, FInv, NoOrphan, monVars

(* startEventHubConsumer starts a consumer only where none is live          *)
(* (monitor.go:238-260).                                                    *)
LEMMA ControlCreation ==
  ASSUME FInv, NEW r \in Replicas, Creation(r) \/ ConsumerGoroutine(r) \/ ConsumerDies(r)
  PROVE  Control'
<1> USE DEF FInv, FailoverTypeOK, TypeOK, NoOrphan, Handle, Live
<1>1. UNCHANGED hcVars
  BY DEF Creation, CreateEventHubConsumer, CreateEventHubConsumerFails, MarkStarted,
     ConsumerGoroutine, ConsumerStart, ConsumerStartFails, ConsumerDies
<1>2. \A q \in Replicas \ {r} :
        /\ starter'[q] = starter[q] /\ held'[q] = held[q] /\ started'[q] = started[q]
        /\ goroutine'[q] = goroutine[q] /\ orphan'[q] = orphan[q] /\ lost'[q] = lost[q]
  BY DEF Creation, CreateEventHubConsumer, CreateEventHubConsumerFails, MarkStarted,
     ConsumerGoroutine, ConsumerStart, ConsumerStartFails, ConsumerDies
<1>3. starter[r] # "idle" \/ goroutine[r] \in Live
  BY DEF Creation, CreateEventHubConsumer, CreateEventHubConsumerFails, MarkStarted,
     ConsumerGoroutine, ConsumerStart, ConsumerStartFails, ConsumerDies
<1>4. Handle(r)' /\ ~orphan'[r]
  <2>1. CASE CreateEventHubConsumer(r)
    BY <1>1, <2>1 DEF CreateEventHubConsumer, hcVars
  <2>2. CASE CreateEventHubConsumerFails(r)
    BY <1>1, <2>2 DEF CreateEventHubConsumerFails, hcVars
  <2>3. CASE MarkStarted(r)
    BY <1>1, <2>3 DEF MarkStarted, hcVars
  <2>4. CASE ConsumerStart(r) \/ ConsumerStartFails(r) \/ ConsumerDies(r)
    BY <1>1, <2>4 DEF ConsumerStart, ConsumerStartFails, ConsumerDies, hcVars
  <2> QED
    BY <2>1, <2>2, <2>3, <2>4 DEF Creation, ConsumerGoroutine
<1>5. NoOrphan' /\ \A q \in Replicas : Handle(q)'
  BY <1>1, <1>2, <1>4 DEF hcVars
<1>6. r \in Backups => Belief(r)'
  BY <1>1, <1>3 DEF Belief, Idle, hcVars
<1>7. \A b \in Backups : Belief(b)'
  BY <1>1, <1>2, <1>6 DEF Belief, Idle, hcVars, Replicas
<1>8. Asked(r)'
  <2>1. CASE CreateEventHubConsumer(r) \/ ConsumerStart(r)
    BY <2>1 DEF CreateEventHubConsumer, ConsumerStart, Asked
  <2>2. CASE CreateEventHubConsumerFails(r) \/ ConsumerStartFails(r) \/ ConsumerDies(r)
    <3>1. lost'[r]
      BY <2>2 DEF CreateEventHubConsumerFails, ConsumerStartFails, ConsumerDies
    <3> QED
      BY <3>1 DEF Asked
  <2>3. CASE MarkStarted(r)
    BY <1>1, <2>3 DEF MarkStarted, Asked, ShouldConsume, hcVars
  <2> QED
    BY <2>1, <2>2, <2>3 DEF Creation, ConsumerGoroutine
<1>9. \A q \in Replicas : Asked(q)'
  BY <1>1, <1>2, <1>8 DEF Asked, ShouldConsume, hcVars
<1> QED
  BY <1>5, <1>7, <1>9 DEF Control

(* Partition goroutines do not touch the monitor's handle on the consumer.   *)
LEMMA ControlPartition ==
  ASSUME FInv, NEW r \in Replicas, NEW k \in Partitions, PartitionStep(r, k)
  PROVE  Control'
<1>1. UNCHANGED <<loop, peerHealth, starter, held, started, goroutine, orphan, lost>>
  BY DEF PartitionStep, ReceiveEvents, Publish, ReceiveReport, SetMyHealth, hcVars
<1> QED
  BY <1>1 DEF FInv, Control, NoOrphan, Handle, Belief, Idle, Asked, ShouldConsume

(* A takeover message finds the monitor in the opposite state               *)
(* (monitor.go:210-232).                                                    *)
LEMMA ControlMonitor ==
  ASSUME FInv, NEW b \in Backups, Monitor(b)
  PROVE  Control'
<1> USE DEF FInv, FailoverTypeOK, TypeOK, NoOrphan, Handle, Live
<1>1. CASE TakeoverOffPanics(b)
  BY <1>1, ControlReplica DEF TakeoverOffPanics, Replicas
<1>2. CASE TakeoverOn(b)
  <2>1. /\ b \in Replicas /\ loop[b] = "send" /\ loop' = [loop EXCEPT ![b] = "select"]
        /\ peerHealth' = peerHealth /\ peerHealth[b] = BAD
        /\ starter' = [starter EXCEPT ![b] = "creating"]
        /\ UNCHANGED <<held, started, goroutine, orphan>>
    BY <1>2 DEF TakeoverOn, Receive, Goto, Replicas
  <2>2. goroutine[b] \notin Live
    BY <2>1 DEF Belief, Idle
  <2>3. \A q \in Replicas : Handle(q)'
    BY <2>1, <2>2
  <2>4. \A c \in Backups : Belief(c)'
    BY <2>1 DEF Belief, Idle, Replicas, GOOD, BAD
  <2>5. \A q \in Replicas \ {b} : lost'[q] = lost[q]
    BY <1>2 DEF TakeoverOn
  <2>6. \A q \in Replicas : Asked(q)'
    BY <2>1, <2>5 DEF Asked, ShouldConsume
  <2> QED
    BY <2>1, <2>3, <2>4, <2>6 DEF Control
<1>3. CASE TakeoverOff(b)
  <2>1. /\ b \in Replicas /\ loop[b] = "send" /\ loop' = [loop EXCEPT ![b] = "select"]
        /\ peerHealth' = peerHealth /\ peerHealth[b] = GOOD
        /\ starter' = starter /\ starter[b] = "idle"
    BY <1>3 DEF TakeoverOff, Receive, Goto, Replicas
  <2>2. goroutine'[b] \notin Live /\ ~held'[b] /\ ~orphan'[b]
    BY <1>3, <2>1 DEF TakeoverOff, AfterStop, CanStop
  <2>3. \A q \in Replicas \ {b} :
          /\ held'[q] = held[q] /\ started'[q] = started[q]
          /\ goroutine'[q] = goroutine[q] /\ orphan'[q] = orphan[q] /\ lost'[q] = lost[q]
    BY <1>3 DEF TakeoverOff
  <2>4. \A q \in Replicas : Handle(q)'
    BY <2>1, <2>2, <2>3
  <2>5. NoOrphan'
    BY <2>2, <2>3
  <2>6. \A c \in Backups : Belief(c)'
    BY <2>1, <2>2, <2>3 DEF Belief, Idle, Replicas
  <2>7. \A q \in Replicas : Asked(q)'
    BY <2>1, <2>3 DEF Asked, ShouldConsume, GOOD, BAD
  <2> QED
    BY <2>4, <2>5, <2>6, <2>7 DEF Control
<1> QED
  BY <1>1, <1>2, <1>3 DEF Monitor

(* The invariant is inductive.                                              *)
LEMMA FInvInductive == FInv /\ [FailoverNext]_vars => FInv'
<1> SUFFICES ASSUME FInv, [FailoverNext]_vars PROVE FInv'
  OBVIOUS
<1>1. FailoverTypeOK'
  BY FailoverTypeStep DEF FInv
<1>2. Control'
  <2>1. CASE UNCHANGED vars
    BY <2>1 DEF FInv, vars, hcVars, monVars, Control, NoOrphan, Handle, Belief, Idle,
       Asked, ShouldConsume
  <2> QED
    BY <2>1, ControlTime, ControlReplica, ControlHealthLoop, ControlCreation,
       ControlPartition, ControlMonitor DEF FailoverNext
<1> QED
  BY <1>1, <1>2 DEF FInv, Control

(* Types, the handle of every monitor and the belief of every backup fit     *)
(* together in every reachable state (monitor.go:164-298).                  *)
THEOREM FailoverInductive == FailoverSpec => []FInv
<1>1. FailoverInit => FInv
  BY FailoverTypeInit, ControlInit DEF FInv, Control
<1> QED
  BY <1>1, FInvInductive, PTL DEF FailoverSpec

(* Type correctness of monitors and consumers (monitor.go:43-62).           *)
THEOREM FailoverTypeCorrect == FailoverSpec => []FailoverTypeOK
<1>1. FInv => FailoverTypeOK
  BY DEF FInv
<1> QED
  BY <1>1, FailoverInductive, PTL

(* No consumer is created over a live one or forgotten while it runs        *)
(* (monitor.go:238-260, 276-298).                                           *)
THEOREM NeverOrphans == FailoverSpec => []NoOrphan
<1>1. FInv => NoOrphan
  BY DEF FInv
<1> QED
  BY <1>1, FailoverInductive, PTL

(* A backup that believes its peers alive is idle (monitor.go:202-233).     *)
THEOREM BackupsFollowBelief == FailoverSpec => []FollowsBelief
<1>1. FInv => FollowsBelief
  BY DEF FInv, Belief, Idle, FollowsBelief
<1> QED
  BY <1>1, FailoverInductive, PTL

(* Who has to consume does, unless its consumer was lost to an error        *)
(* (monitor.go:164-187, 210-219, 250-255).                                  *)
THEOREM ConsumersAreAsked == FailoverSpec => []ConsumesUnlessLost
<1>1. FInv => ConsumesUnlessLost
  BY DEF FInv, FailoverTypeOK, Asked, ConsumesUnlessLost
<1> QED
  BY <1>1, FailoverInductive, PTL

(* The heartbeat's guarantees hold of the composed system.                  *)
COROLLARY FailoverKeepsHeartbeat == FailoverSpec => NoFalseTakeover /\ []DetectsSilence
  BY Implements, TakeoverIsNeverFalse, SilenceIsDetected

(* A backup whose loop has been undisturbed for a while is not blocked on    *)
(* the health channel (health.go:284-290).                                  *)
LEMMA SteadyIsNotSending ==
  ASSUME TypeOK, RolesOK, NEW b \in Backups, steady[b] > Interval + CallTime
  PROVE  loop[b] \notin Stopped \cup {"send"}
<1>1. steady[b] \in Ages /\ b \in Replicas
  BY DEF TypeOK, Replicas
<1> QED
  BY <1>1, TimesAreNat DEF RolesOK, Ok, Ages, Cap

(* A steady primary and a steady backup never both consume                  *)
(* (health.go:263-283, monitor.go:202-233).                                 *)
THEOREM OnlyOneActive == FailoverSpec => []SingleActive
<1>1. TrustsTheLiving /\ FInv /\ IInv => SingleActive
  BY SteadyIsNotSending DEF TrustsTheLiving, FInv, IInv, Belief, Idle, SingleActive
<1> QED
  BY <1>1, FailoverInductive, LivingAreTrusted, Inductive, Implements, PTL

(* A steady backup has taken over by the time the silence has lasted the     *)
(* hold time, an interval and a call (health.go:263-283, monitor.go:210).    *)
THEOREM TakeoverIsTimely == FailoverSpec => []TimelyTakeover
<1>1. DetectsSilence /\ FInv /\ IInv => TimelyTakeover
  <2> SUFFICES ASSUME DetectsSilence, FInv, IInv, NEW b \in Backups,
                      steady[b] > Interval + CallTime,
                      age > PreemptionHoldTime + Interval + CallTime
               PROVE  goroutine[b] \in Live \/ starter[b] # "idle" \/ lost[b]
    BY DEF TimelyTakeover
  <2>1. peerHealth[b] = BAD
    BY DEF DetectsSilence
  <2>2. loop[b] \notin {"down", "send"}
    BY SteadyIsNotSending DEF IInv, Stopped
  <2>3. b \in Replicas /\ ShouldConsume(b)
    BY <2>1, <2>2 DEF ShouldConsume, Replicas
  <2> QED
    BY <2>3 DEF FInv, FailoverTypeOK, Asked
<1> QED
  BY <1>1, FailoverInductive, SilenceIsDetected, Inductive, Implements, PTL
=============================================================================
