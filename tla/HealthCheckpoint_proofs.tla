----------------------- MODULE HealthCheckpoint_proofs -----------------------
(* The heartbeat, for any number of replicas and any choice of times:       *)
(* type correctness, no false takeover and timely detection.                *)
EXTENDS HealthCheckpoint, TLAPS

(* TypeOK says which loop states a replica may be in; each role uses its    *)
(* own, and only a replica that is running counts ticks.                    *)
RolesOK ==
  /\ \A p \in Primaries : loop[p] \in Stopped \cup {"select", "write", "written"}
  /\ \A b \in Backups : loop[b] \in Stopped \cup {"select", "read", "judge", "send"}
  /\ \A r \in Replicas : steady[r] > 0 => Ok(r)
  /\ \A r \in Replicas : loop[r] \notin InCall => callTime[r] = 0

(* A primary starts its write on the timer tick, so the write's duration    *)
(* is what the timer shows.                                                 *)
OnTheTick(p) ==
  /\ pending[p] => timer[p] = 0
  /\ loop[p] \in {"write", "written"} => callTime[p] = timer[p] /\ ~pending[p]

(* How old the blob may be at each point of a steady primary's loop.        *)
Heartbeat(p) ==
  /\ loop[p] = "written" => age <= timer[p]
  /\ loop[p] = "select" /\ ~pending[p] /\ steady[p] > timer[p] => age <= timer[p]
  /\ loop[p] = "select" /\ pending[p] /\ steady[p] > Interval => age <= Interval
  /\ loop[p] = "write" /\ steady[p] > Interval + timer[p] => age <= Interval + timer[p]

(* What a read tells about every primary, as long as the call lasts.        *)
ReadIsRecent(b) ==
  loop[b] = "judge" =>
    /\ age <= readAge[b]
    /\ \A p \in Primaries :
         steady[p] > Interval + CallTime + callTime[b]
           => readAge[b] <= Interval + CallTime + callTime[b]

(* A silence longer than s shows in the peer health of a backup that has    *)
(* been steady for longer than s - PreemptionHoldTime.                      *)
Detected(b, s) ==
  steady[b] > s /\ age > PreemptionHoldTime + s => peerHealth[b] = BAD

Detection(b) ==
  /\ loop[b] = "select" /\ ~pending[b] => Detected(b, timer[b])
  /\ loop[b] = "select" /\ pending[b] => Detected(b, Interval)
  /\ loop[b] \in {"read", "judge"} => Detected(b, Interval + callTime[b])

(* The same for a primary that has been steady for longer than s and a      *)
(* hold time's worth of delays.                                             *)
Trusted(b, s) ==
  HoldIsLongEnough /\ steady[b] > s =>
    \A p \in Primaries :
      steady[p] > Interval + 2 * CallTime + s => peerHealth[b] = GOOD

Trust(b) ==
  /\ loop[b] = "select" /\ ~pending[b] => Trusted(b, timer[b])
  /\ loop[b] = "select" /\ pending[b] => Trusted(b, Interval)
  /\ loop[b] \in {"read", "judge"} => Trusted(b, Interval + callTime[b])

WriterInv(p) == OnTheTick(p) /\ Heartbeat(p)
ReaderInv(b) == ReadIsRecent(b) /\ Detection(b) /\ Trust(b)

IInv ==
  /\ TypeOK
  /\ RolesOK
  /\ \A p \in Primaries : WriterInv(p)
  /\ \A b \in Backups : ReaderInv(b)

-----------------------------------------------------------------------------
(* Ages saturate, so counting a tick never leaves their range and compares  *)
(* the same way as an unbounded age would.                                  *)
LEMMA OlderIsAge == \A a \in Ages : Older(a) \in Ages /\ Older(a) <= a + 1 /\ a <= Older(a)
  BY TimesAreNat DEF Ages, Cap, Older

(* Replicas start with well-typed state (health.go:122-199).                *)
LEMMA TypeInit == Init => TypeOK
  BY TimesAreNat DEF Init, TypeOK, Ages, Cap, Loops, InCall, Stopped, Replicas, GOOD, BAD

(* So does a replica that starts again.                                     *)
LEMMA FreshTypes ==
  ASSUME TypeOK, NEW r \in Replicas, Fresh(r)
  PROVE  /\ timer' \in [Replicas -> 0 .. Interval - 1]
         /\ pending' \in [Replicas -> BOOLEAN]
         /\ callTime' \in [Replicas -> 0 .. CallTime]
         /\ myHealth' \in [Primaries -> {GOOD, BAD}]
         /\ peerHealth' \in [Backups -> {GOOD, BAD}]
         /\ readAge' \in [Backups -> Ages]
<1>1. 0 \in 0 .. Interval - 1 /\ 0 \in 0 .. CallTime /\ 0 \in Ages
  BY TimesAreNat DEF Ages, Cap
<1> QED
  BY <1>1 DEF TypeOK, Fresh

(* A tick keeps the types: ages saturate and timers wrap.                   *)
LEMMA TickTypes == TypeOK /\ Tick => TypeOK'
<1> SUFFICES ASSUME TypeOK, Tick PROVE TypeOK'
  OBVIOUS
<1>1. age' \in Ages /\ readAge' \in [Backups -> Ages] /\ steady' \in [Replicas -> Ages]
  <2>1. 0 \in Ages
    BY TimesAreNat DEF Ages, Cap
  <2> QED
    BY <2>1, OlderIsAge DEF TypeOK, Tick
<1>2. timer' \in [Replicas -> 0 .. Interval - 1]
  <2> SUFFICES ASSUME NEW r \in Replicas, timer[r] + 1 # Interval
               PROVE  timer[r] + 1 \in 0 .. Interval - 1
    BY TimesAreNat DEF TypeOK, Tick
  <2> QED
    BY TimesAreNat DEF TypeOK
<1>3. pending' \in [Replicas -> BOOLEAN]
  BY DEF Tick
<1>4. callTime' \in [Replicas -> 0 .. CallTime]
  BY TimesAreNat DEF TypeOK, Tick
<1>5. UNCHANGED <<loop, myHealth, peerHealth>>
  BY DEF Tick
<1> QED
  BY <1>1, <1>2, <1>3, <1>4, <1>5 DEF TypeOK

(* Every step keeps the types.                                              *)
LEMMA TypeStep == TypeOK /\ [Next]_hcVars => TypeOK'
<1> SUFFICES ASSUME TypeOK, [Next]_hcVars PROVE TypeOK'
  OBVIOUS
<1> USE DEF Loops, InCall, Stopped
<1>0. 0 \in 0 .. Interval - 1 /\ 0 \in 0 .. CallTime /\ 0 \in Ages
  BY TimesAreNat DEF Ages, Cap
<1>1. CASE Tick
  BY <1>1, TickTypes
<1>2. ASSUME NEW r \in Replicas, Start(r) \/ Crash(r) PROVE TypeOK'
  <2>1. Fresh(r) /\ age' = age /\ loop' \in [Replicas -> Loops]
    BY <1>2 DEF TypeOK, Start, Crash, Goto
  <2>2. steady' \in [Replicas -> Ages]
    BY <1>0, <1>2 DEF TypeOK, Start, Crash, Interrupt
  <2> QED
    BY <2>1, <2>2, FreshTypes DEF TypeOK
<1>3. ASSUME NEW p \in Primaries, WriterStep(p) PROVE TypeOK'
  <2>1. CASE WriteCheckpointHealth(p)
    BY <1>0, <2>1 DEF TypeOK, Replicas, WriteCheckpointHealth, TakeTick, Goto
  <2>2. CASE SetCheckpoint(p) \/ SetCheckpointReturns(p)
    BY <1>0, <2>2 DEF TypeOK, Replicas, SetCheckpoint, SetCheckpointReturns, Return, Goto
  <2>3. CASE SetCheckpointFails(p)
    BY <1>0, <2>3 DEF TypeOK, Replicas, SetCheckpointFails, Exit, Return, Goto, Interrupt
  <2> QED
    BY <1>3, <2>1, <2>2, <2>3 DEF WriterStep
<1>4. ASSUME NEW p \in Primaries, NEW s \in {GOOD, BAD}, SetMyHealth(p, s) PROVE TypeOK'
  BY <1>0, <1>4 DEF TypeOK, Replicas, SetMyHealth
<1>5. ASSUME NEW b \in Backups, ReaderStep(b) \/ Receive(b) PROVE TypeOK'
  <2>1. CASE ReadCheckpointHealth(b) \/ GetCheckpointLastModify(b) \/ Receive(b)
    BY <1>0, <2>1 DEF TypeOK, Replicas, ReadCheckpointHealth, GetCheckpointLastModify,
         Receive, TakeTick, Goto
  <2>2. CASE GetCheckpointLastModifyFails(b)
    BY <1>0, <2>2 DEF TypeOK, Replicas, GetCheckpointLastModifyFails, Exit, Return, Goto,
         Interrupt
  <2>3. CASE SetPeerHealth(b)
    BY <1>0, <2>3 DEF TypeOK, Replicas, SetPeerHealth, Judgement, Return, Goto
  <2> QED
    BY <1>5, <2>1, <2>2, <2>3 DEF ReaderStep
<1>6. CASE UNCHANGED hcVars
  BY <1>6 DEF TypeOK, hcVars
<1> QED BY <1>1, <1>2, <1>3, <1>4, <1>5, <1>6 DEF Next

-----------------------------------------------------------------------------
(* Every step but Tick is a step of one replica.                            *)
StepOf(r) ==
  \/ Start(r)
  \/ Crash(r)
  \/ r \in Primaries /\ WriterStep(r)
  \/ r \in Primaries /\ \E s \in {GOOD, BAD} : SetMyHealth(r, s)
  \/ r \in Backups /\ (ReaderStep(r) \/ Receive(r))

(* A step is the passing of time or a step of one replica.                  *)
LEMMA TickOrStep == Next => Tick \/ \E r \in Replicas : StepOf(r)
  BY DEF Next, StepOf, Replicas

(* It leaves the other replicas alone and never makes the blob older.       *)
LEMMA Locality ==
  ASSUME TypeOK, NEW r \in Replicas, StepOf(r)
  PROVE  /\ age' \in {age, 0}
         /\ \A q \in Replicas \ {r} :
              /\ loop'[q] = loop[q] /\ timer'[q] = timer[q] /\ pending'[q] = pending[q]
              /\ callTime'[q] = callTime[q] /\ steady'[q] = steady[q]
              /\ q \in Primaries => myHealth'[q] = myHealth[q]
              /\ q \in Backups => peerHealth'[q] = peerHealth[q] /\ readAge'[q] = readAge[q]
         /\ steady'[r] \in {steady[r], 0}
<1> USE DEF TypeOK, Replicas
<1>1. CASE Start(r)
  BY <1>1 DEF Start, Fresh, Goto
<1>2. CASE Crash(r)
  BY <1>2 DEF Crash, Fresh, Goto, Interrupt
<1>3. CASE WriteCheckpointHealth(r)
  BY <1>3 DEF WriteCheckpointHealth, TakeTick, Goto
<1>4. CASE SetCheckpoint(r) \/ SetCheckpointReturns(r)
  BY <1>4 DEF SetCheckpoint, SetCheckpointReturns, Return, Goto
<1>5. CASE SetCheckpointFails(r)
  BY <1>5 DEF SetCheckpointFails, Exit, Return, Goto, Interrupt
<1>6. CASE r \in Primaries /\ \E s \in {GOOD, BAD} : SetMyHealth(r, s)
  BY <1>6 DEF SetMyHealth
<1>7. CASE ReadCheckpointHealth(r) \/ GetCheckpointLastModify(r) \/ Receive(r)
  BY <1>7 DEF ReadCheckpointHealth, GetCheckpointLastModify, Receive, TakeTick, Goto
<1>8. CASE GetCheckpointLastModifyFails(r)
  BY <1>8 DEF GetCheckpointLastModifyFails, Exit, Return, Goto, Interrupt
<1>9. CASE SetPeerHealth(r)
  BY <1>9 DEF SetPeerHealth, Return, Goto
<1> QED
  BY <1>1, <1>2, <1>3, <1>4, <1>5, <1>6, <1>7, <1>8, <1>9
  DEF StepOf, WriterStep, ReaderStep

-----------------------------------------------------------------------------
(* At first no replica is anywhere a replica of the other role would be.    *)
LEMMA RolesInit == Init => RolesOK
  BY DEF Init, RolesOK, Stopped, InCall, Replicas, Ok

(* Time does not move a loop.                                               *)
LEMMA RolesTick == TypeOK /\ RolesOK /\ Tick => RolesOK'
<1> SUFFICES ASSUME TypeOK, RolesOK, Tick PROVE RolesOK'
  OBVIOUS
<1>1. loop' = loop /\ myHealth' = myHealth
  BY DEF Tick
<1>2. \A r \in Replicas : steady'[r] > 0 => Ok(r)'
  BY <1>1 DEF Tick, Ok
<1>3. \A r \in Replicas : loop[r] \notin InCall => callTime'[r] = 0
  BY DEF Tick
<1> QED
  BY <1>1, <1>2, <1>3 DEF RolesOK

(* What the step of a replica does to that replica's own loop.              *)
LEMMA RolesOfActor ==
  ASSUME TypeOK, RolesOK, NEW r \in Replicas, StepOf(r)
  PROVE  /\ r \in Primaries => loop'[r] \in Stopped \cup {"select", "write", "written"}
         /\ r \in Backups => loop'[r] \in Stopped \cup {"select", "read", "judge", "send"}
         /\ steady'[r] > 0 => Ok(r)'
         /\ loop'[r] \notin InCall => callTime'[r] = 0
<1> USE ReplicasDisjoint DEF TypeOK, RolesOK, Replicas, Ok, Stopped, InCall
<1>1. CASE Start(r)
  BY <1>1 DEF Start, Fresh, Goto, Ages
<1>2. CASE Crash(r)
  BY <1>2 DEF Crash, Fresh, Goto, Interrupt
<1>3. CASE r \in Primaries /\ WriteCheckpointHealth(r)
  BY <1>3 DEF WriteCheckpointHealth, TakeTick, Goto
<1>4. CASE r \in Primaries /\ (SetCheckpoint(r) \/ SetCheckpointReturns(r))
  BY <1>4 DEF SetCheckpoint, SetCheckpointReturns, Return, Goto
<1>5. CASE r \in Primaries /\ SetCheckpointFails(r)
  BY <1>5 DEF SetCheckpointFails, Exit, Return, Goto, Interrupt
<1>6. CASE r \in Primaries /\ \E s \in {GOOD, BAD} : SetMyHealth(r, s)
  BY <1>6 DEF SetMyHealth
<1>7. CASE r \in Backups /\ (ReadCheckpointHealth(r) \/ GetCheckpointLastModify(r) \/ Receive(r))
  BY <1>7 DEF ReadCheckpointHealth, GetCheckpointLastModify, Receive, TakeTick, Goto
<1>8. CASE r \in Backups /\ GetCheckpointLastModifyFails(r)
  BY <1>8 DEF GetCheckpointLastModifyFails, Exit, Return, Goto, Interrupt
<1>9. CASE r \in Backups /\ SetPeerHealth(r)
  BY <1>9 DEF SetPeerHealth, Return, Goto
<1> QED
  BY <1>1, <1>2, <1>3, <1>4, <1>5, <1>6, <1>7, <1>8, <1>9
  DEF StepOf, WriterStep, ReaderStep

(* Primaries only write, backups only read, whatever steps (health.go:207,  *)
(* 226).                                                                    *)
LEMMA RolesStep ==
  ASSUME TypeOK, RolesOK, NEW r \in Replicas, StepOf(r)
  PROVE  RolesOK'
<1>1. \A q \in Replicas \ {r} : Ok(q)' = Ok(q)
  BY Locality DEF Ok
<1>2. \A q \in Replicas \ {r} : loop'[q] = loop[q] /\ callTime'[q] = callTime[q] /\ steady'[q] = steady[q]
  BY Locality
<1>3. \A p \in Primaries : loop'[p] \in Stopped \cup {"select", "write", "written"}
  BY <1>2, RolesOfActor DEF RolesOK, Replicas
<1>4. \A b \in Backups : loop'[b] \in Stopped \cup {"select", "read", "judge", "send"}
  BY <1>2, RolesOfActor DEF RolesOK, Replicas
<1>5. \A q \in Replicas : steady'[q] > 0 => Ok(q)'
  BY <1>1, <1>2, RolesOfActor DEF RolesOK
<1>6. \A q \in Replicas : loop'[q] \notin InCall => callTime'[q] = 0
  BY <1>2, RolesOfActor DEF RolesOK
<1> QED
  BY <1>3, <1>4, <1>5, <1>6 DEF RolesOK

-----------------------------------------------------------------------------
(* At first no primary has been steady for any time.                        *)
LEMMA WriterInit == Init => \A p \in Primaries : WriterInv(p)
  BY DEF Init, WriterInv, OnTheTick, Heartbeat, Replicas

(* One tick later a primary's heartbeat is due one tick sooner.              *)
LEMMA WriterTick ==
  ASSUME TypeOK, RolesOK, NEW p \in Primaries, WriterInv(p), Tick
  PROVE  WriterInv(p)'
<1> DEFINE fires == loop[p] \notin Stopped /\ timer[p] + 1 = Interval
<1>1. /\ timer[p] \in 0 .. Interval - 1 /\ callTime[p] \in 0 .. CallTime
      /\ age \in Ages /\ steady[p] \in Ages /\ pending[p] \in BOOLEAN
  BY DEF TypeOK, Replicas
<1>2. /\ loop'[p] = loop[p]
      /\ ~(loop[p] = "select" /\ pending[p])
      /\ loop[p] \in InCall => callTime[p] < CallTime /\ callTime'[p] = callTime[p] + 1
      /\ timer'[p] = IF loop[p] \in Stopped \/ timer[p] + 1 = Interval THEN 0 ELSE timer[p] + 1
      /\ pending'[p] = (loop[p] \notin Stopped /\ (pending[p] \/ timer[p] + 1 = Interval))
      /\ steady'[p] = IF Ok(p) THEN Older(steady[p]) ELSE 0
  BY DEF Tick, TypeOK, Replicas
<1>3. age' \in Ages /\ age' <= age + 1 /\ steady'[p] \in Ages /\ steady'[p] <= steady[p] + 1
  <2>1. age' = Older(age) /\ 0 \in Ages
    BY TimesAreNat DEF Tick, Ages, Cap
  <2> QED
    BY <1>1, <1>2, <2>1, OlderIsAge, TimesAreNat DEF Ages, Cap
<1>4. OnTheTick(p)'
  <2>1. loop[p] \in Stopped \cup {"select", "write", "written"}
    BY DEF RolesOK
  <2> QED
    BY <1>1, <1>2, <2>1, CallsAreShort, TimesAreNat
    DEF WriterInv, OnTheTick, InCall, Stopped
<1>5. CASE loop[p] \in {"write", "written"}
  <2>1. timer'[p] = timer[p] + 1 /\ loop'[p] = loop[p]
    BY <1>1, <1>2, <1>5, CallsAreShort, TimesAreNat DEF WriterInv, OnTheTick, InCall, Stopped
  <2>2. Heartbeat(p)'
    BY <1>1, <1>3, <1>5, <2>1, TimesAreNat DEF WriterInv, Heartbeat, Ages, Cap
  <2> QED
    BY <1>4, <2>2 DEF WriterInv
<1>6. CASE loop[p] = "select"
  <2>1. loop'[p] = "select" /\ ~pending[p] /\ (steady[p] > timer[p] => age <= timer[p])
    BY <1>1, <1>2, <1>6 DEF WriterInv, Heartbeat
  <2>2. CASE timer[p] + 1 = Interval
    <3>1. pending'[p]
      BY <1>2, <1>6, <2>2 DEF Stopped
    <3>2. steady'[p] > Interval => age' <= Interval
      BY <1>1, <1>3, <2>1, <2>2, TimesAreNat DEF Ages, Cap
    <3> QED
      BY <1>4, <2>1, <3>1, <3>2 DEF WriterInv, Heartbeat
  <2>3. CASE timer[p] + 1 # Interval
    <3>1. timer'[p] = timer[p] + 1 /\ ~pending'[p]
      BY <1>1, <1>2, <1>6, <2>1, <2>3 DEF Stopped
    <3>2. steady'[p] > timer'[p] => age' <= timer'[p]
      BY <1>1, <1>3, <2>1, <3>1, TimesAreNat DEF Ages, Cap
    <3> QED
      BY <1>4, <2>1, <3>1, <3>2 DEF WriterInv, Heartbeat
  <2> QED
    BY <2>2, <2>3
<1>7. CASE loop[p] \notin {"select", "write", "written"}
  BY <1>2, <1>4, <1>7 DEF WriterInv, Heartbeat
<1> QED
  BY <1>5, <1>6, <1>7

(* A primary writes on its tick and within the time of a call, or is not    *)
(* steady any more (health.go:208-261).                                     *)
LEMMA WriterStepOf ==
  ASSUME TypeOK, RolesOK, NEW p \in Primaries, WriterInv(p), NEW r \in Replicas, StepOf(r)
  PROVE  WriterInv(p)'
<1> USE TimesAreNat
<1>1. /\ timer[p] \in 0 .. Interval - 1 /\ callTime[p] \in 0 .. CallTime
      /\ age \in Ages /\ steady[p] \in Ages /\ pending[p] \in BOOLEAN
      /\ p \in Replicas /\ p \notin Backups
  BY ReplicasDisjoint DEF TypeOK, Replicas
<1>2. CASE r # p
  <2>1. /\ loop'[p] = loop[p] /\ timer'[p] = timer[p] /\ pending'[p] = pending[p]
        /\ callTime'[p] = callTime[p] /\ steady'[p] = steady[p] /\ age' \in {age, 0}
    BY <1>1, <1>2, Locality
  <2> QED
    BY <1>1, <2>1 DEF WriterInv, OnTheTick, Heartbeat, Ages, Cap
<1> USE DEF WriterInv, OnTheTick, Heartbeat, TypeOK
<1>3. CASE Start(p)
  <2>1. loop'[p] = "select" /\ timer'[p] = 0 /\ pending'[p] = FALSE /\ steady'[p] = 0
    <3>1. steady[p] = 0
      BY <1>1, <1>3 DEF Start, RolesOK, Ok, Stopped, Ages, Cap
    <3> QED
      BY <1>1, <1>3, <3>1 DEF Start, Fresh, Goto
  <2> QED
    BY <2>1
<1>4. CASE Crash(p)
  BY <1>1, <1>4 DEF Crash, Fresh, Goto
<1>5. CASE WriteCheckpointHealth(p)
  <2>1. /\ pending'[p] = FALSE /\ timer'[p] = 0 /\ callTime'[p] = 0 /\ timer[p] = 0
        /\ age' = age /\ steady' = steady /\ loop[p] = "select" /\ pending[p]
    BY <1>1, <1>5 DEF WriteCheckpointHealth, TakeTick, RolesOK, InCall
  <2>2. CASE myHealth[p] = GOOD
    <3>1. loop'[p] = "write"
      BY <1>1, <1>5, <2>2 DEF WriteCheckpointHealth, TakeTick, Goto
    <3> QED
      BY <1>1, <2>1, <3>1 DEF Ages, Cap
  <2>3. CASE myHealth[p] # GOOD
    <3>1. loop'[p] = "select" /\ steady[p] = 0
      BY <1>1, <1>5, <2>3 DEF WriteCheckpointHealth, Goto, RolesOK, Ok, Ages, Cap
    <3> QED
      BY <1>1, <2>1, <3>1
  <2> QED
    BY <2>2, <2>3
<1>6. CASE SetCheckpoint(p)
  BY <1>1, <1>6 DEF SetCheckpoint, Goto
<1>7. CASE SetCheckpointReturns(p)
  <2>1. /\ loop'[p] = "select" /\ loop[p] = "written" /\ timer'[p] = timer[p]
        /\ pending'[p] = pending[p] /\ age' = age
    BY <1>1, <1>7 DEF SetCheckpointReturns, Return, Goto
  <2> QED
    BY <1>1, <2>1
<1>8. CASE SetCheckpointFails(p)
  BY <1>1, <1>8 DEF SetCheckpointFails, Exit, Return, Goto
<1>9. CASE \E s \in {GOOD, BAD} : SetMyHealth(p, s)
  <2>1. /\ loop' = loop /\ timer' = timer /\ pending' = pending /\ callTime' = callTime
        /\ age' = age /\ steady'[p] \in {steady[p], 0}
    BY <1>1, <1>9 DEF SetMyHealth
  <2> QED
    BY <1>1, <2>1 DEF Ages, Cap
<1> QED
  BY <1>1, <1>2, <1>3, <1>4, <1>5, <1>6, <1>7, <1>8, <1>9 DEF StepOf, WriterStep

(* Wherever it is in its loop, a primary that has been healthy for an       *)
(* interval and a call has written within an interval and a call.           *)
LEMMA SteadyMeansRecent ==
  ASSUME TypeOK, RolesOK, NEW p \in Primaries, WriterInv(p),
         steady[p] > Interval + CallTime
  PROVE  age <= Interval + CallTime
<1>1. /\ timer[p] \in 0 .. Interval - 1 /\ callTime[p] \in 0 .. CallTime
      /\ age \in Ages /\ steady[p] \in Ages /\ pending[p] \in BOOLEAN
  BY DEF TypeOK, Replicas
<1>2. loop[p] \in {"select", "write", "written"}
  BY <1>1, TimesAreNat DEF RolesOK, Ok, Replicas, Ages, Cap
<1> QED
  BY <1>1, <1>2, TimesAreNat DEF WriterInv, OnTheTick, Heartbeat, Ages, Cap

-----------------------------------------------------------------------------
(* At first no backup has been steady for any time.                         *)
LEMMA ReaderInit == Init => \A b \in Backups : ReaderInv(b)
  BY DEF Init, ReaderInv, ReadIsRecent, Detection, Trust, Trusted, Replicas

(* One more tick on both sides keeps what is known of a steady replica.     *)
LEMMA OneTickMore ==
  ASSUME NEW a \in Ages, NEW s \in Ages, NEW limit \in Nat, NEW span \in Nat,
         s > span => a <= limit
  PROVE  Older(s) > span + 1 => Older(a) <= limit + 1
  BY TimesAreNat DEF Ages, Cap, Older

(* What a backup has read stays recent while the call lasts.                *)
LEMMA ReadTick ==
  ASSUME TypeOK, RolesOK, NEW b \in Backups, ReadIsRecent(b), Tick
  PROVE  ReadIsRecent(b)'
<1> SUFFICES ASSUME loop'[b] = "judge" PROVE ReadIsRecent(b)'
  BY DEF ReadIsRecent
<1>1. /\ loop[b] = "judge" /\ callTime[b] \in Nat /\ callTime'[b] = callTime[b] + 1
      /\ readAge[b] \in Ages /\ readAge'[b] = Older(readAge[b])
      /\ age \in Ages /\ age' = Older(age)
  BY TimesAreNat DEF Tick, TypeOK, Replicas, InCall
<1>2. age' <= readAge'[b]
  BY <1>1, TimesAreNat DEF ReadIsRecent, Ages, Cap, Older
<1>3. ASSUME NEW p \in Primaries, steady'[p] > Interval + CallTime + callTime'[b]
      PROVE  readAge'[b] <= Interval + CallTime + callTime'[b]
  <2>1. steady[p] \in Ages /\ steady'[p] = IF Ok(p) THEN Older(steady[p]) ELSE 0
    BY DEF Tick, TypeOK, Replicas
  <2>2. steady'[p] = Older(steady[p])
    BY <1>1, <1>3, <2>1, TimesAreNat
  <2>3. Interval + CallTime + callTime[b] \in Nat
    BY <1>1, TimesAreNat
  <2>4. steady[p] > Interval + CallTime + callTime[b] => readAge[b] <= Interval + CallTime + callTime[b]
    BY <1>1 DEF ReadIsRecent
  <2>5. Older(steady[p]) > (Interval + CallTime + callTime[b]) + 1
          => Older(readAge[b]) <= (Interval + CallTime + callTime[b]) + 1
    BY <1>1, <2>1, <2>3, <2>4, OneTickMore
  <2> QED
    BY <1>1, <1>3, <2>2, <2>5, TimesAreNat
<1> QED
  BY <1>2, <1>3 DEF ReadIsRecent

(* A backup's read is as recent as the heartbeat it has seen                *)
(* (health.go:263-268).                                                     *)
LEMMA ReadStepOf ==
  ASSUME TypeOK, RolesOK, \A p \in Primaries : WriterInv(p),
         NEW b \in Backups, ReadIsRecent(b), NEW r \in Replicas, StepOf(r)
  PROVE  ReadIsRecent(b)'
<1> USE TimesAreNat
<1>1. /\ age \in Ages /\ readAge[b] \in Ages /\ callTime[b] \in Nat
      /\ b \in Replicas /\ b \notin Primaries
      /\ \A p \in Primaries : p \in Replicas /\ steady[p] \in Ages
  BY ReplicasDisjoint DEF TypeOK, Replicas
<1>2. age' \in {age, 0} /\ \A p \in Primaries : steady'[p] \in {steady[p], 0}
  BY <1>1, Locality
<1>3. CASE r # b
  <2>1. loop'[b] = loop[b] /\ callTime'[b] = callTime[b] /\ readAge'[b] = readAge[b]
    BY <1>1, <1>3, Locality
  <2> QED
    BY <1>1, <1>2, <2>1 DEF ReadIsRecent, Ages, Cap
<1>4. CASE GetCheckpointLastModify(b)
  <2>1. readAge'[b] = age /\ age' = age /\ callTime'[b] = callTime[b] /\ steady' = steady
    BY <1>1, <1>4 DEF GetCheckpointLastModify, TypeOK
  <2>2. \A p \in Primaries : steady[p] > Interval + CallTime => age <= Interval + CallTime
    BY SteadyMeansRecent
  <2> QED
    BY <1>1, <2>1, <2>2 DEF ReadIsRecent, Ages, Cap
<1>5. CASE r = b /\ ~GetCheckpointLastModify(b)
  <2>1. loop'[b] # "judge"
    BY <1>1, <1>5 DEF StepOf, Start, Crash, ReaderStep, ReadCheckpointHealth, Receive,
         GetCheckpointLastModifyFails, SetPeerHealth, Exit, Return, Goto, TypeOK
  <2> QED
    BY <2>1 DEF ReadIsRecent
<1> QED
  BY <1>3, <1>4, <1>5

(* One tick later a silent blob is one tick nearer to being noticed.         *)
LEMMA DetectionTick ==
  ASSUME TypeOK, RolesOK, NEW b \in Backups, Detection(b), Tick
  PROVE  Detection(b)'
<1> USE TimesAreNat
<1>1. /\ timer[b] \in 0 .. Interval - 1 /\ callTime[b] \in 0 .. CallTime
      /\ age \in Ages /\ steady[b] \in Ages /\ pending[b] \in BOOLEAN
      /\ age' = Older(age) /\ loop' = loop /\ peerHealth' = peerHealth
      /\ steady'[b] = IF Ok(b) THEN Older(steady[b]) ELSE 0
      /\ ~(loop[b] = "select" /\ pending[b])
      /\ loop[b] \in InCall => callTime[b] < CallTime /\ callTime'[b] = callTime[b] + 1
  BY DEF Tick, TypeOK, Replicas
<1>2. steady'[b] \in {Older(steady[b]), 0}
  BY <1>1
<1>3. ASSUME NEW s \in Nat, s <= Interval + CallTime, Detected(b, s)
      PROVE  steady'[b] > s + 1 /\ age' > PreemptionHoldTime + (s + 1) => peerHealth'[b] = BAD
  BY <1>1, <1>2, <1>3 DEF Detected, Older, Ages, Cap
<1>4. CASE loop[b] = "select"
  <2>1. Detected(b, timer[b])
    BY <1>1, <1>4 DEF Detection
  <2>2. steady'[b] > timer[b] + 1 /\ age' > PreemptionHoldTime + (timer[b] + 1) => peerHealth'[b] = BAD
    BY <1>1, <1>3, <2>1
  <2>3. CASE timer[b] + 1 = Interval
    <3>1. pending'[b]
      BY <1>4, <2>3 DEF Tick, Stopped, Replicas
    <3> QED
      BY <1>1, <1>4, <2>2, <2>3, <3>1 DEF Detection, Detected
  <2>4. CASE timer[b] + 1 # Interval
    <3>1. timer'[b] = timer[b] + 1 /\ ~pending'[b]
      BY <1>1, <1>4, <2>4 DEF Tick, Stopped, Replicas
    <3> QED
      BY <1>1, <1>4, <2>2, <3>1 DEF Detection, Detected
  <2> QED
    BY <2>3, <2>4
<1>5. CASE loop[b] \in {"read", "judge"}
  <2>1. Detected(b, Interval + callTime[b])
    BY <1>5 DEF Detection
  <2>2. callTime'[b] = callTime[b] + 1 /\ Interval + callTime[b] \in Nat
        /\ Interval + callTime[b] <= Interval + CallTime
    BY <1>1, <1>5 DEF InCall
  <2>3. steady'[b] > (Interval + callTime[b]) + 1
          /\ age' > PreemptionHoldTime + ((Interval + callTime[b]) + 1) => peerHealth'[b] = BAD
    BY <1>3, <2>1, <2>2
  <2>4. (Interval + callTime[b]) + 1 = Interval + callTime'[b]
    BY <1>1, <2>2
  <2> QED
    BY <1>1, <1>5, <2>3, <2>4 DEF Detection, Detected
<1>6. CASE loop[b] \notin {"select", "read", "judge"}
  BY <1>1, <1>6 DEF Detection
<1> QED
  BY <1>4, <1>5, <1>6

(* A read that finds the blob too old declares the peers dead               *)
(* (health.go:269-277).                                                     *)
LEMMA DetectionStepOf ==
  ASSUME TypeOK, RolesOK, NEW b \in Backups, ReadIsRecent(b), Detection(b),
         NEW r \in Replicas, StepOf(r)
  PROVE  Detection(b)'
<1> USE TimesAreNat
<1>1. /\ timer[b] \in 0 .. Interval - 1 /\ callTime[b] \in 0 .. CallTime
      /\ age \in Ages /\ steady[b] \in Ages /\ pending[b] \in BOOLEAN /\ readAge[b] \in Ages
      /\ b \in Replicas /\ b \notin Primaries
  BY ReplicasDisjoint DEF TypeOK, Replicas
<1>2. age' \in {age, 0}
  BY Locality
<1>3. CASE r # b
  <2>1. /\ loop'[b] = loop[b] /\ timer'[b] = timer[b] /\ pending'[b] = pending[b]
        /\ callTime'[b] = callTime[b] /\ steady'[b] = steady[b] /\ peerHealth'[b] = peerHealth[b]
    BY <1>1, <1>3, Locality
  <2> QED
    BY <1>1, <1>2, <2>1 DEF Detection, Detected, Ages, Cap
<1>4. CASE Start(b)
  <2>1. steady'[b] = 0
    BY <1>1, <1>4 DEF Start, RolesOK, Ok, Stopped, Ages, Cap
  <2> QED
    BY <1>1, <2>1, <1>4 DEF Detection, Detected, Start, Fresh, Goto, TypeOK
<1>5. CASE Crash(b) \/ GetCheckpointLastModifyFails(b)
  <2>1. loop'[b] \in Stopped
    BY <1>1, <1>5 DEF Crash, GetCheckpointLastModifyFails, Exit, Return, Goto, TypeOK, Stopped
  <2> QED
    BY <2>1 DEF Detection, Stopped
<1>6. CASE ReadCheckpointHealth(b)
  <2>1. /\ loop[b] = "select" /\ pending[b] /\ loop'[b] = "read" /\ callTime'[b] = 0
        /\ age' = age /\ steady' = steady /\ peerHealth' = peerHealth
    BY <1>1, <1>6 DEF ReadCheckpointHealth, TakeTick, Goto, RolesOK, InCall, TypeOK
  <2> QED
    BY <1>1, <2>1 DEF Detection, Detected
<1>7. CASE GetCheckpointLastModify(b)
  <2>1. /\ loop[b] = "read" /\ loop'[b] = "judge" /\ callTime' = callTime
        /\ age' = age /\ steady' = steady /\ peerHealth' = peerHealth
    BY <1>1, <1>7 DEF GetCheckpointLastModify, Goto, TypeOK
  <2> QED
    BY <1>1, <2>1 DEF Detection, Detected
<1>8. CASE SetPeerHealth(b)
  <2>1. peerHealth'[b] = BAD \/ readAge[b] <= PreemptionHoldTime
    BY <1>1, <1>8 DEF SetPeerHealth, Judgement, TypeOK, Ages, Cap
  <2>2. age' = age /\ age <= readAge[b]
    BY <1>8 DEF SetPeerHealth, ReadIsRecent
  <2>3. timer'[b] \in Nat /\ callTime'[b] \in Nat
    BY <1>1, <1>8 DEF SetPeerHealth, Return, TypeOK
  <2> QED
    BY <1>1, <2>1, <2>2, <2>3 DEF Detection, Detected, Ages, Cap
<1>9. CASE Receive(b)
  <2>1. steady'[b] = 0
    BY <1>1, <1>9 DEF Receive, RolesOK, Ok, Ages, Cap
  <2>2. loop'[b] = "select" /\ timer'[b] \in Nat
    BY <1>1, <1>9 DEF Receive, Goto, TypeOK
  <2> QED
    BY <2>1, <2>2 DEF Detection, Detected
<1> QED
  BY <1>1, <1>3, <1>4, <1>5, <1>6, <1>7, <1>8, <1>9 DEF StepOf, ReaderStep

(* One tick later a living primary is one tick nearer to being trusted.      *)
LEMMA TrustTick ==
  ASSUME TypeOK, RolesOK, NEW b \in Backups, Trust(b), Tick
  PROVE  Trust(b)'
<1> USE TimesAreNat
<1>1. /\ timer[b] \in 0 .. Interval - 1 /\ callTime[b] \in 0 .. CallTime
      /\ steady[b] \in Ages /\ pending[b] \in BOOLEAN
      /\ loop' = loop /\ peerHealth' = peerHealth
      /\ steady'[b] = IF Ok(b) THEN Older(steady[b]) ELSE 0
      /\ ~(loop[b] = "select" /\ pending[b])
      /\ loop[b] \in InCall => callTime[b] < CallTime /\ callTime'[b] = callTime[b] + 1
  BY DEF Tick, TypeOK, Replicas
<1>2. \A p \in Primaries : steady[p] \in Ages /\ steady'[p] \in {Older(steady[p]), 0}
  BY DEF Tick, TypeOK, Replicas
<1>3. ASSUME NEW s \in Nat, Trusted(b, s), HoldIsLongEnough, steady'[b] > s + 1,
             NEW p \in Primaries, steady'[p] > Interval + 2 * CallTime + (s + 1)
      PROVE  peerHealth'[b] = GOOD
  <2>1. steady[b] > s
    BY <1>1, <1>3 DEF Older, Ages, Cap
  <2>2. steady[p] > Interval + 2 * CallTime + s
    BY <1>2, <1>3 DEF Older, Ages, Cap
  <2> QED
    BY <1>1, <1>3, <2>1, <2>2 DEF Trusted
<1>4. CASE loop[b] = "select"
  <2>1. Trusted(b, timer[b])
    BY <1>1, <1>4 DEF Trust
  <2>2. CASE timer[b] + 1 = Interval
    <3>1. pending'[b]
      BY <1>4, <2>2 DEF Tick, Stopped, Replicas
    <3> QED
      BY <1>1, <1>3, <1>4, <2>1, <2>2, <3>1 DEF Trust, Trusted, HoldIsLongEnough
  <2>3. CASE timer[b] + 1 # Interval
    <3>1. timer'[b] = timer[b] + 1 /\ ~pending'[b]
      BY <1>1, <1>4, <2>3 DEF Tick, Stopped, Replicas
    <3> QED
      BY <1>1, <1>3, <1>4, <2>1, <3>1 DEF Trust, Trusted, HoldIsLongEnough
  <2> QED
    BY <2>2, <2>3
<1>5. CASE loop[b] \in {"read", "judge"}
  <2>1. Trusted(b, Interval + callTime[b]) /\ Interval + callTime[b] \in Nat
    BY <1>1, <1>5 DEF Trust
  <2>2. Interval + callTime'[b] = (Interval + callTime[b]) + 1
    BY <1>1, <1>5 DEF InCall
  <2> QED
    BY <1>1, <1>3, <1>5, <2>1, <2>2 DEF Trust, Trusted, HoldIsLongEnough
<1>6. CASE loop[b] \notin {"select", "read", "judge"}
  BY <1>1, <1>6 DEF Trust
<1> QED
  BY <1>4, <1>5, <1>6

(* A read that finds a recent heartbeat declares the peers alive            *)
(* (health.go:280).                                                         *)
LEMMA TrustStepOf ==
  ASSUME TypeOK, RolesOK, NEW b \in Backups, ReadIsRecent(b), Trust(b),
         NEW r \in Replicas, StepOf(r)
  PROVE  Trust(b)'
<1> USE TimesAreNat
<1>1. /\ timer[b] \in 0 .. Interval - 1 /\ callTime[b] \in 0 .. CallTime
      /\ steady[b] \in Ages /\ pending[b] \in BOOLEAN /\ readAge[b] \in Ages
      /\ b \in Replicas /\ b \notin Primaries
      /\ HoldIsLongEnough' = HoldIsLongEnough
  BY ReplicasDisjoint DEF TypeOK, Replicas, HoldIsLongEnough
<1>2. \A p \in Primaries : steady[p] \in Ages /\ steady'[p] \in {steady[p], 0}
  BY Locality DEF TypeOK, Replicas
<1>3. CASE r # b
  <2>1. /\ loop'[b] = loop[b] /\ timer'[b] = timer[b] /\ pending'[b] = pending[b]
        /\ callTime'[b] = callTime[b] /\ steady'[b] = steady[b] /\ peerHealth'[b] = peerHealth[b]
    BY <1>1, <1>3, Locality
  <2>2. ASSUME NEW s \in Nat, Trusted(b, s), HoldIsLongEnough, steady'[b] > s,
               NEW p \in Primaries, steady'[p] > Interval + 2 * CallTime + s
        PROVE  peerHealth'[b] = GOOD
    BY <1>2, <2>1, <2>2 DEF Trusted, Ages, Cap
  <2>3. timer[b] \in Nat /\ Interval \in Nat /\ Interval + callTime[b] \in Nat
    BY <1>1
  <2> QED
    BY <1>1, <2>1, <2>2, <2>3 DEF Trust, Trusted
<1>4. CASE Start(b)
  <2>1. steady'[b] = 0
    BY <1>1, <1>4 DEF Start, RolesOK, Ok, Stopped, Ages, Cap
  <2> QED
    BY <1>1, <2>1, <1>4 DEF Trust, Trusted, Start, Fresh, Goto, TypeOK
<1>5. CASE Crash(b) \/ GetCheckpointLastModifyFails(b)
  <2>1. loop'[b] \in Stopped
    BY <1>1, <1>5 DEF Crash, GetCheckpointLastModifyFails, Exit, Return, Goto, TypeOK, Stopped
  <2> QED
    BY <2>1 DEF Trust, Stopped
<1>6. CASE ReadCheckpointHealth(b)
  <2>1. /\ loop[b] = "select" /\ pending[b] /\ loop'[b] = "read" /\ callTime'[b] = 0
        /\ steady' = steady /\ peerHealth' = peerHealth
    BY <1>1, <1>6 DEF ReadCheckpointHealth, TakeTick, Goto, RolesOK, InCall, TypeOK
  <2>2. Interval + callTime'[b] = Interval
    BY <2>1
  <2> QED
    BY <1>1, <2>1, <2>2 DEF Trust, Trusted
<1>7. CASE GetCheckpointLastModify(b)
  <2>1. /\ loop[b] = "read" /\ loop'[b] = "judge" /\ callTime' = callTime
        /\ steady' = steady /\ peerHealth' = peerHealth
    BY <1>1, <1>7 DEF GetCheckpointLastModify, Goto, TypeOK
  <2> QED
    BY <1>1, <2>1 DEF Trust, Trusted
<1>8. CASE SetPeerHealth(b)
  <2>1. /\ loop[b] = "judge" /\ loop'[b] \in {"select", "send"} /\ timer' = timer /\ pending' = pending
        /\ peerHealth'[b] = Judgement(b)
    BY <1>1, <1>8 DEF SetPeerHealth, Return, Goto, TypeOK
  <2>2. ASSUME NEW s \in Nat, HoldIsLongEnough,
               NEW p \in Primaries, steady'[p] > Interval + 2 * CallTime + s
        PROVE  peerHealth'[b] = GOOD
    <3>1. steady[p] > Interval + CallTime + callTime[b]
      BY <1>1, <1>2, <2>2 DEF Ages, Cap
    <3>2. readAge[b] <= Interval + CallTime + callTime[b]
      BY <2>1, <3>1 DEF ReadIsRecent
    <3> QED
      BY <1>1, <2>1, <2>2, <3>2 DEF Judgement, HoldIsLongEnough, Ages, Cap
  <2>3. timer[b] \in Nat /\ Interval \in Nat
    BY <1>1
  <2> QED
    BY <1>1, <2>1, <2>2, <2>3 DEF Trust, Trusted
<1>9. CASE Receive(b)
  <2>1. steady'[b] = 0
    BY <1>1, <1>9 DEF Receive, RolesOK, Ok, Ages, Cap
  <2>2. loop'[b] = "select" /\ timer'[b] \in Nat
    BY <1>1, <1>9 DEF Receive, Goto, TypeOK
  <2> QED
    BY <2>1, <2>2 DEF Trust, Trusted
<1> QED
  BY <1>1, <1>3, <1>4, <1>5, <1>6, <1>7, <1>8, <1>9 DEF StepOf, ReaderStep

-----------------------------------------------------------------------------
(* The invariant holds at first.                                            *)
LEMMA InductiveInit == Init => IInv
  BY TypeInit, RolesInit, WriterInit, ReaderInit DEF IInv

(* The invariant is inductive.                                              *)
LEMMA InductiveStep == IInv /\ [Next]_hcVars => IInv'
<1> SUFFICES ASSUME IInv, [Next]_hcVars PROVE IInv'
  OBVIOUS
<1>1. TypeOK'
  BY TypeStep DEF IInv
<1>2. CASE Tick
  <2>1. RolesOK'
    BY <1>2, RolesTick DEF IInv
  <2>2. \A p \in Primaries : WriterInv(p)'
    BY <1>2, WriterTick DEF IInv
  <2>3. \A b \in Backups : ReaderInv(b)'
    BY <1>2, ReadTick, DetectionTick, TrustTick DEF IInv, ReaderInv
  <2> QED
    BY <1>1, <2>1, <2>2, <2>3 DEF IInv
<1>3. ASSUME NEW r \in Replicas, StepOf(r) PROVE IInv'
  <2>1. RolesOK'
    BY <1>3, RolesStep DEF IInv
  <2>2. \A p \in Primaries : WriterInv(p)'
    BY <1>3, WriterStepOf DEF IInv
  <2>3. \A b \in Backups : ReaderInv(b)'
    BY <1>3, ReadStepOf, DetectionStepOf, TrustStepOf DEF IInv, ReaderInv
  <2> QED
    BY <1>1, <2>1, <2>2, <2>3 DEF IInv
<1>4. CASE UNCHANGED hcVars
  BY <1>4 DEF IInv, hcVars, TypeOK, RolesOK, Ok, WriterInv, OnTheTick, Heartbeat,
       ReaderInv, ReadIsRecent, Detection, Detected, Trust, Trusted, HoldIsLongEnough
<1> QED
  BY <1>2, <1>3, <1>4, TickOrStep

(* Deadlines of writers, readers and verdicts hold in every reachable state *)
(* (health.go:201-351).                                                     *)
THEOREM Inductive == Spec => []IInv
  BY InductiveInit, InductiveStep, PTL DEF Spec

(* Every variable of the health loops (health.go:201-246) keeps its type.   *)
THEOREM TypeCorrect == Spec => []TypeOK
<1>1. IInv => TypeOK
  BY DEF IInv
<1> QED
  BY <1>1, Inductive, PTL

(* A blob that stays silent is noticed (health.go:268-277) by every backup  *)
(* whose loop has run for an interval and a call.                           *)
THEOREM SilenceIsDetected == Spec => []DetectsSilence
<1>1. ASSUME IInv, NEW b \in Backups, steady[b] > Interval + CallTime,
             age > PreemptionHoldTime + Interval + CallTime
      PROVE  peerHealth[b] = BAD
  <2>1. /\ timer[b] \in 0 .. Interval - 1 /\ callTime[b] \in 0 .. CallTime
        /\ age \in Ages /\ steady[b] \in Ages /\ pending[b] \in BOOLEAN
        /\ b \notin Primaries
    BY <1>1, ReplicasDisjoint DEF IInv, TypeOK, Replicas
  <2>2. loop[b] \in {"select", "read", "judge"}
    BY <1>1, <2>1, TimesAreNat DEF IInv, RolesOK, Ok, Replicas, Ages, Cap
  <2>3. Detection(b)
    BY <1>1 DEF IInv, ReaderInv
  <2> QED
    BY <1>1, <2>1, <2>2, <2>3, TimesAreNat DEF Detection, Detected, Ages, Cap
<1>2. IInv => DetectsSilence
  BY <1>1 DEF DetectsSilence
<1> QED
  BY <1>2, Inductive, PTL

(* A backup trusts peers that have been healthy for long enough             *)
(* (health.go:263-283).                                                     *)
THEOREM LivingAreTrusted == Spec => []TrustsTheLiving
<1>1. ASSUME IInv, HoldIsLongEnough, NEW b \in Backups, steady[b] > Interval + CallTime,
             NEW p \in Primaries, steady[p] > 2 * Interval + 3 * CallTime
      PROVE  peerHealth[b] = GOOD
  <2>1. /\ timer[b] \in 0 .. Interval - 1 /\ callTime[b] \in 0 .. CallTime
        /\ steady[b] \in Ages /\ steady[p] \in Ages /\ pending[b] \in BOOLEAN
        /\ b \notin Primaries
    BY <1>1, ReplicasDisjoint DEF IInv, TypeOK, Replicas
  <2>2. loop[b] \in {"select", "read", "judge"}
    BY <1>1, <2>1, TimesAreNat DEF IInv, RolesOK, Ok, Replicas, Ages, Cap
  <2>3. Trust(b)
    BY <1>1 DEF IInv, ReaderInv
  <2> QED
    BY <1>1, <2>1, <2>2, <2>3, TimesAreNat DEF Trust, Trusted, Ages, Cap
<1>2. IInv => TrustsTheLiving
  BY <1>1 DEF TrustsTheLiving
<1> QED
  BY <1>2, Inductive, PTL

(* With a long enough hold time no backup declares its peers dead           *)
(* (health.go:275) while a primary has been alive and healthy.              *)
THEOREM TakeoverIsNeverFalse == Spec => NoFalseTakeover
<1>1. ASSUME IInv, [Next]_hcVars, HoldIsLongEnough, NEW b \in Backups,
             peerHealth[b] = GOOD, peerHealth'[b] = BAD, NEW p \in Primaries
      PROVE  steady[p] <= Interval + 2 * CallTime
  <2>1. TypeOK /\ ReadIsRecent(b)
    BY <1>1 DEF IInv, ReaderInv
  <2>2. SetPeerHealth(b)
    <3>1. ~Tick /\ ~UNCHANGED hcVars
      BY <1>1 DEF Tick, hcVars, GOOD, BAD
    <3>2. PICK r \in Replicas : StepOf(r)
      BY <1>1, <3>1, TickOrStep
    <3>3. r = b
      BY <1>1, <2>1, <3>2, Locality DEF Replicas, GOOD, BAD
    <3> QED
      BY <1>1, <2>1, <3>2, <3>3, ReplicasDisjoint
      DEF StepOf, Start, Crash, Fresh, ReaderStep, ReadCheckpointHealth, Receive,
          GetCheckpointLastModify, GetCheckpointLastModifyFails, TypeOK, GOOD, BAD
  <2>3. loop[b] = "judge" /\ readAge[b] + ClockSkew > PreemptionHoldTime
    BY <1>1, <2>1, <2>2 DEF SetPeerHealth, Judgement, TypeOK, GOOD, BAD
  <2>4. callTime[b] \in 0 .. CallTime /\ readAge[b] \in Ages /\ steady[p] \in Ages
    BY <2>1 DEF TypeOK, Replicas
  <2> QED
    BY <1>1, <2>1, <2>3, <2>4, TimesAreNat DEF ReadIsRecent, HoldIsLongEnough, Ages, Cap
<1>2. IInv /\ [Next]_hcVars =>
        [ HoldIsLongEnough =>
            \A b \in Backups :
              peerHealth[b] = GOOD /\ peerHealth'[b] = BAD
                => \A p \in Primaries : steady[p] <= Interval + 2 * CallTime ]_hcVars
  BY <1>1
<1> QED
  BY <1>2, Inductive, PTL DEF Spec, NoFalseTakeover
=============================================================================
