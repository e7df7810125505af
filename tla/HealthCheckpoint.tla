-------------------------- MODULE HealthCheckpoint --------------------------
(***************************************************************************)
(* The heartbeat between the two roles (tasks/health/health.go and         *)
(* tasks/health/store/store.go).  Every replica runs one health loop: a    *)
(* primary whose own health is GOOD touches the blob "checkpoint/latest"   *)
(* once per interval; a backup (role "Secondary") reads the blob's         *)
(* LastModified once per interval and decides whether its peers are alive. *)
(* All primaries share the one blob, so a heartbeat of any of them counts. *)
(*                                                                         *)
(* Time is discrete.  Instead of a clock the module keeps AGES: how many   *)
(* ticks ago the blob was touched, and the age by now of the LastModified  *)
(* a backup holds.  The code only compares ages with PreemptionHoldTime,   *)
(* so ages saturate at Cap and no bound on the length of a run is needed.  *)
(***************************************************************************)
EXTENDS Integers

CONSTANTS
  Primaries,          \* replicas with config.Monitor.Role = "Primary"
  Backups,            \* replicas with any other role
  Interval,           \* config.Health.Interval, in ticks
  PreemptionHoldTime, \* config.Health.PreemptionHoldTime, in ticks
  CallTime,           \* longest time one blob call takes, in ticks
  ClockSkew,          \* how far a backup's clock is ahead of the blob store's
  Faults              \* which faults the environment may inject

FaultKinds == {"crash", "write", "read", "publish", "create", "consumer", "close"}

ASSUME ReplicasDisjoint == Primaries \cap Backups = {}
ASSUME TimesAreNat ==
  /\ Interval \in Nat \ {0}
  /\ PreemptionHoldTime \in Nat
  /\ CallTime \in Nat
  /\ ClockSkew \in Nat
ASSUME FaultsOK == Faults \subseteq FaultKinds

(***************************************************************************)
(* A blob call that starts on a timer tick ends before the next tick.      *)
(***************************************************************************)
ASSUME CallsAreShort == CallTime < Interval

Replicas == Primaries \cup Backups

GOOD == "Good"
BAD  == "Bad"

VARIABLES
  age,         \* ticks since LastModified; Cap also stands for "no blob"
  loop,        \* where the health goroutine of a replica is
  timer,       \* ticks since the time.Ticker last fired
  pending,     \* the ticker's one-slot channel holds a tick
  callTime,    \* ticks the blob call in progress has taken
  myHealth,    \* Task.myHealth of the primaries
  peerHealth,  \* Task.peerHealth of the backups
  readAge,     \* age, by now, of the LastModified a backup has read
  steady       \* history: ticks a replica has been Ok without interruption

hcVars == <<age, loop, timer, pending, callTime, myHealth, peerHealth,
            readAge, steady>>

-----------------------------------------------------------------------------
Cap == PreemptionHoldTime + Interval + CallTime + 1
Ages == 0 .. Cap
Older(a) == IF a < Cap THEN a + 1 ELSE Cap

InCall  == {"write", "written", "read", "judge"}
Stopped == {"down", "exited"}
Loops   == InCall \cup Stopped \cup {"select", "send"}

(* A primary is Ok while its loop runs and it considers itself healthy, a  *)
(* backup while its loop runs and is not blocked on the health channel.    *)
Ok(r) ==
  /\ loop[r] \notin Stopped
  /\ r \in Primaries => myHealth[r] = GOOD
  /\ r \in Backups => loop[r] # "send"

Interrupt(r) == steady' = [steady EXCEPT ![r] = 0]

Goto(r, l) == loop' = [loop EXCEPT ![r] = l]

TypeOK ==
  /\ age \in Ages
  /\ loop \in [Replicas -> Loops]
  /\ timer \in [Replicas -> 0 .. Interval - 1]
  /\ pending \in [Replicas -> BOOLEAN]
  /\ callTime \in [Replicas -> 0 .. CallTime]
  /\ myHealth \in [Primaries -> {GOOD, BAD}]
  /\ peerHealth \in [Backups -> {GOOD, BAD}]
  /\ readAge \in [Backups -> Ages]
  /\ steady \in [Replicas -> Ages]

(* Nothing runs yet; the blob may be missing or left by an earlier run.    *)
Init ==
  /\ age \in Ages
  /\ loop = [r \in Replicas |-> "down"]
  /\ timer = [r \in Replicas |-> 0]
  /\ pending = [r \in Replicas |-> FALSE]
  /\ callTime = [r \in Replicas |-> 0]
  /\ myHealth = [p \in Primaries |-> GOOD]
  /\ peerHealth = [b \in Backups |-> GOOD]
  /\ readAge = [b \in Backups |-> 0]
  /\ steady = [r \in Replicas |-> 0]

-----------------------------------------------------------------------------
(* The health state a replica is constructed with, and loses when it dies. *)
Fresh(r) ==
  /\ timer' = [timer EXCEPT ![r] = 0]
  /\ pending' = [pending EXCEPT ![r] = FALSE]
  /\ callTime' = [callTime EXCEPT ![r] = 0]
  /\ myHealth' = [p \in Primaries |-> IF p = r THEN GOOD ELSE myHealth[p]]
  /\ peerHealth' = [b \in Backups |-> IF b = r THEN GOOD ELSE peerHealth[b]]
  /\ readAge' = [b \in Backups |-> IF b = r THEN 0 ELSE readAge[b]]

Start(r) ==
  /\ loop[r] = "down"
  /\ Goto(r, "select")
  /\ Fresh(r)
  /\ UNCHANGED <<age, steady>>

Crash(r) ==
  /\ "crash" \in Faults
  /\ loop[r] # "down"
  /\ Goto(r, "down")
  /\ Fresh(r)
  /\ Interrupt(r)
  /\ UNCHANGED age

(* One tick passes.  A pending timer tick is taken at once and a blob call *)
(* takes at most CallTime ticks: both are assumptions about scheduling and *)
(* the blob store, stated here as guards on the passing of time.           *)
Tick ==
  /\ \A r \in Replicas :
       /\ ~(loop[r] = "select" /\ pending[r])
       /\ loop[r] \in InCall => callTime[r] < CallTime
  /\ age' = Older(age)
  /\ timer' = [r \in Replicas |->
       IF loop[r] \in Stopped \/ timer[r] + 1 = Interval THEN 0 ELSE timer[r] + 1]
  /\ pending' = [r \in Replicas |->
       loop[r] \notin Stopped /\ (pending[r] \/ timer[r] + 1 = Interval)]
  /\ callTime' = [r \in Replicas |->
       IF loop[r] \in InCall THEN callTime[r] + 1 ELSE 0]
  /\ readAge' = [b \in Backups |-> IF loop[b] = "judge" THEN Older(readAge[b]) ELSE 0]
  /\ UNCHANGED <<loop, myHealth, peerHealth>>
  /\ steady' = [r \in Replicas |-> IF Ok(r) THEN Older(steady[r]) ELSE 0]

(* Taking a timer tick out of the ticker's channel. *)
TakeTick(r) ==
  /\ loop[r] = "select"
  /\ pending[r]
  /\ pending' = [pending EXCEPT ![r] = FALSE]

Return(r, l) ==
  /\ Goto(r, l)
  /\ callTime' = [callTime EXCEPT ![r] = 0]

(* A loop that returns on an error ends for good: nobody restarts it.      *)
Exit(r) ==
  /\ Return(r, "exited")
  /\ timer' = [timer EXCEPT ![r] = 0]
  /\ pending' = [pending EXCEPT ![r] = FALSE]

WriteCheckpointHealth(p) ==
  /\ TakeTick(p)
  /\ Goto(p, IF myHealth[p] = GOOD THEN "write" ELSE "select")
  /\ UNCHANGED <<age, timer, callTime, myHealth, peerHealth, readAge, steady>>

(* The store applies SetMetadata, or Upload when there is no blob yet.     *)
SetCheckpoint(p) ==
  /\ loop[p] = "write"
  /\ Goto(p, "written")
  /\ age' = 0
  /\ UNCHANGED <<timer, pending, callTime, myHealth, peerHealth, readAge, steady>>

SetCheckpointReturns(p) ==
  /\ loop[p] = "written"
  /\ Return(p, "select")
  /\ UNCHANGED <<age, timer, pending, myHealth, peerHealth, readAge, steady>>

(* The call fails, whether or not the store had applied it.                *)
SetCheckpointFails(p) ==
  /\ "write" \in Faults
  /\ loop[p] \in {"write", "written"}
  /\ Exit(p)
  /\ Interrupt(p)
  /\ UNCHANGED <<age, myHealth, peerHealth, readAge>>

ReadCheckpointHealth(b) ==
  /\ TakeTick(b)
  /\ Goto(b, "read")
  /\ UNCHANGED <<age, timer, callTime, myHealth, peerHealth, readAge, steady>>

GetCheckpointLastModify(b) ==
  /\ loop[b] = "read"
  /\ Goto(b, "judge")
  /\ readAge' = [readAge EXCEPT ![b] = age]
  /\ UNCHANGED <<age, timer, pending, callTime, myHealth, peerHealth, steady>>

GetCheckpointLastModifyFails(b) ==
  /\ "read" \in Faults
  /\ loop[b] = "read"
  /\ Exit(b)
  /\ Interrupt(b)
  /\ UNCHANGED <<age, myHealth, peerHealth, readAge>>

(* Mutants of Judgement: the healthy case left unset, a blob that was never  *)
(* written taken for a fresh one, the interval in place of the hold time,   *)
(* and a verdict that is never taken back.                                  *)
JudgementUnset(b) ==
  IF readAge[b] + ClockSkew > PreemptionHoldTime THEN BAD ELSE ""

JudgementMissingIsGood(b) ==
  IF readAge[b] \in PreemptionHoldTime - ClockSkew + 1 .. Cap - 1 THEN BAD ELSE GOOD

JudgementByInterval(b) == IF readAge[b] + ClockSkew > Interval THEN BAD ELSE GOOD

JudgementLatched(b) ==
  IF peerHealth[b] = BAD \/ readAge[b] + ClockSkew > PreemptionHoldTime
  THEN BAD ELSE GOOD

Judgement(b) == IF readAge[b] + ClockSkew > PreemptionHoldTime THEN BAD ELSE GOOD

(* Mutant of SetPeerHealth: every verdict is sent, not only a change.        *)
SetPeerHealthAlwaysSends(b) ==
  /\ loop[b] = "judge"
  /\ Return(b, "send")
  /\ peerHealth' = [peerHealth EXCEPT ![b] = Judgement(b)]
  /\ readAge' = [readAge EXCEPT ![b] = 0]
  /\ Interrupt(b)
  /\ UNCHANGED <<age, timer, pending, myHealth>>

(* Mutant of SetPeerHealth: a change is sent only if the monitor is ready.   *)
SetPeerHealthNonBlocking(b) ==
  /\ loop[b] = "judge"
  /\ \E l \in {"select", "send"} :
       Return(b, IF peerHealth[b] = Judgement(b) THEN "select" ELSE l)
  /\ peerHealth' = [peerHealth EXCEPT ![b] = Judgement(b)]
  /\ readAge' = [readAge EXCEPT ![b] = 0]
  /\ Interrupt(b)
  /\ UNCHANGED <<age, timer, pending, myHealth>>

(* The blob call has returned: time.Now() is compared with the LastModified *)
(* it brought, and a change of peerHealth is sent on the health channel.    *)
SetPeerHealth(b) ==
  /\ loop[b] = "judge"
  /\ Return(b, IF peerHealth[b] = Judgement(b) THEN "select" ELSE "send")
  /\ peerHealth' = [peerHealth EXCEPT ![b] = Judgement(b)]
  /\ readAge' = [readAge EXCEPT ![b] = 0]
  /\ steady' = [steady EXCEPT ![b] = IF peerHealth[b] = Judgement(b) THEN @ ELSE 0]
  /\ UNCHANGED <<age, timer, pending, myHealth>>

(* The monitor of the same replica receives the takeover message.          *)
Receive(b) ==
  /\ loop[b] = "send"
  /\ Goto(b, "select")
  /\ UNCHANGED <<age, timer, pending, callTime, myHealth, peerHealth, readAge, steady>>

(* The monitor of a primary passes on a publisher's Success or Failover.   *)
SetMyHealth(p, newState) ==
  /\ loop[p] # "down"
  /\ newState = BAD => "publish" \in Faults
  /\ myHealth' = [myHealth EXCEPT ![p] = newState]
  /\ steady' = [steady EXCEPT ![p] = IF newState = GOOD THEN @ ELSE 0]
  /\ UNCHANGED <<age, loop, timer, pending, callTime, peerHealth, readAge>>

WriterStep(p) ==
  \/ WriteCheckpointHealth(p)
  \/ SetCheckpoint(p)
  \/ SetCheckpointReturns(p)
  \/ SetCheckpointFails(p)

ReaderStep(b) ==
  \/ ReadCheckpointHealth(b)
  \/ GetCheckpointLastModify(b)
  \/ GetCheckpointLastModifyFails(b)
  \/ SetPeerHealth(b)

Next ==
  \/ Tick
  \/ \E r \in Replicas : Start(r) \/ Crash(r)
  \/ \E p \in Primaries : WriterStep(p)
  \/ \E p \in Primaries, s \in {GOOD, BAD} : SetMyHealth(p, s)
  \/ \E b \in Backups : ReaderStep(b) \/ Receive(b)

Spec == Init /\ [][Next]_hcVars

(* A fresh deployment: no blob has ever been written.                      *)
FreshInit == Init /\ age = Cap

FreshSpec == FreshInit /\ [][Next]_hcVars

-----------------------------------------------------------------------------
(* The hold time leaves room for one interval, one late write and one late  *)
(* read, and for a backup's clock that runs ahead (defaults: 60s of 180s).  *)
HoldIsLongEnough == Interval + 2 * CallTime + ClockSkew <= PreemptionHoldTime

(* No false takeover: a backup declares its peers dead (health.go:275) only *)
(* if no primary has been running and healthy for the last interval plus    *)
(* two blob calls, however the reads, writes and clocks interleave.         *)
NoFalseTakeover ==
  [][ HoldIsLongEnough =>
        \A b \in Backups :
          peerHealth[b] = GOOD /\ peerHealth'[b] = BAD
            => \A p \in Primaries : steady[p] <= Interval + 2 * CallTime ]_hcVars

(* Timely detection: once the blob has been silent for the hold time plus   *)
(* one interval and one blob call, a backup whose loop has run undisturbed  *)
(* for an interval and a call has declared its peers dead.                  *)
DetectsSilence ==
  \A b \in Backups :
    steady[b] > Interval + CallTime
      /\ age > PreemptionHoldTime + Interval + CallTime
      => peerHealth[b] = BAD

(* The mirror image: a backup whose loop has run undisturbed for an         *)
(* interval and a call trusts its peers (health.go:280) once one of them    *)
(* has been alive and healthy for two intervals and three calls.            *)
TrustsTheLiving ==
  HoldIsLongEnough =>
    \A b \in Backups, p \in Primaries :
      steady[b] > Interval + CallTime /\ steady[p] > 2 * Interval + 3 * CallTime
        => peerHealth[b] = GOOD

(* monitor.go:210 says of TakeoverOn "This should only happens when the     *)
(* read timeout(after primary fails to write)": in a fresh deployment where *)
(* nothing ever fails, a backup does not declare its peers dead while they  *)
(* all run healthy.                                                         *)
TakeoverOnlyAfterFailure ==
  [][ Faults = {} /\ (\A p \in Primaries : Ok(p))
        => \A b \in Backups : peerHealth[b] = GOOD => peerHealth'[b] = GOOD ]_hcVars
=============================================================================
