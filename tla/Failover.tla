------------------------------ MODULE Failover ------------------------------
(***************************************************************************)
(* The monitor of every replica (tasks/monitor/monitor.go) on top of the   *)
(* heartbeat of HealthCheckpoint, together with the life of the Event Hub  *)
(* consumer it creates (consumers/eventhub/consumer/consumer.go) and the   *)
(* publishers' reports (publishers/eventgrid/publisher/publisher.go).      *)
(* The goroutines of a replica talk over one unbuffered health channel: a  *)
(* sender waits until the monitor is back in its select, so each receive   *)
(* is a joint step of the sender and the monitor.                          *)
(***************************************************************************)
EXTENDS HealthCheckpoint

CONSTANT Partitions   \* the Event Hub partitions a consumer owns

VARIABLES
  starter,    \* where the goroutine in startEventHubConsumer is
  held,       \* t.consumer is not nil
  started,    \* t.isEHConsumerStarted
  goroutine,  \* the goroutine that runs consumer.Start: "ended" when that
              \* has returned, "none" when its client is closed as well
  orphan,     \* history: a live consumer t.consumer no longer refers to
  lost,       \* history: the consumer asked for last has failed or died
  part        \* what each partition goroutine is doing

monVars == <<starter, held, started, goroutine, orphan, lost, part>>
vars == <<hcVars, monVars>>

Live == {"launched", "running"}

FailoverTypeOK ==
  /\ TypeOK
  /\ starter \in [Replicas -> {"idle", "creating", "marking"}]
  /\ held \in [Replicas -> BOOLEAN]
  /\ started \in [Replicas -> BOOLEAN]
  /\ goroutine \in [Replicas -> Live \cup {"none", "ended"}]
  /\ orphan \in [Replicas -> BOOLEAN]
  /\ lost \in [Replicas -> BOOLEAN]
  /\ part \in [Replicas -> [Partitions -> {"idle", "busy", GOOD, BAD}]]

FailoverInit ==
  /\ Init
  /\ starter = [r \in Replicas |-> "idle"]
  /\ held = [r \in Replicas |-> FALSE]
  /\ started = [r \in Replicas |-> FALSE]
  /\ goroutine = [r \in Replicas |-> "none"]
  /\ orphan = [r \in Replicas |-> FALSE]
  /\ lost = [r \in Replicas |-> FALSE]
  /\ part = [r \in Replicas |-> [k \in Partitions |-> "idle"]]

-----------------------------------------------------------------------------
(* Starting and losing a replica.                                          *)

NewMonitor(r, s) ==
  /\ starter' = [starter EXCEPT ![r] = s]
  /\ held' = [held EXCEPT ![r] = FALSE]
  /\ started' = [started EXCEPT ![r] = FALSE]
  /\ goroutine' = [goroutine EXCEPT ![r] = "none"]
  /\ orphan' = [orphan EXCEPT ![r] = FALSE]
  /\ lost' = [lost EXCEPT ![r] = FALSE]
  /\ part' = [part EXCEPT ![r] = [k \in Partitions |-> "idle"]]

(* A primary goes on to create its consumer, a backup waits for messages.  *)
StartReplica(r) ==
  /\ Start(r)
  /\ NewMonitor(r, IF r \in Primaries THEN "creating" ELSE "idle")

CrashReplica(r) == Crash(r) /\ NewMonitor(r, "idle")

(* Runnable goroutines get to run before the next tick, so only the calls  *)
(* that create a consumer and the batches being published take time.       *)
TimePasses ==
  /\ Tick
  /\ \A b \in Backups : ~(loop[b] = "send" /\ starter[b] = "idle")
  /\ \A r \in Replicas : starter[r] # "marking" /\ goroutine[r] # "launched"
  /\ UNCHANGED monVars

(* The steps of the health loop that do not touch the monitor.             *)
HealthLoop(r) ==
  /\ \/ r \in Primaries /\ WriterStep(r)
     \/ r \in Backups /\ ReaderStep(r)
  /\ UNCHANGED monVars

-----------------------------------------------------------------------------
(* startEventHubConsumer: the monitor of a backup runs it on TakeoverOn,   *)
(* Monitor.Start of a primary runs it once, beside its monitor goroutine.  *)

TakeoverOn(b) ==
  /\ Receive(b)
  /\ peerHealth[b] = BAD
  /\ starter[b] = "idle"
  /\ starter' = [starter EXCEPT ![b] = "creating"]
  /\ lost' = [lost EXCEPT ![b] = FALSE]
  /\ UNCHANGED <<held, started, goroutine, orphan, part>>

CreateEventHubConsumer(r) ==
  /\ starter[r] = "creating"
  /\ starter' = [starter EXCEPT ![r] = "marking"]
  /\ held' = [held EXCEPT ![r] = TRUE]
  /\ goroutine' = [goroutine EXCEPT ![r] = "launched"]
  /\ orphan' = [orphan EXCEPT ![r] = @ \/ goroutine[r] \in Live]
  /\ UNCHANGED <<hcVars, started, lost, part>>

(* t.consumer becomes nil; the error is logged and nobody tries again.     *)
CreateEventHubConsumerFails(r) ==
  /\ "create" \in Faults
  /\ starter[r] = "creating"
  /\ starter' = [starter EXCEPT ![r] = "idle"]
  /\ held' = [held EXCEPT ![r] = FALSE]
  /\ orphan' = [orphan EXCEPT ![r] = @ \/ goroutine[r] \in Live]
  /\ lost' = [lost EXCEPT ![r] = TRUE]
  /\ UNCHANGED <<hcVars, started, goroutine, part>>

MarkStarted(r) ==
  /\ starter[r] = "marking"
  /\ starter' = [starter EXCEPT ![r] = "idle"]
  /\ started' = [started EXCEPT ![r] = TRUE]
  /\ UNCHANGED <<hcVars, held, goroutine, orphan, lost, part>>

ConsumerStart(r) ==
  /\ goroutine[r] = "launched"
  /\ goroutine' = [goroutine EXCEPT ![r] = "running"]
  /\ UNCHANGED <<hcVars, starter, held, started, orphan, lost, part>>

(* consumer.Start returns an error: the goroutine clears the flag.         *)
ConsumerStartFails(r) ==
  /\ "create" \in Faults
  /\ goroutine[r] = "launched"
  /\ goroutine' = [goroutine EXCEPT ![r] = "ended"]
  /\ started' = [started EXCEPT ![r] = FALSE]
  /\ lost' = [lost EXCEPT ![r] = TRUE]
  /\ UNCHANGED <<hcVars, starter, held, orphan, part>>

(* A partition's error cancels the whole consumer; Start then returns nil, *)
(* so isEHConsumerStarted stays as it is and nobody is told.               *)
ConsumerDies(r) ==
  /\ "consumer" \in Faults
  /\ goroutine[r] = "running"
  /\ goroutine' = [goroutine EXCEPT ![r] = "ended"]
  /\ lost' = [lost EXCEPT ![r] = TRUE]
  /\ UNCHANGED <<hcVars, starter, held, started, orphan, part>>

-----------------------------------------------------------------------------
(* stopEventHubConsumer.                                                   *)

(* Mutant of CanStop: the check of isEHConsumerStarted inverted.            *)
CanStopInverted(b) == held[b] /\ ~started[b]

CanStop(b) == held[b] /\ started[b]

(* consumer.Stop cancels the processor before it closes the client, so     *)
(* that nothing runs any more when closing it fails.                       *)
AfterStop(b) ==
  IF CanStop(b) THEN {"none"} \cup {g \in {"ended"} : "close" \in Faults}
                ELSE {goroutine[b]}

(* Whether or not there was something to stop, and whether or not stopping  *)
(* it failed, the handle is dropped.                                        *)
TakeoverOff(b) ==
  /\ Receive(b)
  /\ peerHealth[b] = GOOD
  /\ starter[b] = "idle"
  /\ ~(CanStop(b) /\ goroutine[b] = "launched")
  /\ held' = [held EXCEPT ![b] = FALSE]
  /\ started' = [started EXCEPT ![b] = FALSE]
  /\ \E g \in AfterStop(b) : goroutine' = [goroutine EXCEPT ![b] = g]
  /\ orphan' = [orphan EXCEPT ![b] = @ \/ (~CanStop(b) /\ goroutine[b] \in Live)]
  /\ lost' = [lost EXCEPT ![b] = FALSE]
  /\ UNCHANGED <<starter, part>>

(* consumer.Stop calls c.cancel, which only consumer.Start sets: stopping  *)
(* a consumer whose goroutine has not run yet ends the process.            *)
TakeoverOffPanics(b) ==
  /\ loop[b] = "send"
  /\ peerHealth[b] = GOOD
  /\ starter[b] = "idle"
  /\ CanStop(b) /\ goroutine[b] = "launched"
  /\ CrashReplica(b)

-----------------------------------------------------------------------------
(* Partition goroutines receive a batch, run the pipeline, and wait in the *)
(* publisher until the monitor has taken the report on each message.       *)
(* Nothing stops them in the middle of a batch.                            *)

ReceiveEvents(r, k) ==
  /\ goroutine[r] = "running"
  /\ part[r][k] = "idle"
  /\ part' = [part EXCEPT ![r][k] = "busy"]
  /\ UNCHANGED <<hcVars, starter, held, started, goroutine, orphan, lost>>

(* A report on the next message, or the batch is at its end: "idle".       *)
Publish(r, k, result) ==
  /\ part[r][k] = "busy"
  /\ result = BAD => "publish" \in Faults
  /\ part' = [part EXCEPT ![r][k] = result]
  /\ UNCHANGED <<hcVars, starter, held, started, goroutine, orphan, lost>>

(* Success and Failover set the health of the replica's own health task,   *)
(* which only a primary's loop looks at.  A Failover is the batch's last.  *)
ReceiveReport(r, k) ==
  /\ part[r][k] \in {GOOD, BAD}
  /\ r \in Primaries \/ starter[r] = "idle"
  /\ part' = [part EXCEPT ![r][k] = IF @ = GOOD THEN "busy" ELSE "idle"]
  /\ IF r \in Primaries THEN SetMyHealth(r, part[r][k]) ELSE UNCHANGED hcVars
  /\ UNCHANGED <<starter, held, started, goroutine, orphan, lost>>

-----------------------------------------------------------------------------
Monitor(b) == TakeoverOn(b) \/ TakeoverOff(b) \/ TakeoverOffPanics(b)

Creation(r) ==
  \/ CreateEventHubConsumer(r)
  \/ CreateEventHubConsumerFails(r)
  \/ MarkStarted(r)

ConsumerGoroutine(r) == ConsumerStart(r) \/ ConsumerStartFails(r)

PartitionStep(r, k) ==
  \/ ReceiveEvents(r, k)
  \/ \E result \in {GOOD, BAD, "idle"} : Publish(r, k, result)
  \/ ReceiveReport(r, k)

FailoverNext ==
  \/ TimePasses
  \/ \E r \in Replicas :
       \/ StartReplica(r)
       \/ CrashReplica(r)
       \/ HealthLoop(r)
       \/ Creation(r)
       \/ ConsumerGoroutine(r)
       \/ ConsumerDies(r)
       \/ \E k \in Partitions : PartitionStep(r, k)
  \/ \E b \in Backups : Monitor(b)

FailoverSpec == FailoverInit /\ [][FailoverNext]_vars

(***************************************************************************)
(* Fairness: the clock runs, calls return, and the Go scheduler runs every *)
(* runnable goroutine.  Crashes, errors, restarts and new traffic are      *)
(* never required: a replica that dies may stay dead.                      *)
(***************************************************************************)
Fairness ==
  /\ WF_vars(TimePasses)
  /\ \A r \in Replicas :
       /\ WF_vars(HealthLoop(r))
       /\ WF_vars(Creation(r))
       /\ WF_vars(ConsumerGoroutine(r))
  /\ \A b \in Backups : WF_vars(Monitor(b))

FairFailoverSpec == FailoverSpec /\ Fairness

-----------------------------------------------------------------------------
(* The monitor never loses hold of a consumer (monitor.go:245, 279): no     *)
(* second one is created over a live one, none is forgotten while it runs,  *)
(* because takeover messages alternate even when creations fail.            *)
NoOrphan == \A r \in Replicas : ~orphan[r]

(* What a backup does follows what it believes: outside the hand-over of a  *)
(* message, one that believes its peers alive is neither consuming nor      *)
(* about to (health.go:322-351, monitor.go:210-232).                        *)
FollowsBelief ==
  \A b \in Backups :
    peerHealth[b] = GOOD /\ loop[b] # "send"
      => goroutine[b] \notin Live /\ starter[b] = "idle" /\ ~held[b]

(* One active role: once a primary has been alive and healthy for two       *)
(* intervals and three calls, a backup whose own loop has not been          *)
(* interrupted for an interval and a call does not consume.                 *)
SingleActive ==
  HoldIsLongEnough =>
    \A p \in Primaries, b \in Backups :
      steady[p] > 2 * Interval + 3 * CallTime /\ steady[b] > Interval + CallTime
        => goroutine[b] \notin Live

(* Who has to consume does (monitor.go:177, 210): a primary that runs, and   *)
(* a backup that has passed on the death of its peers, have a live consumer, *)
(* are creating one, or have lost the one they asked for to an error nobody  *)
(* acts on (monitor.go:212-219, 250-255, consumer.go:239).                   *)
ShouldConsume(r) ==
  /\ loop[r] # "down"
  /\ r \in Backups => peerHealth[r] = BAD /\ loop[r] # "send"

ConsumesUnlessLost ==
  \A r \in Replicas :
    ShouldConsume(r) => goroutine[r] \in Live \/ starter[r] # "idle" \/ lost[r]

(* The takeover is in time, not only eventual (health.go:275, monitor.go:    *)
(* 210): once the blob has been silent for the hold time plus one interval   *)
(* and one blob call, a backup whose health loop has run undisturbed for an  *)
(* interval and a call has a live consumer, is creating one, or has lost it. *)
TimelyTakeover ==
  \A b \in Backups :
    steady[b] > Interval + CallTime
      /\ age > PreemptionHoldTime + Interval + CallTime
      => goroutine[b] \in Live \/ starter[b] # "idle" \/ lost[b]

Silent(p) == loop[p] \in Stopped \/ myHealth[p] = BAD
BackupsStayUp == <>[](\A b \in Backups : loop[b] \notin Stopped)

(* The hold time is the "Time to wait before backup start processing        *)
(* messages in the event of a failure" (flags.go:24): when every primary     *)
(* falls silent for good, every backup ends up consuming, or has lost the    *)
(* consumer it asked for.                                                   *)
TakesOver ==
  BackupsStayUp /\ <>[](\A p \in Primaries : Silent(p))
    => <>[](\A b \in Backups : goroutine[b] = "running" \/ lost[b])

(* When a primary is healthy for good, every backup ends up idle.           *)
HandsBack ==
  HoldIsLongEnough /\ BackupsStayUp /\ <>[](\E p \in Primaries : Ok(p))
    => <>[](\A b \in Backups : goroutine[b] \notin Live)

(* monitor.go:295 refuses to stop a consumer with "cannot stop what it has  *)
(* not been started": a TakeoverOff the monitor acts on finds a consumer    *)
(* whose Start has run.                                                     *)
StopsOnlyStarted ==
  \A b \in Backups :
    loop[b] = "send" /\ peerHealth[b] = GOOD /\ starter[b] = "idle" /\ CanStop(b)
      => goroutine[b] # "launched"
=============================================================================
