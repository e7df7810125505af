------------------------------ MODULE Delivery ------------------------------
(***************************************************************************)
(* The events of one Event Hub partition on their way to Event Grid: the   *)
(* loop of a partition goroutine (consumers/eventhub/consumer/consumer.go, *)
(* processEventsForPartition) runs a batch through the translator          *)
(* (tasks/translate/translate.go) and the publisher                        *)
(* (publishers/eventgrid/publisher/publisher.go) and then moves the        *)
(* checkpoint all replicas of a role share.  The actors are partition      *)
(* clients: a client ends when it loses the partition, on an error or with *)
(* its process, and a batch it has in hand goes on unless the process dies.*)
(***************************************************************************)
EXTENDS Integers

CONSTANTS
  Clients,    \* partition clients, of any consumer of any replica
  NoClient,   \* nobody owns the partition
  MaxEvents,  \* bound on the events of the partition
  MaxBatch,   \* MAX_EVENTS of one ReceiveEvents call
  Faults      \* which faults the environment may inject

FaultKinds == {"crash", "steal", "receive", "primary", "secondary", "checkpoint"}

ASSUME NoClientIsNoClient == NoClient \notin Clients
ASSUME BoundsAreNat == MaxEvents \in Nat /\ MaxBatch \in Nat \ {0}
ASSUME FaultsOK == Faults \subseteq FaultKinds

Events == 1 .. MaxEvents

(* How an event may have left the pipeline.  "passed": the start position   *)
(* Latest went over it because there was no checkpoint yet.                 *)
Outcomes == {"published", "untranslated", "dropped", "passed"}

NoCheckpoint == -1

VARIABLES
  tail,     \* events 1 .. tail have arrived in the partition
  ckpt,     \* the event in the checkpoint blob
  owner,    \* the client that owns the partition
  pc,       \* where each client's goroutine is
  cursor,   \* the last event a client has received
  todo,     \* events of its batch that are still to be dealt with
  outcome   \* history: what has become of each event

vars == <<tail, ckpt, owner, pc, cursor, todo, outcome>>

InBatch == {"translate", "publish", "secondary", "sent", "success", "failure", "checkpoint"}

TypeOK ==
  /\ tail \in 0 .. MaxEvents
  /\ ckpt \in NoCheckpoint .. MaxEvents
  /\ owner \in Clients \cup {NoClient}
  /\ pc \in [Clients -> InBatch \cup {"ended", "receive"}]
  /\ cursor \in [Clients -> 0 .. MaxEvents]
  /\ todo \in [Clients -> SUBSET Events]
  /\ outcome \in [Events -> SUBSET Outcomes]

(* An earlier deployment may have left a checkpoint, and its events have    *)
(* been dealt with by then.                                                 *)
Init ==
  /\ tail \in 0 .. MaxEvents
  /\ ckpt \in NoCheckpoint .. tail
  /\ owner = NoClient
  /\ pc = [k \in Clients |-> "ended"]
  /\ cursor = [k \in Clients |-> 0]
  /\ todo = [k \in Clients |-> {}]
  /\ outcome = [i \in Events |-> IF i <= ckpt THEN {"published"} ELSE {}]

Becomes(events, what) ==
  outcome' = [i \in Events |-> IF i \in events THEN outcome[i] \cup {what} ELSE outcome[i]]

Goto(k, l) == pc' = [pc EXCEPT ![k] = l]

-----------------------------------------------------------------------------
(* The Event Hub and the processor of the SDK.                             *)

Arrive ==
  /\ tail < MaxEvents
  /\ tail' = tail + 1
  /\ UNCHANGED <<ckpt, owner, pc, cursor, todo, outcome>>

(* Mutant of Begin: the start position is taken to be inclusive.            *)
BeginBehindNext(k) ==
  /\ pc[k] = "ended"
  /\ Goto(k, "receive")
  /\ owner' = k
  /\ cursor' = [cursor EXCEPT ![k] = IF ckpt = NoCheckpoint THEN tail ELSE ckpt + 1]
  /\ Becomes(IF ckpt = NoCheckpoint THEN 1 .. tail ELSE {}, "passed")
  /\ UNCHANGED <<tail, ckpt, todo>>

(* A client starts behind the checkpoint, or at Latest if there is none.    *)
Begin(k) ==
  /\ pc[k] = "ended"
  /\ Goto(k, "receive")
  /\ owner' = k
  /\ cursor' = [cursor EXCEPT ![k] = IF ckpt = NoCheckpoint THEN tail ELSE ckpt]
  /\ Becomes(IF ckpt = NoCheckpoint THEN 1 .. tail ELSE {}, "passed")
  /\ UNCHANGED <<tail, ckpt, todo>>

Claim(k) ==
  /\ owner \in Clients => pc[owner] = "ended"
  /\ Begin(k)

(* The load balancer moves the partition away from a client in the middle   *)
(* of its work.                                                             *)
Steal(k) ==
  /\ "steal" \in Faults
  /\ owner \in Clients
  /\ pc[owner] # "ended"
  /\ Begin(k)

End(k) ==
  /\ Goto(k, "ended")
  /\ todo' = [todo EXCEPT ![k] = {}]

Crash(k) ==
  /\ "crash" \in Faults
  /\ pc[k] # "ended"
  /\ End(k)
  /\ UNCHANGED <<tail, ckpt, owner, cursor, outcome>>

-----------------------------------------------------------------------------
(* processEventsForPartition.                                              *)

(* Whatever arrived within the timeout, at most MAX_EVENTS; an empty batch  *)
(* is no step.                                                              *)
ReceiveEvents(k) ==
  /\ pc[k] = "receive"
  /\ owner = k
  /\ \E last \in cursor[k] + 1 .. cursor[k] + MaxBatch :
       /\ last <= tail
       /\ cursor' = [cursor EXCEPT ![k] = last]
       /\ todo' = [todo EXCEPT ![k] = cursor[k] + 1 .. last]
  /\ Goto(k, "translate")
  /\ UNCHANGED <<tail, ckpt, owner, outcome>>

(* The partition is lost, or the consumer was stopped or an error ended it: *)
(* the client's goroutine returns either way.                               *)
ReceiveEventsFails(k) ==
  /\ pc[k] = "receive"
  /\ owner # k \/ "receive" \in Faults
  /\ End(k)
  /\ UNCHANGED <<tail, ckpt, owner, cursor, outcome>>

(* The translator's Next drops messages it cannot parse or translate, and   *)
(* calls the publisher only if some are left.                               *)
Translate(k) ==
  /\ pc[k] = "translate"
  /\ \E translated \in SUBSET todo[k] :
       /\ todo' = [todo EXCEPT ![k] = translated]
       /\ Becomes(todo[k] \ translated, "untranslated")
       /\ Goto(k, IF translated = {} THEN "checkpoint" ELSE "publish")
  /\ UNCHANGED <<tail, ckpt, owner, cursor>>

(* Mutant of IsNext: the batch is published from its end.                   *)
IsLast(k, i) == i \in todo[k] /\ \A j \in todo[k] : j <= i

IsNext(k, i) == i \in todo[k] /\ \A j \in todo[k] : i <= j

(* publishToGrid: to the primary grid, after its retries to the secondary.  *)
Sent(k) ==
  /\ \E i \in todo[k] :
       /\ IsNext(k, i)
       /\ todo' = [todo EXCEPT ![k] = @ \ {i}]
       /\ Becomes({i}, "published")
  /\ Goto(k, "sent")
  /\ UNCHANGED <<tail, ckpt, owner, cursor>>

SendToPrimary(k) == pc[k] = "publish" /\ Sent(k)

SendToPrimaryFails(k) ==
  /\ "primary" \in Faults
  /\ pc[k] = "publish"
  /\ Goto(k, "secondary")
  /\ UNCHANGED <<tail, ckpt, owner, cursor, todo, outcome>>

SendToSecondary(k) == pc[k] = "secondary" /\ Sent(k)

SendToSecondaryFails(k) ==
  /\ "secondary" \in Faults
  /\ pc[k] = "secondary"
  /\ Goto(k, "failure")
  /\ UNCHANGED <<tail, ckpt, owner, cursor, todo, outcome>>

(* Two Success messages: one of publishToGrid, one of Next.                 *)
SendHealthSuccess(k) ==
  /\ \/ pc[k] = "sent" /\ Goto(k, "success")
     \/ pc[k] = "success" /\ Goto(k, IF todo[k] = {} THEN "checkpoint" ELSE "publish")
  /\ UNCHANGED <<tail, ckpt, owner, cursor, todo, outcome>>

(* Mutant of SendHealthFailure: Next gives up on the batch without a word.  *)
ReturnSilently(k) ==
  /\ pc[k] = "failure"
  /\ todo' = [todo EXCEPT ![k] = {}]
  /\ Goto(k, "checkpoint")
  /\ UNCHANGED <<tail, ckpt, owner, cursor, outcome>>

(* Mutant of SendHealthFailure: the message is tried again and again.       *)
RetryForever(k) ==
  /\ pc[k] = "failure"
  /\ Goto(k, "publish")
  /\ UNCHANGED <<tail, ckpt, owner, cursor, todo, outcome>>

(* The monitor receives a Failover, and Next returns: the message that      *)
(* failed and the rest of the batch are dropped.                            *)
SendHealthFailure(k) ==
  /\ pc[k] = "failure"
  /\ Becomes(todo[k], "dropped")
  /\ todo' = [todo EXCEPT ![k] = {}]
  /\ Goto(k, "checkpoint")
  /\ UNCHANGED <<tail, ckpt, owner, cursor>>

(* Mutant of UpdateCheckpoint: the blob names the next event to read.       *)
CheckpointNextEvent(k) ==
  /\ pc[k] = "checkpoint"
  /\ ckpt' = cursor[k] + 1
  /\ Goto(k, "receive")
  /\ UNCHANGED <<tail, owner, cursor, todo, outcome>>

(* The blob is overwritten, also by a client that has lost the partition.   *)
UpdateCheckpoint(k) ==
  /\ pc[k] = "checkpoint"
  /\ ckpt' = cursor[k]
  /\ Goto(k, "receive")
  /\ UNCHANGED <<tail, owner, cursor, todo, outcome>>

UpdateCheckpointFails(k) ==
  /\ "checkpoint" \in Faults
  /\ pc[k] = "checkpoint"
  /\ ckpt' \in {ckpt, cursor[k]}
  /\ End(k)
  /\ UNCHANGED <<tail, owner, cursor, outcome>>

-----------------------------------------------------------------------------
Pipeline(k) ==
  \/ ReceiveEvents(k)
  \/ Translate(k)
  \/ SendToPrimary(k) \/ SendToPrimaryFails(k)
  \/ SendToSecondary(k) \/ SendToSecondaryFails(k)
  \/ SendHealthSuccess(k) \/ SendHealthFailure(k)
  \/ UpdateCheckpoint(k)

Disturbance ==
  \E k \in Clients :
    Steal(k) \/ Crash(k) \/ ReceiveEventsFails(k) \/ UpdateCheckpointFails(k)

Next ==
  \/ Arrive
  \/ \E k \in Clients : Claim(k) \/ Pipeline(k)
  \/ Disturbance

Spec == Init /\ [][Next]_vars

(***************************************************************************)
(* Calls return, the monitor receives reports, and some replica's          *)
(* processor claims a partition nobody works on.                           *)
(***************************************************************************)
Fairness ==
  /\ WF_vars(\E k \in Clients : Claim(k))
  /\ \A k \in Clients : WF_vars(Pipeline(k))

FairSpec == Spec /\ Fairness

-----------------------------------------------------------------------------
(* Nothing is lost silently (consumer.go:293-303, publisher.go:185-210):    *)
(* whatever the checkpoint has gone over was published, could not be        *)
(* translated, was dropped in a batch the monitor has been told has failed, *)
(* or was there before the role ever had a checkpoint.  So whoever takes    *)
(* over, and whatever died on the way, may start behind the checkpoint.     *)
NothingLost == \A i \in Events : i <= ckpt => outcome[i] # {}

(* Events of a partition are published in order: when one is out, none      *)
(* before it is still to be dealt with for the first time, although a       *)
(* client that has lost the partition publishes beside the new owner.       *)
NoOvertaking ==
  \A i, j \in Events :
    i < j /\ "published" \in outcome[j] => outcome[i] # {}

(* What is left of all this when one forgets who works on the partition and *)
(* where in its batch it is: a log that is published in order, gives events *)
(* up at most a batch ahead, and moves its checkpoint over settled events   *)
(* only (consumer.go:262-304, publisher.go:185-210).                        *)
GivenUp == {"untranslated", "dropped", "passed"}

Log == INSTANCE PartitionLog WITH
  published <- {i \in Events : "published" \in outcome[i]},
  skipped <- {i \in Events : outcome[i] \cap GivenUp # {}}

ImplementsPartitionLog == Log!LogSpec

(* Every event is dealt with, once clients stop being disturbed             *)
(* (consumer.go:262-304).                                                   *)
Handled ==
  <>[][~Disturbance]_vars => \A i \in Events : (i <= tail) ~> (outcome[i] # {})
=============================================================================
