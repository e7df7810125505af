---------------------------- MODULE PartitionLog ----------------------------
(***************************************************************************)
(* What consumer, translator and publisher together promise about the      *)
(* events of one partition, whoever works on it: an event goes out only    *)
(* when every earlier one has gone out or was given up, giving up runs at  *)
(* most one batch ahead of the first event that is neither, and the        *)
(* checkpoint is only ever put behind such events.  It may be put back:    *)
(* a client that has lost the partition writes it once more beside the new *)
(* owner's.                                                                *)
(***************************************************************************)
EXTENDS Integers

CONSTANTS
  MaxEvents,  \* bound on the events of the partition
  MaxBatch    \* how many events are in hand at once

VARIABLES
  tail,       \* events 1 .. tail have arrived
  ckpt,       \* the event whoever comes next starts behind, -1 for none
  published,  \* the events that have gone out
  skipped     \* the events that were given up or passed over

logVars == <<tail, ckpt, published, skipped>>

Settled == published \cup skipped

LogInit ==
  /\ tail \in 0 .. MaxEvents
  /\ ckpt \in -1 .. tail
  /\ published = 1 .. ckpt
  /\ skipped = {}

Append ==
  /\ tail < MaxEvents
  /\ tail' = tail + 1
  /\ UNCHANGED <<ckpt, published, skipped>>

Publish ==
  \E i \in 1 .. tail :
    /\ 1 .. i - 1 \subseteq Settled
    /\ published' = published \cup {i}
    /\ UNCHANGED <<tail, ckpt, skipped>>

GiveUp ==
  \E events \in SUBSET (1 .. tail) :
    /\ \A i \in events : 1 .. i - MaxBatch \subseteq Settled
    /\ skipped' = skipped \cup events
    /\ UNCHANGED <<tail, ckpt, published>>

(* Without a checkpoint a client starts behind whatever is there.          *)
StartAtLatest ==
  /\ ckpt = -1
  /\ skipped' = skipped \cup 1 .. tail
  /\ UNCHANGED <<tail, ckpt, published>>

MoveCheckpoint ==
  \E i \in 0 .. tail :
    /\ 1 .. i \subseteq Settled
    /\ ckpt' = i
    /\ UNCHANGED <<tail, published, skipped>>

LogNext == Append \/ Publish \/ GiveUp \/ StartAtLatest \/ MoveCheckpoint

LogSpec == LogInit /\ [][LogNext]_logVars

-----------------------------------------------------------------------------
(* No event is settled a whole batch or more ahead of one that is not.      *)
WithinOneBatch == \A i \in Settled : 1 .. i - MaxBatch \subseteq Settled
=============================================================================
