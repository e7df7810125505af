-------------------------- MODULE Delivery_proofs --------------------------
(***************************************************************************)
(* Proofs about Delivery, for any number of clients, events and any batch  *)
(* size: the checkpoint loses nothing silently and events are published in *)
(* order.                                                                  *)
(***************************************************************************)
EXTENDS Delivery, WellFoundedInduction, TLAPS

(* Whatever a client has received is in hand or dealt with, which includes  *)
(* all that lies below the checkpoint it started from; what is in hand is   *)
(* part of one batch, and between two batches nothing is.                   *)
ClientInv(k) ==
  /\ todo[k] \subseteq 1 .. cursor[k]
  /\ \A i \in todo[k] : cursor[k] < i + MaxBatch
  /\ cursor[k] <= tail
  /\ pc[k] \in {"ended", "receive", "checkpoint"} => todo[k] = {}
  /\ \A i \in Events :
       i <= cursor[k] /\ i \notin todo[k] /\ pc[k] # "ended" => outcome[i] # {}

IInv ==
  /\ TypeOK
  /\ ckpt <= tail
  /\ NothingLost
  /\ NoOvertaking
  /\ \A k \in Clients : ClientInv(k)

(* No step takes an outcome back.                                           *)
Grows == \A i \in Events : outcome[i] \subseteq outcome'[i]

(* A step of client k leaves the other clients alone.                       *)
OnlyClient(k) ==
  \A j \in Clients \ {k} :
    pc'[j] = pc[j] /\ cursor'[j] = cursor[j] /\ todo'[j] = todo[j]

(* Recording an outcome adds it to the events named and to no other.        *)
LEMMA BecomesAdds ==
  ASSUME TypeOK, NEW S, NEW what \in Outcomes, Becomes(S, what)
  PROVE  /\ outcome' \in [Events -> SUBSET Outcomes]
         /\ Grows
         /\ \A i \in Events : i \in S => what \in outcome'[i]
         /\ \A i \in Events : i \notin S => outcome'[i] = outcome[i]
         /\ \A i \in Events : what # "published" =>
              ("published" \in outcome'[i] => "published" \in outcome[i])
BY DEF TypeOK, Becomes, Grows

(* The other clients keep their invariant.                                  *)
LEMMA OthersKeep ==
  ASSUME IInv, NEW k \in Clients, OnlyClient(k), Grows, tail' = tail
  PROVE  \A j \in Clients \ {k} : ClientInv(j)'
<1> SUFFICES ASSUME NEW j \in Clients \ {k} PROVE ClientInv(j)'
  OBVIOUS
<1>1. ClientInv(j) /\ pc'[j] = pc[j] /\ cursor'[j] = cursor[j] /\ todo'[j] = todo[j]
  BY DEF IInv, OnlyClient
<1>2. \A i \in Events : outcome[i] # {} => outcome'[i] # {}
  BY DEF Grows
<1> QED
  BY <1>1, <1>2 DEF ClientInv

(* Outcomes other than a publication keep both safety properties as long as *)
(* the checkpoint stays where it is.                                        *)
LEMMA OutcomesKeep ==
  ASSUME IInv, Grows, UNCHANGED <<tail, ckpt>>,
         \A i \in Events : "published" \in outcome'[i] => "published" \in outcome[i]
  PROVE  (ckpt <= tail)' /\ NothingLost' /\ NoOvertaking'
BY DEF IInv, Grows, NothingLost, NoOvertaking

(* With no client at work the checkpoint an earlier deployment left is safe *)
(* (consumer.go:94-175).                                                    *)
LEMMA InitIInv == Init => IInv
<1> SUFFICES ASSUME Init PROVE IInv
  OBVIOUS
<1> USE BoundsAreNat DEF Init
<1>1. /\ TypeOK
      /\ ckpt <= tail
  BY DEF TypeOK, NoCheckpoint, Outcomes, Events
<1>2. NothingLost /\ NoOvertaking
  BY <1>1 DEF NothingLost, NoOvertaking, Events, TypeOK, NoCheckpoint
<1>3. ASSUME NEW k \in Clients PROVE ClientInv(k)
  <2>1. todo[k] = {} /\ cursor[k] = 0 /\ pc[k] = "ended" /\ tail \in 0 .. MaxEvents
    OBVIOUS
  <2> QED
    BY <2>1 DEF ClientInv
<1> QED
  BY <1>1, <1>2, <1>3 DEF IInv

(* A client that begins behind the checkpoint, or at Latest, has nothing    *)
(* unsettled behind it (consumer.go:194, 223-243).                          *)
LEMMA BeginKeeps ==
  ASSUME IInv, NEW k \in Clients, Begin(k)
  PROVE  IInv'
<1> DEFINE S == IF ckpt = NoCheckpoint THEN 1 .. tail ELSE {}
           start == IF ckpt = NoCheckpoint THEN tail ELSE ckpt
<1>0. TypeOK /\ Becomes(S, "passed") /\ UNCHANGED <<tail, ckpt, todo>>
  BY DEF IInv, Begin
<1> HIDE DEF S
<1>1. /\ outcome' \in [Events -> SUBSET Outcomes]
      /\ Grows
      /\ \A i \in Events : i \in S => "passed" \in outcome'[i]
      /\ \A i \in Events : "published" \in outcome'[i] => "published" \in outcome[i]
  BY <1>0, BecomesAdds DEF Outcomes
<1>2. start \in 0 .. MaxEvents /\ start <= tail
  BY <1>0, BoundsAreNat DEF TypeOK, NoCheckpoint, IInv
<1>3. cursor' = [cursor EXCEPT ![k] = start]
  BY DEF Begin
<1> HIDE DEF start
<1>4. TypeOK'
  BY <1>0, <1>1, <1>2, <1>3 DEF TypeOK, Begin, Goto
<1>5. (ckpt <= tail)' /\ NothingLost' /\ NoOvertaking'
  BY <1>0, <1>1, OutcomesKeep
<1>6. OnlyClient(k)
  BY <1>0, <1>3 DEF OnlyClient, Begin, Goto, TypeOK
<1>7. ClientInv(k)'
  <2>1. cursor'[k] = start /\ todo'[k] = {} /\ todo' = todo
    BY <1>0, <1>3 DEF TypeOK, IInv, ClientInv, Begin
  <2>2. ASSUME NEW i \in Events, i <= start PROVE outcome'[i] # {}
    <3>1. CASE ckpt = NoCheckpoint
      <4>1. i \in S
        BY <1>0, <2>2, <3>1, BoundsAreNat DEF S, start, Events, TypeOK
      <4> QED
        BY <1>1, <4>1
    <3>2. CASE ckpt # NoCheckpoint
      BY <1>1, <2>2, <3>2 DEF start, IInv, NothingLost, Grows
    <3> QED
      BY <3>1, <3>2
  <2> QED
    BY <1>0, <1>2, <2>1, <2>2 DEF ClientInv
<1>8. \A j \in Clients : ClientInv(j)'
  BY <1>0, <1>1, <1>6, <1>7, OthersKeep
<1> QED
  BY <1>4, <1>5, <1>8 DEF IInv

(* A client that ends drops what it has in hand; the checkpoint it may have *)
(* moved before lies behind events that are dealt with.                     *)
LEMMA EndKeeps ==
  ASSUME IInv, NEW k \in Clients, End(k), UNCHANGED <<tail, owner, cursor, outcome>>,
         \/ ckpt' = ckpt
         \/ ckpt' = cursor[k] /\ pc[k] = "checkpoint"
  PROVE  IInv'
<1>1. TypeOK'
  BY BoundsAreNat DEF IInv, TypeOK, End, Goto, NoCheckpoint
<1>2. (ckpt <= tail)' /\ NothingLost' /\ NoOvertaking'
  BY DEF IInv, TypeOK, ClientInv, NothingLost, NoOvertaking
<1>3. OnlyClient(k) /\ Grows
  BY DEF IInv, TypeOK, End, Goto, OnlyClient, Grows
<1>4. ClientInv(k)'
  BY DEF IInv, TypeOK, End, Goto, ClientInv
<1> QED
  BY <1>1, <1>2, <1>3, <1>4, OthersKeep DEF IInv

(* Receiving a batch puts it into the client's hands, with nothing between  *)
(* it and the cursor (consumer.go:262-291).                                 *)
LEMMA ReceiveKeeps ==
  ASSUME IInv, NEW k \in Clients, ReceiveEvents(k)
  PROVE  IInv'
<1>1. PICK last \in cursor[k] + 1 .. cursor[k] + MaxBatch :
        /\ last <= tail
        /\ cursor' = [cursor EXCEPT ![k] = last]
        /\ todo' = [todo EXCEPT ![k] = cursor[k] + 1 .. last]
  BY DEF ReceiveEvents
<1>2. /\ pc[k] = "receive" /\ pc' = [pc EXCEPT ![k] = "translate"]
      /\ UNCHANGED <<tail, ckpt, owner, outcome>>
  BY DEF ReceiveEvents, Goto
<1>3. /\ cursor[k] \in 0 .. MaxEvents /\ tail \in 0 .. MaxEvents /\ last \in Int
      /\ last \in 0 .. MaxEvents /\ last > cursor[k]
  BY <1>1, BoundsAreNat DEF IInv, TypeOK
<1>4. TypeOK'
  BY <1>1, <1>2, <1>3, BoundsAreNat DEF IInv, TypeOK, Events, InBatch
<1>5. Grows /\ OnlyClient(k)
  BY <1>1, <1>2 DEF IInv, TypeOK, Grows, OnlyClient
<1>6. (ckpt <= tail)' /\ NothingLost' /\ NoOvertaking'
  BY <1>2, <1>5, OutcomesKeep
<1>7. ClientInv(k)'
  <2>1. /\ todo'[k] = cursor[k] + 1 .. last /\ cursor'[k] = last
        /\ pc'[k] = "translate" /\ todo[k] = {}
    BY <1>1, <1>2 DEF IInv, TypeOK, ClientInv
  <2>2. ASSUME NEW i \in Events, i <= last, i \notin cursor[k] + 1 .. last
        PROVE  outcome[i] # {}
    <3>1. i <= cursor[k]
      BY <1>3, <2>2, BoundsAreNat DEF Events
    <3> QED
      BY <1>2, <2>1, <3>1 DEF IInv, ClientInv
  <2>3. /\ cursor[k] + 1 .. last \subseteq 1 .. last
        /\ \A i \in cursor[k] + 1 .. last : last < i + MaxBatch
    BY <1>1, <1>3, BoundsAreNat
  <2> QED
    BY <1>1, <1>2, <2>1, <2>2, <2>3 DEF ClientInv
<1> QED
  BY <1>2, <1>4, <1>5, <1>6, <1>7, OthersKeep DEF IInv

(* A step that takes events out of a client's hands and records an outcome  *)
(* other than a publication for them.                                       *)
LEMMA SettlingKeeps ==
  ASSUME IInv, NEW k \in Clients, NEW rest \in SUBSET todo[k],
         NEW what \in Outcomes \ {"published"}, NEW l \in InBatch,
         pc[k] # "ended", l = "checkpoint" => rest = {},
         Becomes(todo[k] \ rest, what), todo' = [todo EXCEPT ![k] = rest], Goto(k, l),
         UNCHANGED <<tail, ckpt, owner, cursor>>
  PROVE  IInv'
<1>1. /\ outcome' \in [Events -> SUBSET Outcomes]
      /\ Grows
      /\ \A i \in Events : i \in todo[k] \ rest => what \in outcome'[i]
      /\ \A i \in Events : "published" \in outcome'[i] => "published" \in outcome[i]
  BY BecomesAdds DEF IInv
<1>2. TypeOK'
  BY <1>1 DEF IInv, TypeOK, Goto
<1>3. OnlyClient(k)
  BY DEF IInv, TypeOK, Goto, OnlyClient
<1>4. (ckpt <= tail)' /\ NothingLost' /\ NoOvertaking'
  BY <1>1, OutcomesKeep
<1>5. ClientInv(k)'
  <2>1. todo'[k] = rest /\ pc'[k] = l /\ cursor' = cursor /\ tail' = tail /\ ClientInv(k)
    BY DEF IInv, TypeOK, Goto
  <2>2. ASSUME NEW i \in Events, i <= cursor[k], i \notin rest PROVE outcome'[i] # {}
    <3>1. CASE i \in todo[k]
      BY <1>1, <2>2, <3>1
    <3>2. CASE i \notin todo[k]
      BY <1>1, <2>1, <2>2, <3>2 DEF ClientInv, Grows
    <3> QED
      BY <3>1, <3>2
  <2>3. l \in {"ended", "receive", "checkpoint"} => rest = {}
    BY DEF InBatch
  <2> QED
    BY <2>1, <2>2, <2>3 DEF ClientInv
<1> QED
  BY <1>1, <1>2, <1>3, <1>4, <1>5, OthersKeep DEF IInv

(* The event published is the first one in hand: those before it are dealt  *)
(* with.                                                                    *)
LEMMA SentKeeps ==
  ASSUME IInv, NEW k \in Clients, Sent(k), pc[k] \in {"publish", "secondary"}
  PROVE  IInv'
<1>1. PICK e \in todo[k] :
        /\ IsNext(k, e)
        /\ todo' = [todo EXCEPT ![k] = @ \ {e}]
        /\ Becomes({e}, "published")
  BY DEF Sent
<1>2. UNCHANGED <<tail, ckpt, owner, cursor>> /\ pc' = [pc EXCEPT ![k] = "sent"]
  BY DEF Sent, Goto
<1>3. TypeOK /\ ClientInv(k) /\ e \in Events
  BY <1>1 DEF IInv, TypeOK
<1>4. /\ outcome' \in [Events -> SUBSET Outcomes]
      /\ Grows
      /\ "published" \in outcome'[e]
      /\ \A i \in Events : i # e => outcome'[i] = outcome[i]
  BY <1>1, <1>3, BecomesAdds DEF Outcomes
<1>5. TypeOK'
  BY <1>1, <1>2, <1>3, <1>4 DEF TypeOK, InBatch
<1>6. OnlyClient(k)
  BY <1>1, <1>2, <1>3 DEF TypeOK, OnlyClient
<1>7. \A i \in Events : i < e => outcome[i] # {}
  <2> SUFFICES ASSUME NEW i \in Events, i < e PROVE outcome[i] # {}
    OBVIOUS
  <2>1. i \notin todo[k]
    BY <1>1, <1>3, BoundsAreNat DEF IsNext, Events
  <2>2. i <= cursor[k]
    BY <1>1, <1>3, BoundsAreNat DEF ClientInv, Events, TypeOK
  <2> QED
    BY <1>3, <2>1, <2>2 DEF ClientInv
<1>8. (ckpt <= tail)' /\ NothingLost'
  BY <1>2, <1>4 DEF IInv, NothingLost, Grows
<1>9. NoOvertaking'
  BY <1>4, <1>7 DEF IInv, NoOvertaking, Grows
<1>10. ClientInv(k)'
  <2>1. todo'[k] = todo[k] \ {e} /\ pc'[k] = "sent" /\ cursor' = cursor /\ tail' = tail
    BY <1>1, <1>2, <1>3 DEF TypeOK
  <2> QED
    BY <1>3, <1>4, <2>1 DEF ClientInv, Grows
<1> QED
  BY <1>2, <1>4, <1>5, <1>6, <1>8, <1>9, <1>10, OthersKeep DEF IInv

(* Steps that only move a client on.                                        *)
LEMMA MovingKeeps ==
  ASSUME IInv, NEW k \in Clients, NEW l \in InBatch, Goto(k, l), pc[k] # "ended",
         l = "checkpoint" => todo[k] = {},
         UNCHANGED <<tail, ckpt, owner, cursor, todo, outcome>>
  PROVE  IInv'
<1>1. TypeOK' /\ (ckpt <= tail)' /\ NothingLost' /\ NoOvertaking'
  BY DEF IInv, TypeOK, Goto, NothingLost, NoOvertaking
<1>2. OnlyClient(k) /\ Grows
  BY DEF IInv, TypeOK, Goto, OnlyClient, Grows
<1>3. ClientInv(k)'
  BY DEF IInv, TypeOK, Goto, ClientInv, InBatch
<1> QED
  BY <1>1, <1>2, <1>3, OthersKeep DEF IInv

(* When the checkpoint moves, the client has nothing left in hand           *)
(* (consumer.go:300).                                                       *)
LEMMA CheckpointKeeps ==
  ASSUME IInv, NEW k \in Clients, UpdateCheckpoint(k)
  PROVE  IInv'
<1>1. TypeOK'
  BY BoundsAreNat DEF IInv, TypeOK, UpdateCheckpoint, Goto, NoCheckpoint
<1>2. (ckpt <= tail)' /\ NothingLost' /\ NoOvertaking'
  BY DEF IInv, TypeOK, ClientInv, UpdateCheckpoint, NothingLost, NoOvertaking
<1>3. OnlyClient(k) /\ Grows
  BY DEF IInv, TypeOK, UpdateCheckpoint, Goto, OnlyClient, Grows
<1>4. ClientInv(k)'
  BY DEF IInv, TypeOK, UpdateCheckpoint, Goto, ClientInv
<1> QED
  BY <1>1, <1>2, <1>3, <1>4, OthersKeep DEF IInv, UpdateCheckpoint

(* Every step of the loop of a partition keeps the invariant                *)
(* (consumer.go:262-304).                                                   *)
LEMMA PipelineKeeps ==
  ASSUME IInv, NEW k \in Clients, Pipeline(k)
  PROVE  IInv'
<1>1. CASE ReceiveEvents(k)
  BY <1>1, ReceiveKeeps
<1>2. CASE Translate(k)
  <2>1. PICK translated \in SUBSET todo[k] :
          /\ todo' = [todo EXCEPT ![k] = translated]
          /\ Becomes(todo[k] \ translated, "untranslated")
          /\ Goto(k, IF translated = {} THEN "checkpoint" ELSE "publish")
    BY <1>2 DEF Translate
  <2> DEFINE l == IF translated = {} THEN "checkpoint" ELSE "publish"
  <2>2. /\ l \in InBatch /\ (l = "checkpoint" => translated = {})
        /\ pc[k] # "ended" /\ UNCHANGED <<tail, ckpt, owner, cursor>>
    BY <1>2 DEF Translate, InBatch
  <2>3. "untranslated" \in Outcomes \ {"published"} /\ Goto(k, l)
    BY <2>1 DEF Outcomes
  <2> HIDE DEF l
  <2> QED
    BY <2>1, <2>2, <2>3, SettlingKeeps
<1>3. CASE SendToPrimary(k) \/ SendToSecondary(k)
  BY <1>3, SentKeeps DEF SendToPrimary, SendToSecondary
<1>4. CASE SendToPrimaryFails(k) \/ SendToSecondaryFails(k)
  <2>1. /\ \E l \in {"secondary", "failure"} : Goto(k, l)
        /\ pc[k] # "ended"
        /\ UNCHANGED <<tail, ckpt, owner, cursor, todo, outcome>>
    BY <1>4 DEF SendToPrimaryFails, SendToSecondaryFails
  <2> QED
    BY <2>1, MovingKeeps DEF InBatch
<1>5. CASE SendHealthSuccess(k)
  <2>1. /\ \E l \in {"success", "checkpoint", "publish"} :
             Goto(k, l) /\ (l = "checkpoint" => todo[k] = {})
        /\ pc[k] # "ended"
        /\ UNCHANGED <<tail, ckpt, owner, cursor, todo, outcome>>
    BY <1>5 DEF SendHealthSuccess
  <2> QED
    BY <2>1, MovingKeeps DEF InBatch
<1>6. CASE SendHealthFailure(k)
  <2>1. /\ Becomes(todo[k] \ {}, "dropped") /\ todo' = [todo EXCEPT ![k] = {}]
        /\ Goto(k, "checkpoint") /\ pc[k] # "ended"
        /\ UNCHANGED <<tail, ckpt, owner, cursor>>
    BY <1>6 DEF SendHealthFailure, Becomes
  <2>2. "dropped" \in Outcomes \ {"published"} /\ "checkpoint" \in InBatch
        /\ {} \in SUBSET todo[k]
    BY DEF Outcomes, InBatch
  <2> QED
    BY <2>1, <2>2, SettlingKeeps
<1>7. CASE UpdateCheckpoint(k)
  BY <1>7, CheckpointKeeps
<1> QED
  BY <1>1, <1>2, <1>3, <1>4, <1>5, <1>6, <1>7 DEF Pipeline

(* New events come behind everything (external: Azure Event Hubs).           *)
LEMMA ArriveKeeps ==
  ASSUME IInv, Arrive
  PROVE  IInv'
<1>1. TypeOK'
  BY BoundsAreNat DEF IInv, TypeOK, Arrive
<1>2. (ckpt <= tail)' /\ NothingLost' /\ NoOvertaking'
  BY BoundsAreNat DEF IInv, TypeOK, Arrive, NothingLost, NoOvertaking, NoCheckpoint
<1>3. \A k \in Clients : ClientInv(k)'
  BY BoundsAreNat DEF IInv, TypeOK, Arrive, ClientInv
<1> QED
  BY <1>1, <1>2, <1>3 DEF IInv

(* The invariant holds throughout: what lies behind a client's cursor is     *)
(* settled or in its hands (consumer.go:247-305).                           *)
THEOREM Inductive == Spec => []IInv
<1>1. ASSUME IInv, [Next]_vars PROVE IInv'
  <2>1. CASE UNCHANGED vars
    BY <1>1, <2>1 DEF vars, IInv, TypeOK, NothingLost, NoOvertaking, ClientInv
  <2>2. CASE Arrive
    BY <1>1, <2>2, ArriveKeeps
  <2>3. CASE \E k \in Clients : Claim(k) \/ Steal(k)
    BY <1>1, <2>3, BeginKeeps DEF Claim, Steal
  <2>4. CASE \E k \in Clients : Pipeline(k)
    BY <1>1, <2>4, PipelineKeeps
  <2>5. CASE \E k \in Clients : Crash(k) \/ ReceiveEventsFails(k)
    BY <1>1, <2>5, EndKeeps DEF Crash, ReceiveEventsFails
  <2>6. CASE \E k \in Clients : UpdateCheckpointFails(k)
    BY <1>1, <2>6, EndKeeps DEF UpdateCheckpointFails
  <2> QED
    BY <1>1, <2>1, <2>2, <2>3, <2>4, <2>5, <2>6 DEF Next, Disturbance
<1> QED
  BY InitIInv, <1>1, PTL DEF Spec

(* Type correctness.                                                        *)
THEOREM TypeCorrect == Spec => []TypeOK
<1>1. IInv => TypeOK
  BY DEF IInv
<1> QED
  BY Inductive, <1>1, PTL

(* The checkpoint never goes over an event that was not dealt with,         *)
(* whatever crashes, steals and failed calls do (consumer.go:262-304).      *)
THEOREM NothingIsLost == Spec => []NothingLost
<1>1. IInv => NothingLost
  BY DEF IInv
<1> QED
  BY Inductive, <1>1, PTL

(* No event is published while an earlier one waits for its first turn      *)
(* (publisher.go:185-195).                                                  *)
THEOREM NoneOvertakes == Spec => []NoOvertaking
<1>1. IInv => NoOvertaking
  BY DEF IInv
<1> QED
  BY Inductive, <1>1, PTL

-----------------------------------------------------------------------------
(* The log of the partition, as PartitionLog describes it.                  *)
Published == {i \in Events : "published" \in outcome[i]}
Skipped == {i \in Events : outcome[i] \cap GivenUp # {}}

(* An event is settled in the log when it has any outcome at all.           *)
LEMMA SettledIsAnyOutcome ==
  ASSUME TypeOK
  PROVE  \A i \in Events : i \in Log!Settled <=> outcome[i] # {}
<1> SUFFICES ASSUME NEW i \in Events PROVE i \in Log!Settled <=> outcome[i] # {}
  OBVIOUS
<1>1. outcome[i] \subseteq GivenUp \cup {"published"}
  BY DEF TypeOK, Outcomes, GivenUp
<1> QED
  BY <1>1 DEF Log!Settled

(* Recording an outcome shows in the log as one set that grows.             *)
LEMMA BecomesInLog ==
  ASSUME TypeOK, NEW S \in SUBSET Events, NEW what \in Outcomes, Becomes(S, what)
  PROVE  /\ what = "published" => Published' = Published \cup S /\ Skipped' = Skipped
         /\ what # "published" => Skipped' = Skipped \cup S /\ Published' = Published
<1>1. \A i \in Events :
        outcome'[i] = IF i \in S THEN outcome[i] \cup {what} ELSE outcome[i]
  BY DEF Becomes
<1>2. what # "published" => what \in GivenUp
  BY DEF Outcomes, GivenUp
<1>3. "published" \notin GivenUp
  BY DEF GivenUp
<1>4. CASE what = "published"
  BY <1>1, <1>3, <1>4 DEF Published, Skipped
<1>5. CASE what # "published"
  BY <1>1, <1>2, <1>5 DEF Published, Skipped
<1> QED
  BY <1>4, <1>5

(* Events a client has in hand lie within a batch of the first one that is  *)
(* not settled, so giving some of them up is a step of the log.             *)
LEMMA GivingUpImplements ==
  ASSUME IInv, NEW k \in Clients, NEW S \in SUBSET todo[k], pc[k] # "ended",
         NEW what \in Outcomes \ {"published"}, Becomes(S, what), UNCHANGED <<tail, ckpt>>
  PROVE  Log!GiveUp
<1>1. TypeOK /\ ClientInv(k)
  BY DEF IInv
<1>2. S \in SUBSET Events /\ S \in SUBSET (1 .. tail)
  BY <1>1, BoundsAreNat DEF TypeOK, ClientInv, Events
<1>3. Skipped' = Skipped \cup S /\ Published' = Published
  BY <1>1, <1>2, BecomesInLog
<1>4. ASSUME NEW i \in S, NEW j \in 1 .. i - MaxBatch PROVE j \in Log!Settled
  <2>1. i \in 1 .. cursor[k] /\ cursor[k] \in 0 .. MaxEvents /\ cursor[k] < i + MaxBatch
    BY <1>1 DEF TypeOK, ClientInv
  <2>2. j \in Events /\ j <= cursor[k]
    BY <2>1, BoundsAreNat DEF Events
  <2>3. j \notin todo[k]
    <3> SUFFICES ASSUME j \in todo[k] PROVE FALSE
      OBVIOUS
    <3>1. cursor[k] < j + MaxBatch
      BY <1>1 DEF ClientInv
    <3> QED
      BY <2>1, <3>1, BoundsAreNat
  <2> QED
    BY <1>1, <2>2, <2>3, SettledIsAnyOutcome DEF ClientInv
<1>5. \A i \in S : 1 .. i - MaxBatch \subseteq Log!Settled
  BY <1>4
<1> QED
  BY <1>2, <1>3, <1>5 DEF Log!GiveUp, Published, Skipped

(* The event that goes out is the first in hand.                            *)
LEMMA SentImplements ==
  ASSUME IInv, NEW k \in Clients, Sent(k), pc[k] # "ended"
  PROVE  Log!Publish
<1>1. PICK e \in todo[k] : IsNext(k, e) /\ Becomes({e}, "published")
  BY DEF Sent
<1>2. TypeOK /\ ClientInv(k) /\ UNCHANGED <<tail, ckpt>>
  BY DEF IInv, Sent
<1>3. e \in Events /\ e \in 1 .. tail /\ e <= cursor[k] /\ cursor[k] \in 0 .. MaxEvents
  BY <1>2, BoundsAreNat DEF TypeOK, ClientInv, Events
<1>4. Published' = Published \cup {e} /\ Skipped' = Skipped
  BY <1>1, <1>2, <1>3, BecomesInLog DEF Outcomes
<1>5. ASSUME NEW j \in 1 .. e - 1 PROVE j \in Log!Settled
  <2>1. j \in Events /\ j <= cursor[k] /\ j < e
    BY <1>3, BoundsAreNat DEF Events
  <2>2. j \notin todo[k]
    BY <1>1, <1>3, <2>1, BoundsAreNat DEF IsNext, Events
  <2> QED
    BY <1>2, <2>1, <2>2, SettledIsAnyOutcome DEF ClientInv
<1>6. 1 .. e - 1 \subseteq Log!Settled
  BY <1>5
<1> QED
  BY <1>2, <1>3, <1>4, <1>6 DEF Log!Publish, Published, Skipped

(* A client writes the checkpoint when all it has received is settled.      *)
LEMMA CheckpointImplements ==
  ASSUME IInv, NEW k \in Clients, pc[k] = "checkpoint", ckpt' = cursor[k],
         UNCHANGED <<tail, outcome>>
  PROVE  Log!MoveCheckpoint
<1>1. TypeOK /\ ClientInv(k)
  BY DEF IInv
<1>2. cursor[k] \in 0 .. tail /\ cursor[k] \in 0 .. MaxEvents
  BY <1>1, BoundsAreNat DEF TypeOK, ClientInv
<1>3. ASSUME NEW j \in 1 .. cursor[k] PROVE j \in Log!Settled
  <2>1. j \in Events /\ j <= cursor[k] /\ j \notin todo[k]
    BY <1>1, <1>2, BoundsAreNat DEF Events, ClientInv
  <2> QED
    BY <1>1, <2>1, SettledIsAnyOutcome DEF ClientInv
<1>4. 1 .. cursor[k] \subseteq Log!Settled
  BY <1>3
<1> QED
  BY <1>2, <1>4 DEF Log!MoveCheckpoint

(* A client that begins at Latest passes over what is there.                *)
LEMMA BeginImplements ==
  ASSUME IInv, NEW k \in Clients, Begin(k)
  PROVE  [Log!LogNext]_(Log!logVars)
<1>1. TypeOK /\ UNCHANGED <<tail, ckpt>>
  BY DEF IInv, Begin
<1>2. CASE ckpt = NoCheckpoint
  <2>1. 1 .. tail \in SUBSET Events /\ Becomes(1 .. tail, "passed")
    BY <1>1, <1>2, BoundsAreNat DEF Begin, TypeOK, Events
  <2>2. Skipped' = Skipped \cup 1 .. tail /\ Published' = Published
    BY <1>1, <2>1, BecomesInLog DEF Outcomes
  <2> QED
    BY <1>1, <1>2, <2>2 DEF Log!LogNext, Log!StartAtLatest, Published, Skipped, NoCheckpoint
<1>3. CASE ckpt # NoCheckpoint
  <2>1. Becomes({}, "passed")
    BY <1>3 DEF Begin
  <2>2. Skipped' = Skipped /\ Published' = Published
    BY <1>1, <2>1, BecomesInLog DEF Outcomes
  <2> QED
    BY <1>1, <2>2 DEF Log!logVars, Published, Skipped
<1> QED
  BY <1>2, <1>3

(* A step that moves neither the checkpoint nor an outcome is none of the   *)
(* log's.                                                                   *)
LEMMA StutterImplements ==
  UNCHANGED <<tail, ckpt, outcome>> => UNCHANGED Log!logVars
BY DEF Log!logVars

(* Every step of a partition client is a step of the log or none of its     *)
(* business.                                                                *)
LEMMA PipelineImplements ==
  ASSUME IInv, NEW k \in Clients, Pipeline(k)
  PROVE  [Log!LogNext]_(Log!logVars)
<1>1. CASE Translate(k)
  <2>1. PICK translated \in SUBSET todo[k] : Becomes(todo[k] \ translated, "untranslated")
    BY <1>1 DEF Translate
  <2>2. pc[k] # "ended" /\ UNCHANGED <<tail, ckpt>>
    BY <1>1 DEF Translate
  <2>3. "untranslated" \in Outcomes \ {"published"}
    BY DEF Outcomes
  <2>4. todo[k] \ translated \in SUBSET todo[k]
    OBVIOUS
  <2> QED
    BY <2>1, <2>2, <2>3, <2>4, GivingUpImplements DEF Log!LogNext
<1>2. CASE SendHealthFailure(k)
  <2>1. "dropped" \in Outcomes \ {"published"} /\ todo[k] \in SUBSET todo[k]
    BY DEF Outcomes
  <2>2. Becomes(todo[k], "dropped") /\ pc[k] # "ended" /\ UNCHANGED <<tail, ckpt>>
    BY <1>2 DEF SendHealthFailure
  <2> QED
    BY <2>1, <2>2, GivingUpImplements DEF Log!LogNext
<1>3. CASE SendToPrimary(k) \/ SendToSecondary(k)
  BY <1>3, SentImplements DEF SendToPrimary, SendToSecondary, Log!LogNext
<1>4. CASE UpdateCheckpoint(k)
  BY <1>4, CheckpointImplements DEF UpdateCheckpoint, Log!LogNext
<1>5. CASE ReceiveEvents(k) \/ SendToPrimaryFails(k) \/ SendToSecondaryFails(k)
             \/ SendHealthSuccess(k)
  BY <1>5, StutterImplements
  DEF ReceiveEvents, SendToPrimaryFails, SendToSecondaryFails, SendHealthSuccess
<1> QED
  BY <1>1, <1>2, <1>3, <1>4, <1>5 DEF Pipeline

LEMMA StepImplementsLog == IInv /\ [Next]_vars => [Log!LogNext]_(Log!logVars)
<1> SUFFICES ASSUME IInv, [Next]_vars PROVE [Log!LogNext]_(Log!logVars)
  OBVIOUS
<1>1. CASE UNCHANGED vars
  BY <1>1, StutterImplements DEF vars
<1>2. CASE Arrive
  BY <1>2 DEF Arrive, Log!LogNext, Log!Append
<1>3. CASE \E k \in Clients : Claim(k) \/ Steal(k)
  BY <1>3, BeginImplements DEF Claim, Steal
<1>4. CASE \E k \in Clients : Pipeline(k)
  BY <1>4, PipelineImplements
<1>5. CASE \E k \in Clients : Crash(k) \/ ReceiveEventsFails(k)
  BY <1>5, StutterImplements DEF Crash, ReceiveEventsFails
<1>6. ASSUME NEW k \in Clients, UpdateCheckpointFails(k)
      PROVE  [Log!LogNext]_(Log!logVars)
  <2>1. CASE ckpt' = ckpt
    BY <1>6, <2>1, StutterImplements DEF UpdateCheckpointFails
  <2>2. CASE ckpt' = cursor[k]
    BY <1>6, <2>2, CheckpointImplements DEF UpdateCheckpointFails, Log!LogNext
  <2> QED
    BY <1>6, <2>1, <2>2 DEF UpdateCheckpointFails
<1> QED
  BY <1>1, <1>2, <1>3, <1>4, <1>5, <1>6 DEF Next, Disturbance

(* Clients that come and go, lose the partition and die in the middle of a  *)
(* batch implement the log of PartitionLog (consumer.go:194-305,            *)
(* translate.go:189-240, publisher.go:185-210).                             *)
THEOREM Refinement == Spec => ImplementsPartitionLog
<1>1. Init => Log!LogInit
  <2> SUFFICES ASSUME Init PROVE Log!LogInit
    OBVIOUS
  <2>1. tail \in 0 .. MaxEvents /\ ckpt \in -1 .. tail
    BY DEF Init, NoCheckpoint
  <2>2. \A i \in Events : outcome[i] = IF i <= ckpt THEN {"published"} ELSE {}
    BY DEF Init
  <2>3. Published = 1 .. ckpt
    BY <2>1, <2>2, BoundsAreNat DEF Published, Events
  <2>4. Skipped = {}
    BY <2>2 DEF Skipped, GivenUp
  <2> QED
    BY <2>1, <2>3, <2>4 DEF Log!LogInit, Published, Skipped
<1> QED
  BY Inductive, StepImplementsLog, <1>1, PTL DEF Spec, ImplementsPartitionLog, Log!LogSpec

(* The log keeps what is given up within a batch of what is not settled.    *)
LEMMA LogStaysWithinOneBatch ==
  ASSUME Log!WithinOneBatch, [Log!LogNext]_(Log!logVars), tail \in Int
  PROVE  Log!WithinOneBatch'
<1> DEFINE P == {i \in Events : "published" \in outcome[i]}
           S == {i \in Events : outcome[i] \cap GivenUp # {}}
<1>1. \A i \in P \cup S : 1 .. i - MaxBatch \subseteq P \cup S
  BY DEF Log!WithinOneBatch, Log!Settled
<1>2. CASE Log!Publish
  <2>1. PICK e \in 1 .. tail : 1 .. e - 1 \subseteq P \cup S /\ P' = P \cup {e} /\ S' = S
    BY <1>2 DEF Log!Publish, Log!Settled
  <2> HIDE DEF P, S
  <2>2. 1 .. e - MaxBatch \subseteq 1 .. e - 1
    BY <2>1, BoundsAreNat
  <2>3. \A i \in P' \cup S' : 1 .. i - MaxBatch \subseteq P' \cup S'
    BY <1>1, <2>1, <2>2
  <2> QED
    BY <2>3 DEF P, S, Log!WithinOneBatch, Log!Settled
<1>3. CASE Log!GiveUp
  <2>1. PICK events \in SUBSET (1 .. tail) :
          /\ \A i \in events : 1 .. i - MaxBatch \subseteq P \cup S
          /\ S' = S \cup events /\ P' = P
    BY <1>3 DEF Log!GiveUp, Log!Settled
  <2> HIDE DEF P, S
  <2>2. \A i \in P' \cup S' : 1 .. i - MaxBatch \subseteq P' \cup S'
    BY <1>1, <2>1
  <2> QED
    BY <2>2 DEF P, S, Log!WithinOneBatch, Log!Settled
<1>4. CASE Log!StartAtLatest
  <2>1. S' = S \cup 1 .. tail /\ P' = P
    BY <1>4 DEF Log!StartAtLatest
  <2> HIDE DEF P, S
  <2>2. \A i \in 1 .. tail : 1 .. i - MaxBatch \subseteq 1 .. tail
    BY BoundsAreNat
  <2>3. \A i \in P' \cup S' : 1 .. i - MaxBatch \subseteq P' \cup S'
    BY <1>1, <2>1, <2>2
  <2> QED
    BY <2>3 DEF P, S, Log!WithinOneBatch, Log!Settled
<1>5. CASE Log!Append \/ Log!MoveCheckpoint \/ UNCHANGED Log!logVars
  <2>1. P' = P /\ S' = S
    BY <1>5 DEF Log!Append, Log!MoveCheckpoint, Log!logVars
  <2> HIDE DEF P, S
  <2>2. \A i \in P' \cup S' : 1 .. i - MaxBatch \subseteq P' \cup S'
    BY <1>1, <2>1
  <2> QED
    BY <2>2 DEF P, S, Log!WithinOneBatch, Log!Settled
<1> QED
  BY <1>2, <1>3, <1>4, <1>5 DEF Log!LogNext

(* However clients steal the partition from each other, no event is dealt   *)
(* with a whole batch or more ahead of one that is still to be: who begins  *)
(* behind the checkpoint meets at most one batch with gaps                  *)
(* (consumer.go:264-291).                                                   *)
THEOREM GapsWithinOneBatch == Spec => []Log!WithinOneBatch
<1>1. Init => Log!WithinOneBatch
  <2> SUFFICES ASSUME Init PROVE Log!WithinOneBatch
    OBVIOUS
  <2>1. TypeOK /\ ckpt \in Int
    BY InitIInv, BoundsAreNat DEF IInv, TypeOK, NoCheckpoint
  <2>2. \A i \in Events : i \in Log!Settled <=> i <= ckpt
    BY <2>1, SettledIsAnyOutcome DEF Init
  <2>3. Log!Settled \subseteq Events
    BY DEF Log!Settled
  <2> QED
    BY <2>1, <2>2, <2>3, BoundsAreNat DEF Log!WithinOneBatch, Events
<1>2. IInv /\ Log!WithinOneBatch /\ [Next]_vars => Log!WithinOneBatch'
  <2>1. IInv => tail \in Int
    BY BoundsAreNat DEF IInv, TypeOK
  <2> QED
    BY <2>1, StepImplementsLog, LogStaysWithinOneBatch
<1> QED
  BY <1>1, <1>2, Inductive, PTL DEF Spec

-----------------------------------------------------------------------------
(* What the end of every batch rests on, apart from fairness.               *)

(* Induction over the natural numbers, as the existence of least elements.  *)
Below == OpToRel(<, Nat)

LEMMA LeastElement ==
  ASSUME NEW T \in SUBSET Nat, T # {}
  PROVE  \E m \in T : \A n \in T : m <= n
<1>1. IsWellFoundedOn(Below, Nat)
  BY NatLessThanWellFounded DEF Below
<1>2. Below = {pair \in Nat \X Nat : pair[1] < pair[2]}
  BY DEF OpToRel, Below
<1>3. PICK m \in T : \A n \in T : ~(<<n, m>> \in Below)
  BY <1>1, WFMin
<1>4. ASSUME NEW n \in T PROVE m <= n
  <2>1. <<n, m>> \in Nat \X Nat /\ <<n, m>> \notin Below
    BY <1>3
  <2>2. ~(n < m)
    BY <1>2, <2>1
  <2> QED BY <2>2
<1> QED BY <1>4

(* A publisher that is to send, or has failed to, has a message in hand,     *)
(* the first of those that are left.                                        *)
PublishersHaveAMessage ==
  \A k \in Clients :
    pc[k] \in {"publish", "secondary", "failure"} => \E i \in Events : IsNext(k, i)

HoldsSomething == \A k \in Clients : pc[k] \in {"publish", "secondary", "failure"} => todo[k] # {}

LEMMA HoldsSomethingStep == IInv /\ HoldsSomething /\ [Next]_vars => HoldsSomething'
<1> SUFFICES ASSUME IInv, HoldsSomething, [Next]_vars PROVE HoldsSomething'
  OBVIOUS
<1>0. /\ pc \in [Clients -> InBatch \cup {"ended", "receive"}]
      /\ todo \in [Clients -> SUBSET Events]
  BY DEF IInv, TypeOK
<1>1. CASE UNCHANGED <<pc, todo>>
  BY <1>1 DEF HoldsSomething
<1>2. ASSUME NEW k \in Clients, \E l \in {"ended", "receive", "translate", "sent", "success", "checkpoint"} : Goto(k, l),
             \A j \in Clients \ {k} : todo'[j] = todo[j]
      PROVE  HoldsSomething'
  BY <1>0, <1>2 DEF HoldsSomething, Goto
<1>3. ASSUME NEW k \in Clients, NEW l \in {"publish", "secondary", "failure"}, Goto(k, l),
             UNCHANGED todo, todo[k] # {}
      PROVE  HoldsSomething'
  BY <1>0, <1>3 DEF HoldsSomething, Goto
<1>4. ASSUME NEW k \in Clients, Translate(k) PROVE HoldsSomething'
  <2>1. PICK translated \in SUBSET todo[k] :
          /\ todo' = [todo EXCEPT ![k] = translated]
          /\ Goto(k, IF translated = {} THEN "checkpoint" ELSE "publish")
    BY <1>4 DEF Translate
  <2> QED BY <1>0, <2>1 DEF HoldsSomething, Goto
<1>5. ASSUME NEW k \in Clients, Pipeline(k) PROVE HoldsSomething'
  <2>1. CASE SendToPrimaryFails(k) \/ SendToSecondaryFails(k)
    BY <1>3, <2>1 DEF SendToPrimaryFails, SendToSecondaryFails, HoldsSomething
  <2>2. CASE SendHealthSuccess(k)
    <3>1. CASE Goto(k, "success") \/ Goto(k, "checkpoint")
      BY <1>2, <2>2, <3>1 DEF SendHealthSuccess
    <3>2. CASE todo[k] # {} /\ Goto(k, "publish")
      BY <1>3, <2>2, <3>2 DEF SendHealthSuccess
    <3> QED BY <2>2, <3>1, <3>2 DEF SendHealthSuccess
  <2>3. CASE SendToPrimary(k) \/ SendToSecondary(k)
    <3>1. PICK i \in todo[k] : todo' = [todo EXCEPT ![k] = @ \ {i}]
      BY <2>3 DEF SendToPrimary, SendToSecondary, Sent
    <3> QED BY <1>0, <1>2, <2>3, <3>1 DEF SendToPrimary, SendToSecondary, Sent
  <2>4. CASE ReceiveEvents(k)
    <3>1. PICK last \in cursor[k] + 1 .. cursor[k] + MaxBatch :
            todo' = [todo EXCEPT ![k] = cursor[k] + 1 .. last]
      BY <2>4 DEF ReceiveEvents
    <3> QED BY <1>0, <1>2, <2>4, <3>1 DEF ReceiveEvents
  <2>5. CASE SendHealthFailure(k) \/ UpdateCheckpoint(k)
    BY <1>0, <1>2, <2>5 DEF SendHealthFailure, UpdateCheckpoint
  <2> QED BY <1>4, <1>5, <2>1, <2>2, <2>3, <2>4, <2>5 DEF Pipeline
<1>6. ASSUME NEW k \in Clients, Begin(k) \/ Crash(k) \/ ReceiveEventsFails(k) \/ UpdateCheckpointFails(k)
      PROVE  HoldsSomething'
  BY <1>0, <1>2, <1>6 DEF Begin, Crash, ReceiveEventsFails, UpdateCheckpointFails, End
<1> QED BY <1>1, <1>5, <1>6 DEF Next, Arrive, Claim, Steal, Disturbance, vars

(* Whoever is to publish has something to publish, whatever the translator   *)
(* left and the grids refused, and the next message is the first one left    *)
(* (publisher.go:185-254, translate.go:350-360).                             *)
THEOREM NothingIsPublishedFromNothing == Spec => []PublishersHaveAMessage
<1>1. Init => HoldsSomething
  BY DEF Init, HoldsSomething
<1>2. IInv /\ HoldsSomething => PublishersHaveAMessage
  <2> SUFFICES ASSUME IInv, HoldsSomething, NEW k \in Clients,
                      pc[k] \in {"publish", "secondary", "failure"}
               PROVE  \E i \in Events : IsNext(k, i)
    BY DEF PublishersHaveAMessage
  <2>1. todo[k] \in SUBSET Events /\ todo[k] # {} /\ todo[k] \in SUBSET Nat
    BY BoundsAreNat DEF IInv, TypeOK, HoldsSomething, Events
  <2> QED BY <2>1, LeastElement DEF IsNext
<1> QED BY <1>1, <1>2, Inductive, HoldsSomethingStep, PTL DEF Spec

(* The positions between two messages of a batch, in their order.            *)
StageOf == [l \in InBatch |->
              CASE l = "translate" -> 1 [] l = "sent" -> 2 [] l = "success" -> 3
                [] l = "publish" -> 4 [] l = "secondary" -> 5 [] l = "failure" -> 6
                [] l = "checkpoint" -> 7]

BatchOnlyAdvances(k) ==
  pc[k] \in InBatch =>
    \/ UNCHANGED <<pc[k], cursor[k], todo[k]>>
    \/ pc'[k] \in {"receive", "ended"}
    \/ /\ cursor'[k] = cursor[k] /\ pc'[k] \in InBatch
       /\ todo'[k] \subseteq todo[k]
       /\ todo'[k] # todo[k] \/ StageOf[pc'[k]] > StageOf[pc[k]]

LEMMA Stages ==
  /\ StageOf["translate"] = 1 /\ StageOf["sent"] = 2 /\ StageOf["success"] = 3
  /\ StageOf["publish"] = 4 /\ StageOf["secondary"] = 5 /\ StageOf["failure"] = 6
  /\ StageOf["checkpoint"] = 7
BY DEF StageOf, InBatch

LEMMA PipelineAdvances ==
  ASSUME IInv, NEW k \in Clients, Pipeline(k)
  PROVE  BatchOnlyAdvances(k)
<1>0. /\ pc \in [Clients -> InBatch \cup {"ended", "receive"}]
      /\ todo \in [Clients -> SUBSET Events]
  BY DEF IInv, TypeOK
<1> SUFFICES ASSUME pc[k] \in InBatch PROVE BatchOnlyAdvances(k)
  BY DEF BatchOnlyAdvances
<1>1. CASE Translate(k)
  <2>1. /\ pc[k] = "translate" /\ cursor' = cursor
        /\ pc'[k] \in {"checkpoint", "publish"} /\ todo'[k] \subseteq todo[k]
    BY <1>0, <1>1 DEF Translate, Goto
  <2> QED BY <2>1, Stages DEF BatchOnlyAdvances, InBatch
<1>2. CASE SendToPrimary(k) \/ SendToSecondary(k)
  <2>1. PICK i \in todo[k] : todo' = [todo EXCEPT ![k] = @ \ {i}]
    BY <1>2 DEF SendToPrimary, SendToSecondary, Sent
  <2>2. todo'[k] = todo[k] \ {i} /\ cursor' = cursor /\ pc'[k] = "sent"
    BY <1>0, <1>2, <2>1 DEF SendToPrimary, SendToSecondary, Sent, Goto
  <2> QED BY <2>2 DEF BatchOnlyAdvances, InBatch
<1>3. CASE SendToPrimaryFails(k) \/ SendToSecondaryFails(k) \/ SendHealthSuccess(k)
  <2>1. UNCHANGED <<cursor, todo>>
    BY <1>3 DEF SendToPrimaryFails, SendToSecondaryFails, SendHealthSuccess
  <2>2. /\ pc'[k] \in InBatch
        /\ \/ pc[k] = "publish" /\ pc'[k] = "secondary"
           \/ pc[k] = "secondary" /\ pc'[k] = "failure"
           \/ pc[k] = "sent" /\ pc'[k] = "success"
           \/ pc[k] = "success" /\ pc'[k] \in {"checkpoint", "publish"}
    BY <1>0, <1>3 DEF SendToPrimaryFails, SendToSecondaryFails, SendHealthSuccess, Goto, InBatch
  <2> QED BY <2>1, <2>2, Stages DEF BatchOnlyAdvances
<1>4. CASE SendHealthFailure(k)
  <2>1. /\ pc[k] = "failure" /\ pc'[k] = "checkpoint" /\ cursor' = cursor
        /\ todo'[k] = {}
    BY <1>0, <1>4 DEF SendHealthFailure, Goto
  <2> QED BY <2>1, Stages DEF BatchOnlyAdvances, InBatch
<1>5. CASE UpdateCheckpoint(k)
  BY <1>0, <1>5 DEF UpdateCheckpoint, Goto, BatchOnlyAdvances
<1>6. ~ReceiveEvents(k)
  BY DEF ReceiveEvents, InBatch
<1> QED BY <1>1, <1>2, <1>3, <1>4, <1>5, <1>6 DEF Pipeline

(* A batch in hand is never begun again and never waits for another client:  *)
(* whatever fails, the steps of its client lead to the checkpoint, message   *)
(* by message, and those of others, a new owner included, leave it where it  *)
(* is (consumer.go:262-304, publisher.go:185-254).                           *)
THEOREM BatchesOnlyAdvance == Spec => [][\A k \in Clients : BatchOnlyAdvances(k)]_vars
<1>1. IInv /\ [Next]_vars => [\A k \in Clients : BatchOnlyAdvances(k)]_vars
  <2> SUFFICES ASSUME IInv, Next, NEW k \in Clients PROVE BatchOnlyAdvances(k)
    OBVIOUS
  <2>0. /\ pc \in [Clients -> InBatch \cup {"ended", "receive"}]
        /\ cursor \in [Clients -> 0 .. MaxEvents]
        /\ todo \in [Clients -> SUBSET Events]
    BY DEF IInv, TypeOK
  <2>1. CASE Arrive
    BY <2>1 DEF Arrive, BatchOnlyAdvances
  <2>2. ASSUME NEW j \in Clients, Begin(j) PROVE BatchOnlyAdvances(k)
    <3>1. CASE k = j
      BY <2>2, <3>1 DEF Begin, BatchOnlyAdvances, InBatch
    <3>2. CASE k # j
      BY <2>0, <2>2, <3>2 DEF Begin, Goto, BatchOnlyAdvances
    <3> QED BY <3>1, <3>2
  <2>3. ASSUME NEW j \in Clients, Pipeline(j) PROVE BatchOnlyAdvances(k)
    <3>1. CASE k = j
      BY <2>3, <3>1, PipelineAdvances
    <3>2. CASE k # j
      <4>1. UNCHANGED <<pc[k], cursor[k], todo[k]>>
        BY <2>0, <2>3, <3>2 DEF Pipeline, ReceiveEvents, Translate, SendToPrimary, SendToSecondary,
           Sent, SendToPrimaryFails, SendToSecondaryFails, SendHealthSuccess, SendHealthFailure,
           UpdateCheckpoint, Goto
      <4> QED BY <4>1 DEF BatchOnlyAdvances
    <3> QED BY <3>1, <3>2
  <2>4. ASSUME NEW j \in Clients, Crash(j) \/ ReceiveEventsFails(j) \/ UpdateCheckpointFails(j)
        PROVE  BatchOnlyAdvances(k)
    <3>1. Goto(j, "ended") /\ todo' = [todo EXCEPT ![j] = {}] /\ cursor' = cursor
      BY <2>4 DEF Crash, ReceiveEventsFails, UpdateCheckpointFails, End
    <3> QED BY <2>0, <3>1 DEF Goto, BatchOnlyAdvances
  <2> QED BY <2>1, <2>2, <2>3, <2>4 DEF Next, Claim, Steal, Disturbance
<1> QED BY <1>1, Inductive, PTL DEF Spec
=============================================================================
