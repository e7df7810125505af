---------------------------- MODULE MetricsLocks ----------------------------
(***************************************************************************)
(* Who waits for whom in one process: the three mutexes of the metrics     *)
(* registry (metrics/metrics.go), the locks of the health task             *)
(* (tasks/health/health.go) and the unbuffered health channel.  The        *)
(* gatherer calls the gauge functions, which take the health locks, while  *)
(* it holds all three mutexes, and the health loop waits for the monitor   *)
(* while it holds a health lock; so a slow monitor holds up everyone who   *)
(* counts anything, and a monitor that counted would end in a deadlock.    *)
(***************************************************************************)
EXTENDS Integers, Sequences

CONSTANTS
  Callers,   \* partition and cache goroutines, which count, set and report
  Gatherer,  \* the goroutine of Metrics.Start
  Health,    \* the health loop of a backup
  Monitor    \* the monitor loop

ASSUME GoroutinesDistinct ==
  /\ Gatherer # Health /\ Health # Monitor /\ Monitor # Gatherer
  /\ Callers \cap {Gatherer, Health, Monitor} = {}

Goroutines == Callers \cup {Gatherer, Health, Monitor}

Mutexes == {"hm", "gm", "cm"}
Locks == Mutexes \cup {"peerHealthLock", "myHealthLock"}

(* What a goroutine does, as far as others may have to wait for it.         *)
Lock(l) == <<"lock", l>>
Unlock(l) == <<"unlock", l>>
Send == <<"send", "healthChannel">>

With(l, body) == <<Lock(l)>> \o body \o <<Unlock(l)>>

VARIABLES
  todo,    \* what is left of the call each goroutine is in
  holder   \* who holds each lock, {} or a singleton

vars == <<todo, holder>>

-----------------------------------------------------------------------------
(* The registry.                                                           *)

CounterAddN == With("cm", <<>>)
GaugeSet == With("gm", <<>>)
CounterSetBatchFunc == With("gm", With("cm", <<>>))
Reset == With("hm", With("gm", With("cm", <<>>)))

(* The gauges are called in the order of the map, which is any order.       *)
GetMyHealth == With("myHealthLock", <<>>)
GetPeerHealth == With("peerHealthLock", <<>>)

(* Mutant of Snapshot: the locks are taken in the opposite order.           *)
SnapshotReversed ==
  {With("cm", With("gm", With("hm", gauges))) :
     gauges \in {GetMyHealth \o GetPeerHealth, GetPeerHealth \o GetMyHealth}}

Snapshot ==
  {With("hm", With("gm", With("cm", gauges))) :
     gauges \in {GetMyHealth \o GetPeerHealth, GetPeerHealth \o GetMyHealth}}

(* Health, monitor and pipeline.                                           *)

SetPeerHealth == {With("peerHealthLock", <<>>), With("peerHealthLock", <<Send>>)}

(* Mutant of HandleMessage: the monitor sets a gauge.                       *)
HandleAndCount == {With("myHealthLock", <<>>), GaugeSet}

(* Failover and Success set the replica's own health; a takeover creates or *)
(* stops the consumer without a lock.                                       *)
HandleMessage == {With("myHealthLock", <<>>), <<>>}

Calls(g) ==
  CASE g = Gatherer -> {CounterAddN, GaugeSet} \cup Snapshot
    [] g = Health   -> SetPeerHealth
    [] g = Monitor  -> {}
    [] OTHER        -> {CounterAddN, GaugeSet, CounterSetBatchFunc, Reset, <<Send>>}

Steps == ({"lock", "unlock"} \X Locks) \cup {Send}

TypeOK ==
  /\ todo \in [Goroutines -> Seq(Steps)]
  /\ holder \in [Locks -> {{}} \cup {{g} : g \in Goroutines}]

Init ==
  /\ todo = [g \in Goroutines |-> <<>>]
  /\ holder = [l \in Locks |-> {}]

-----------------------------------------------------------------------------
Call(g) ==
  /\ todo[g] = <<>>
  /\ \E call \in Calls(g) : todo' = [todo EXCEPT ![g] = call]
  /\ UNCHANGED holder

IsNext(g, step) == todo[g] # <<>> /\ Head(todo[g]) = step

(* Mutant of Acquire: a read lock, which any number may hold.               *)
AcquireShared(g, l) ==
  /\ IsNext(g, Lock(l))
  /\ holder' = [holder EXCEPT ![l] = @ \cup {g}]
  /\ todo' = [todo EXCEPT ![g] = Tail(@)]

Acquire(g, l) ==
  /\ IsNext(g, Lock(l))
  /\ holder[l] = {}
  /\ holder' = [holder EXCEPT ![l] = @ \cup {g}]
  /\ todo' = [todo EXCEPT ![g] = Tail(@)]

Release(g, l) ==
  /\ IsNext(g, Unlock(l))
  /\ holder' = [holder EXCEPT ![l] = {}]
  /\ todo' = [todo EXCEPT ![g] = Tail(@)]

(* The rendezvous of a sender with the monitor in its select.              *)
Receive(g) ==
  /\ IsNext(g, Send)
  /\ todo[Monitor] = <<>>
  /\ \E handler \in HandleMessage :
       todo' = [todo EXCEPT ![g] = Tail(@), ![Monitor] = handler]
  /\ UNCHANGED holder

Step(g) ==
  \/ \E l \in Locks : Acquire(g, l) \/ Release(g, l)
  \/ Receive(g)

Next == \E g \in Goroutines : Call(g) \/ Step(g)

Spec == Init /\ [][Next]_vars

(***************************************************************************)
(* Runnable goroutines run; a sync.Mutex in starvation mode and a channel  *)
(* serve their waiters in order, so whoever waits again and again for      *)
(* something that becomes free again and again gets it.                    *)
(***************************************************************************)
FairSpec == Spec /\ \A g \in Goroutines : SF_vars(Step(g))

-----------------------------------------------------------------------------
(* The goroutines g waits for.                                             *)
WaitsFor(g) ==
  (UNION {holder[l] : l \in {l \in Locks : IsNext(g, Lock(l))}})
    \cup {m \in {Monitor} : IsNext(g, Send) /\ todo[m] # <<>>}

(* No deadlock: goroutines never wait for each other in a circle.           *)
(* metrics.go:288-289 asks for the order hm, gm, cm "or deadlock will       *)
(* result"; the health locks and the channel come after them.               *)
NoCircularWait ==
  \A S \in SUBSET Goroutines :
    S # {} => \E g \in S : WaitsFor(g) \cap S = {}

(* Every call returns, however the others use the registry and the channel *)
(* (metrics.go:240-269, health.go:322-351, publisher.go:196-210).          *)
CallsReturn == \A g \in Goroutines : todo[g] # <<>> ~> todo[g] = <<>>
=============================================================================
