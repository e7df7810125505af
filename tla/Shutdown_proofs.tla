-------------------------- MODULE Shutdown_proofs --------------------------
(* Proofs about Shutdown, for any of the tasks, both roles and any choice   *)
(* of enabled loops: nobody sends to a goroutine that is gone.              *)
EXTENDS Shutdown, TLAPS

(* A Stop works only when the context has ended.                            *)
StopsAfterCancel ==
  \A t \in Tasks :
    /\ sending[t] => ~Returned(t)
    /\ at[t] > 1 \/ sending[t] => cancelled

(* Where a health loop can be that has no message for the monitor and will  *)
(* have none: a primary's may go on, without blob calls, but never sends.   *)
Quiet == {"new", "select", "ended"} \cup (IF Role = "Primary" THEN {"busy"} ELSE {})

(* The flag of the health loop is up while it can send; once the Stop of    *)
(* the monitor is past the health loop, that loop sends no more.            *)
HealthGoesFirst ==
  "monitor" \in Tasks =>
    /\ ~flag["health"] => loop["health"] \in {"new", "ended"}
    /\ at["monitor"] > 1 => loop["health"] \in Quiet
    /\ loop["monitor"] = "ended" => at["monitor"] > 2

(* The loops that end only when they are told to: not the health loop, not  *)
(* the metrics, and not what the configuration has switched off.            *)
Obedient == Loops \ ({"health", "metrics"} \cup (Optional \ Enabled))

(* Such a loop has ended only if the Stop of its task is past it; the        *)
(* message in the cache's channel has been sent by its Stop; and no Stop     *)
(* sends to a chaos loop that is switched off.                              *)
EndedByItsStop ==
  /\ \A t \in Tasks : \A i \in DOMAIN StopOrder(t) :
       StopOrder(t)[i] \in Obedient /\ loop[StopOrder(t)[i]] = "ended" => at[t] > i
  /\ "cache" \in Tasks => (token => at["cache"] > 1 /\ loop["cache"] # "ended")
  /\ \A t \in Tasks : sending[t] => Current(t) \notin Chaos \ Enabled

IInv == TypeOK /\ StopsAfterCancel /\ HealthGoesFirst /\ EndedByItsStop

-----------------------------------------------------------------------------
(* The loops of the tasks, spelled out (run.go:165-172).                    *)
LEMMA StopOrderValues ==
  /\ StopOrder("monitor") = <<"health", "monitor">>
  /\ StopOrder("cache") = <<"cache">>
  /\ StopOrder("translator") = <<"logging">>
  /\ StopOrder("publisher") = <<"chaosPrimary", "chaosSecondary">>
  /\ StopOrder("metrics") = <<"metrics">>
BY DEF StopOrder

(* A Stop that is not done is at one of its task's loops, and only that of  *)
(* the monitor is ever at the health or the monitor loop.                   *)
LEMMA CurrentIsLoop ==
  ASSUME TypeOK, NEW t \in Tasks, ~Returned(t)
  PROVE  /\ Current(t) \in Loops
         /\ t # "monitor" => Current(t) \notin {"health", "monitor"}
         /\ t = "monitor" => Current(t) = IF at[t] = 1 THEN "health" ELSE "monitor"
         /\ at[t] + 1 \in 1 .. Len(StopOrder(t)) + 1
<1>1. at[t] \in Nat /\ Len(StopOrder(t)) \in Nat /\ at[t] \in 1 .. Len(StopOrder(t))
  BY StopOrderValues, TasksOK DEF TypeOK, Returned
<1>2. DOMAIN StopOrder(t) = 1 .. Len(StopOrder(t))
  BY StopOrderValues, TasksOK
<1>3. Current(t) \in Loops
  BY <1>1, <1>2 DEF Current, Loops
<1>4. at[t] + 1 \in 1 .. Len(StopOrder(t)) + 1
  BY <1>1
<1>5. t = "monitor" => Current(t) = IF at[t] = 1 THEN "health" ELSE "monitor"
  BY <1>1, StopOrderValues DEF Current
<1>6. t # "monitor" => Current(t) \notin {"health", "monitor"}
  BY <1>1, StopOrderValues, TasksOK DEF Current
<1> QED
  BY <1>3, <1>4, <1>5, <1>6

(* Health and monitor are loops of every process with a monitor.            *)
LEMMA MonitorLoops == "monitor" \in Tasks => "health" \in Loops /\ "monitor" \in Loops
<1> SUFFICES ASSUME "monitor" \in Tasks PROVE "health" \in Loops /\ "monitor" \in Loops
  OBVIOUS
<1>1. StopOrder("monitor")[1] = "health" /\ StopOrder("monitor")[2] = "monitor"
  BY StopOrderValues
<1>2. 1 \in DOMAIN StopOrder("monitor") /\ 2 \in DOMAIN StopOrder("monitor")
  BY StopOrderValues
<1> QED
  BY <1>1, <1>2 DEF Loops

(* Every loop is stopped by one task, in one place.                         *)
LEMMA StopOrderInjective ==
  ASSUME NEW t \in Tasks, NEW i \in DOMAIN StopOrder(t),
         NEW u \in Tasks, NEW j \in DOMAIN StopOrder(u),
         StopOrder(t)[i] = StopOrder(u)[j]
  PROVE  t = u /\ i = j
<1> DEFINE Place(s) ==
      CASE s = "health"         -> <<"monitor", 1>>
        [] s = "monitor"        -> <<"monitor", 2>>
        [] s = "cache"          -> <<"cache", 1>>
        [] s = "logging"        -> <<"translator", 1>>
        [] s = "chaosPrimary"   -> <<"publisher", 1>>
        [] s = "chaosSecondary" -> <<"publisher", 2>>
        [] s = "metrics"        -> <<"metrics", 1>>
<1>1. ASSUME NEW v \in Tasks, NEW k \in DOMAIN StopOrder(v)
      PROVE  Place(StopOrder(v)[k]) = <<v, k>>
  <2>1. CASE v = "monitor"
    BY <1>1, <2>1, StopOrderValues
  <2>2. CASE v = "cache"
    BY <1>1, <2>2, StopOrderValues
  <2>3. CASE v = "translator"
    BY <1>1, <2>3, StopOrderValues
  <2>4. CASE v = "publisher"
    BY <1>1, <2>4, StopOrderValues
  <2>5. CASE v = "metrics"
    BY <1>1, <2>5, StopOrderValues
  <2> QED
    BY <2>1, <2>2, <2>3, <2>4, <2>5, TasksOK
<1> HIDE DEF Place
<1>2. <<t, i>> = <<u, j>>
  BY <1>1
<1> QED
  BY <1>2

(* The place a Stop that is not done is at.                                 *)
LEMMA AtIsPlace ==
  ASSUME TypeOK, NEW t \in Tasks, ~Returned(t)
  PROVE  at[t] \in DOMAIN StopOrder(t) /\ at[t] \in Nat /\ Current(t) = StopOrder(t)[at[t]]
<1>1. at[t] \in Nat /\ Len(StopOrder(t)) \in Nat /\ at[t] \in 1 .. Len(StopOrder(t))
  BY StopOrderValues, TasksOK DEF TypeOK, Returned
<1>2. DOMAIN StopOrder(t) = 1 .. Len(StopOrder(t))
  BY StopOrderValues, TasksOK
<1> QED
  BY <1>1, <1>2 DEF Current

(* The cache has one loop, the cache's own.                                 *)
LEMMA CacheLoop ==
  "cache" \in Tasks => /\ "cache" \in Loops /\ 1 \in DOMAIN StopOrder("cache")
                       /\ StopOrder("cache")[1] = "cache"
<1> SUFFICES ASSUME "cache" \in Tasks
             PROVE  /\ "cache" \in Loops /\ 1 \in DOMAIN StopOrder("cache")
                    /\ StopOrder("cache")[1] = "cache"
  OBVIOUS
<1>1. 1 \in DOMAIN StopOrder("cache") /\ StopOrder("cache")[1] = "cache"
  BY StopOrderValues
<1> QED
  BY <1>1 DEF Loops

(* Only the Stop of the cache stops that loop.                              *)
LEMMA CacheStopsItself ==
  ASSUME NEW t \in Tasks, NEW i \in DOMAIN StopOrder(t), StopOrder(t)[i] = "cache"
  PROVE  t = "cache" /\ i = 1
<1>1. CASE t = "cache"
  BY <1>1, StopOrderValues
<1>2. CASE t = "monitor"
  BY <1>2, StopOrderValues
<1>3. CASE t \in {"translator", "publisher", "metrics"}
  BY <1>3, StopOrderValues
<1> QED
  BY <1>1, <1>2, <1>3, TasksOK

(* At first nothing has begun and nothing is stopped (app.go:48-80).        *)
LEMMA InitIInv == Init => IInv
<1> SUFFICES ASSUME Init PROVE IInv
  OBVIOUS
<1>1. \A t \in Tasks : 1 \in 1 .. Len(StopOrder(t)) + 1 /\ ~(1 > Len(StopOrder(t)))
  BY StopOrderValues, TasksOK
<1>2. TypeOK
  BY <1>1 DEF Init, TypeOK
<1>3. StopsAfterCancel
  <2> SUFFICES ASSUME NEW t \in Tasks
               PROVE  /\ sending[t] => ~Returned(t)
                      /\ at[t] > 1 \/ sending[t] => cancelled
    BY DEF StopsAfterCancel
  <2>1. at[t] = 1 /\ sending[t] = FALSE
    BY DEF Init
  <2> QED
    BY <2>1
<1>4. HealthGoesFirst
  BY MonitorLoops DEF Init, HealthGoesFirst
<1>5. EndedByItsStop
  BY DEF Init, EndedByItsStop, Obedient
<1> QED
  BY <1>2, <1>3, <1>4, <1>5 DEF IInv

-----------------------------------------------------------------------------
(* The steps of a loop, which leave the Stops alone.                        *)
LoopStep(s) ==
  \/ Begin(s) \/ Work(s) \/ Done(s)
  \/ BlobCallFails \/ Takeover \/ CacheStops

(* A loop keeps the invariant: a health loop the Stop has skipped finds its *)
(* context ended, and no loop but the cache's ends the monitor's wait       *)
(* (health.go:207-245).                                                     *)
LEMMA LoopStepKeeps ==
  ASSUME IInv, NEW s \in Loops, LoopStep(s)
  PROVE  IInv'
<1>1. UNCHANGED <<cancelled, at, sending>>
  BY DEF LoopStep, Begin, Work, Done, BlobCallFails, Takeover, CacheStops
<1>2. TypeOK'
  <2>1. CASE Begin(s) \/ Work(s) \/ Done(s)
    BY <1>1, <2>1 DEF IInv, TypeOK, Begin, Work, Done, Goto, SetFlag
  <2>2. CASE BlobCallFails \/ CacheStops
    BY <1>1, <2>2 DEF IInv, TypeOK, BlobCallFails, CacheStops, Goto, SetFlag
  <2>3. CASE Takeover
    BY <1>1, <2>3 DEF IInv, TypeOK, Takeover
  <2> QED
    BY <2>1, <2>2, <2>3 DEF LoopStep
<1>3. StopsAfterCancel'
  BY <1>1 DEF IInv, StopsAfterCancel, Returned
<1>4. HealthGoesFirst'
  <2> SUFFICES ASSUME "monitor" \in Tasks
               PROVE  /\ ~flag'["health"] => loop'["health"] \in {"new", "ended"}
                      /\ at["monitor"] > 1 => loop'["health"] \in Quiet
                      /\ loop'["monitor"] = "ended" => at["monitor"] > 2
    BY <1>1 DEF HealthGoesFirst
  <2>1. /\ ~flag["health"] => loop["health"] \in {"new", "ended"}
        /\ at["monitor"] > 1 => loop["health"] \in Quiet /\ cancelled
        /\ loop["monitor"] = "ended" => at["monitor"] > 2
    BY DEF IInv, HealthGoesFirst, StopsAfterCancel
  <2>2. /\ loop \in [Loops -> {"new", "select", "busy", "send", "ended"}]
        /\ flag \in [Loops -> BOOLEAN]
        /\ "health" \in Loops /\ "monitor" \in Loops
    BY MonitorLoops DEF IInv, TypeOK
  <2>3. CASE Begin(s)
    BY <2>1, <2>2, <2>3, RoleOK DEF Begin, Goto, SetFlag, Flagged, Optional, Chaos, Quiet
  <2>4. CASE Work(s)
    BY <2>1, <2>2, <2>4, RoleOK DEF Work, Goto, SetFlag, Quiet
  <2>5. CASE Done(s)
    BY <2>1, <2>2, <2>5, RoleOK DEF Done, Goto, Quiet
  <2>6. CASE BlobCallFails
    BY <2>1, <2>2, <2>6, RoleOK DEF BlobCallFails, Goto, SetFlag, Quiet
  <2>7. CASE Takeover
    BY <2>1, <2>2, <2>7, RoleOK DEF Takeover, Quiet
  <2>8. CASE CacheStops
    BY <2>1, <2>2, <2>8, RoleOK DEF CacheStops, Goto, Quiet
  <2> QED
    BY <2>3, <2>4, <2>5, <2>6, <2>7, <2>8 DEF LoopStep
<1>5. EndedByItsStop'
  <2>1. loop \in [Loops -> {"new", "select", "busy", "send", "ended"}]
    BY DEF IInv, TypeOK
  <2>2. UNCHANGED token \/ CacheStops
    BY DEF LoopStep, Begin, Work, Done, BlobCallFails, Takeover
  <2>3. ASSUME NEW l \in Obedient, loop'[l] = "ended"
        PROVE  loop[l] = "ended" \/ (l = "cache" /\ CacheStops)
    <3>1. l \in Loops /\ l # "health" /\ l \notin Optional \ Enabled
      BY DEF Obedient
    <3>2. CASE Begin(s)
      BY <2>1, <2>3, <3>1, <3>2 DEF Begin, Goto
    <3>3. CASE Work(s) \/ Done(s)
      BY <2>1, <2>3, <3>1, <3>3 DEF Work, Done, Goto
    <3>4. CASE BlobCallFails \/ Takeover
      BY <2>1, <2>3, <3>1, <3>4 DEF BlobCallFails, Takeover, Goto
    <3>5. CASE CacheStops
      BY <2>1, <2>3, <3>1, <3>5 DEF CacheStops, Goto
    <3> QED
      BY <3>2, <3>3, <3>4, <3>5 DEF LoopStep
  <2>4. ASSUME NEW t \in Tasks, NEW i \in DOMAIN StopOrder(t),
               StopOrder(t)[i] \in Obedient, loop'[StopOrder(t)[i]] = "ended"
        PROVE  at[t] > i
    <3>1. CASE loop[StopOrder(t)[i]] = "ended"
      BY <2>4, <3>1 DEF IInv, EndedByItsStop
    <3>2. CASE StopOrder(t)[i] = "cache" /\ CacheStops
      <4>1. t = "cache" /\ i = 1
        BY <2>4, <3>2, CacheStopsItself
      <4> QED
        BY <3>2, <4>1 DEF IInv, EndedByItsStop, CacheStops
    <3> QED
      BY <2>3, <2>4, <3>1, <3>2
  <2>5. "cache" \in Tasks => (token' => at["cache"] > 1 /\ loop'["cache"] # "ended")
    <3> SUFFICES ASSUME "cache" \in Tasks, token' PROVE at["cache"] > 1 /\ loop'["cache"] # "ended"
      OBVIOUS
    <3>1. token /\ ~CacheStops
      BY <2>2 DEF CacheStops
    <3>2. "cache" \in Obedient
      BY CacheLoop DEF Obedient, Optional, Chaos
    <3> QED
      BY <2>3, <3>1, <3>2 DEF IInv, EndedByItsStop
  <2> QED
    BY <1>1, <2>4, <2>5 DEF IInv, EndedByItsStop, Current
<1> QED
  BY <1>2, <1>3, <1>4, <1>5 DEF IInv

(* A Stop that skips or waits keeps the invariant: it skips the health loop *)
(* only while that has not begun or has ended (health.go:285-288).          *)
LEMMA CheckKeeps ==
  ASSUME IInv, NEW t \in Tasks, Check(t)
  PROVE  IInv'
<1>1. /\ Current(t) \in Loops
      /\ t # "monitor" => Current(t) \notin {"health", "monitor"}
      /\ t = "monitor" => Current(t) = IF at[t] = 1 THEN "health" ELSE "monitor"
      /\ at[t] + 1 \in 1 .. Len(StopOrder(t)) + 1
  BY CurrentIsLoop DEF IInv, Check
<1>2. TypeOK'
  <2>1. cancelled' \in BOOLEAN /\ token' \in BOOLEAN
    BY DEF IInv, TypeOK, Check
  <2>2. loop' \in [Loops -> {"new", "select", "busy", "send", "ended"}]
    BY DEF IInv, TypeOK, Check
  <2>3. flag' \in [Loops -> BOOLEAN]
    BY DEF Check
  <2>. at \in [Tasks -> Nat]
    BY DEF IInv, TypeOK
  <2>0. at' = at \/ at' = [at EXCEPT ![t] = at[t] + 1]
    BY Zenon DEF Check
  <2>4. at' \in [Tasks -> Nat]
    BY <2>0
  <2>5. ASSUME NEW u \in Tasks PROVE at'[u] \in 1 .. Len(StopOrder(u)) + 1
    <3>1. at[u] \in 1 .. Len(StopOrder(u)) + 1
      BY DEF IInv, TypeOK
    <3>2. at'[u] = at[u] \/ (u = t /\ at'[u] = at[u] + 1)
      BY <2>0
    <3> QED
      BY <1>1, <3>1, <3>2
  <2>6. sending' \in [Tasks -> BOOLEAN]
    BY DEF IInv, TypeOK, Check
  <2> QED
    BY <2>1, <2>2, <2>3, <2>4, <2>5, <2>6 DEF TypeOK
<1>3. StopsAfterCancel'
  BY DEF IInv, TypeOK, StopsAfterCancel, Check, Returned
<1>4. HealthGoesFirst'
  <2> SUFFICES ASSUME "monitor" \in Tasks PROVE HealthGoesFirst'
    BY DEF HealthGoesFirst
  <2>1. flag'["health"] = flag["health"] /\ UNCHANGED loop
    BY MonitorLoops DEF Check, IInv, TypeOK
  <2>2. CASE t = "monitor" /\ ~NeedsStop(Current(t))
    <3>1. Current(t) = "health" /\ at[t] = 1 /\ ~flag["health"]
      BY <1>1, <2>2 DEF NeedsStop, Chaos
    <3>2. loop["health"] \in {"new", "ended"} /\ loop["monitor"] # "ended"
      BY <3>1, <2>2 DEF IInv, HealthGoesFirst
    <3> QED
      BY <2>1, <3>1, <3>2 DEF HealthGoesFirst, Quiet
  <2>3. CASE ~(t = "monitor" /\ ~NeedsStop(Current(t)))
    <3>1. at'["monitor"] = at["monitor"]
      BY <2>3 DEF Check, IInv, TypeOK
    <3> QED
      BY <2>1, <3>1 DEF HealthGoesFirst, IInv
  <2> QED
    BY <2>2, <2>3
<1>5. EndedByItsStop'
  <2>1. at \in [Tasks -> Nat] /\ sending \in [Tasks -> BOOLEAN]
    BY DEF IInv, TypeOK
  <2>2. UNCHANGED <<loop, token>> /\ ~sending[t]
    BY DEF Check
  <2>3. CASE NeedsStop(Current(t))
    <3>1. sending' = [sending EXCEPT ![t] = TRUE] /\ at' = at
      BY <2>3 DEF Check
    <3>2. Current(t) \notin Chaos \ Enabled
      BY <2>3 DEF NeedsStop, Chaos
    <3> QED
      BY <2>1, <2>2, <3>1, <3>2 DEF IInv, EndedByItsStop, Current
  <2>4. CASE ~NeedsStop(Current(t))
    <3>1. at' = [at EXCEPT ![t] = @ + 1] /\ sending' = sending
      BY <2>4 DEF Check
    <3>2. \A u \in Tasks : at'[u] = at[u] \/ (u = t /\ at'[u] = at[u] + 1)
      BY <2>1, <3>1
    <3>3. ASSUME NEW u \in Tasks, NEW i \in DOMAIN StopOrder(u), at[u] > i PROVE at'[u] > i
      <4>1. i \in Int /\ at[u] \in Int
        BY <2>1, StopOrderValues, TasksOK
      <4> QED
        BY <3>2, <3>3, <4>1
    <3>4. "cache" \in Tasks => (at["cache"] > 1 => at'["cache"] > 1)
      BY <3>3, CacheLoop
    <3>5. \A u \in Tasks : sending'[u] => at'[u] = at[u] /\ sending[u]
      BY <2>1, <2>2, <3>1
    <3> QED
      BY <2>2, <3>3, <3>4, <3>5 DEF IInv, EndedByItsStop, Current
  <2> QED
    BY <2>3, <2>4
<1> QED
  BY <1>2, <1>3, <1>4, <1>5 DEF IInv

(* So does one that has been received: the loop it was sent to has ended    *)
(* (monitor.go:262-264).                                                    *)
LEMMA DeliverKeeps ==
  ASSUME IInv, NEW t \in Tasks, Deliver(t)
  PROVE  IInv'
<1>0. ~Returned(t) /\ cancelled
  BY DEF IInv, StopsAfterCancel, Deliver
<1>1. /\ Current(t) \in Loops
      /\ t # "monitor" => Current(t) \notin {"health", "monitor"}
      /\ t = "monitor" => Current(t) = IF at[t] = 1 THEN "health" ELSE "monitor"
      /\ at[t] + 1 \in 1 .. Len(StopOrder(t)) + 1
  BY <1>0, CurrentIsLoop DEF IInv
<1>2. TypeOK'
  <2>1. cancelled' \in BOOLEAN /\ token' \in BOOLEAN
    BY DEF IInv, TypeOK, Deliver, Sent
  <2>2. loop' \in [Loops -> {"new", "select", "busy", "send", "ended"}]
    BY <1>1 DEF IInv, TypeOK, Deliver, Goto
  <2>3. flag' \in [Loops -> BOOLEAN]
    BY <1>1 DEF IInv, TypeOK, Deliver, SetFlag
  <2>4. at' \in [Tasks -> Nat]
    BY DEF IInv, TypeOK, Deliver, Sent
  <2>5. \A u \in Tasks : at'[u] \in 1 .. Len(StopOrder(u)) + 1
    BY <1>1 DEF IInv, TypeOK, Deliver, Sent
  <2>6. sending' \in [Tasks -> BOOLEAN]
    BY DEF IInv, TypeOK, Deliver, Sent
  <2> QED
    BY <2>1, <2>2, <2>3, <2>4, <2>5, <2>6 DEF TypeOK
<1>3. StopsAfterCancel'
  BY <1>0 DEF IInv, TypeOK, StopsAfterCancel, Deliver, Sent, Returned
<1>4. HealthGoesFirst'
  <2> SUFFICES ASSUME "monitor" \in Tasks PROVE HealthGoesFirst'
    BY DEF HealthGoesFirst
  <2>1. "health" \in Loops /\ "monitor" \in Loops
    BY MonitorLoops
  <2>2. CASE t = "monitor"
    <3>1. at'["monitor"] = at["monitor"] + 1 /\ at["monitor"] \in 1 .. 2
      <4>1. at'["monitor"] = at["monitor"] + 1
        BY <2>2 DEF Deliver, Sent, IInv, TypeOK
      <4>2. Len(StopOrder("monitor")) = 2
        BY StopOrderValues
      <4>. at["monitor"] \in Nat
        BY DEF IInv, TypeOK
      <4>3. at["monitor"] # 0
        BY DEF IInv, TypeOK
      <4>4. ~(at["monitor"] > 2)
        BY <1>0, <2>2, <4>2 DEF Returned
      <4>5. at["monitor"] \in 1 .. 2
        BY <4>3, <4>4
      <4> QED
        BY <4>1, <4>5
    <3>2. /\ loop' = [loop EXCEPT ![Current(t)] = "ended"]
          /\ flag'["health"] = flag["health"]
      BY <1>1, <2>1, <2>2 DEF Deliver, Goto, SetFlag, IInv, TypeOK
    <3> QED
      BY <1>1, <2>1, <2>2, <3>1, <3>2 DEF IInv, TypeOK, HealthGoesFirst, Quiet
  <2>3. CASE t # "monitor"
    <3>1. /\ at'["monitor"] = at["monitor"]
          /\ flag'["health"] = flag["health"]
          /\ loop'["health"] = loop["health"] /\ loop'["monitor"] = loop["monitor"]
      BY <1>1, <2>1, <2>3 DEF Deliver, Sent, Goto, SetFlag, IInv, TypeOK
    <3> QED
      BY <3>1 DEF IInv, HealthGoesFirst
  <2> QED
    BY <2>2, <2>3
<1>5. EndedByItsStop'
  <2>1. /\ at \in [Tasks -> Nat] /\ sending \in [Tasks -> BOOLEAN]
        /\ loop \in [Loops -> {"new", "select", "busy", "send", "ended"}]
    BY DEF IInv, TypeOK
  <2>2. at' = [at EXCEPT ![t] = @ + 1] /\ sending' = [sending EXCEPT ![t] = FALSE] /\ sending[t]
    BY DEF Deliver, Sent
  <2>3. at[t] \in DOMAIN StopOrder(t) /\ at[t] \in Nat /\ Current(t) = StopOrder(t)[at[t]]
    BY <1>0, AtIsPlace DEF IInv
  <2>4. \A u \in Tasks : at'[u] = at[u] \/ (u = t /\ at'[u] = at[u] + 1)
    BY <2>1, <2>2
  <2>5. ASSUME NEW u \in Tasks, NEW i \in DOMAIN StopOrder(u), at[u] > i PROVE at'[u] > i
    <3>1. i \in Int /\ at[u] \in Int
      BY <2>1, StopOrderValues, TasksOK
    <3> QED
      BY <2>4, <2>5, <3>1
  <2>6. loop' = loop \/ (loop' = [loop EXCEPT ![Current(t)] = "ended"] /\ Current(t) # "cache")
    BY DEF Deliver, Goto
  <2>7. ASSUME NEW u \in Tasks, NEW i \in DOMAIN StopOrder(u),
               StopOrder(u)[i] \in Obedient, loop'[StopOrder(u)[i]] = "ended"
        PROVE  at'[u] > i
    <3>1. CASE loop[StopOrder(u)[i]] = "ended"
      BY <2>5, <2>7, <3>1 DEF IInv, EndedByItsStop
    <3>2. CASE StopOrder(u)[i] = Current(t)
      <4>1. u = t /\ i = at[t]
        BY <2>3, <3>2, StopOrderInjective
      <4> QED
        BY <2>1, <2>2, <2>3, <4>1
    <3>3. StopOrder(u)[i] \in Loops
      BY <2>7 DEF Obedient
    <3> QED
      BY <2>1, <2>6, <2>7, <3>1, <3>2, <3>3
  <2>8. "cache" \in Tasks => (token' => at'["cache"] > 1 /\ loop'["cache"] # "ended")
    <3> SUFFICES ASSUME "cache" \in Tasks, token'
                 PROVE  at'["cache"] > 1 /\ loop'["cache"] # "ended"
      OBVIOUS
    <3>1. loop'["cache"] = loop["cache"]
      BY <2>1, <2>6, CacheLoop
    <3>2. CASE token
      BY <2>5, <3>1, <3>2, CacheLoop DEF IInv, EndedByItsStop
    <3>3. CASE ~token
      <4>1. Current(t) = "cache"
        <5>1. Current(t) # "cache" => token' = token
          BY Zenon DEF Deliver
        <5> QED
          BY <3>3, <5>1, Zenon
      <4>2. t = "cache" /\ at[t] = 1
        BY <2>3, <4>1, CacheStopsItself
      <4>3. ~(at["cache"] > 1)
        BY <4>2
      <4>4. "cache" \in Obedient
        BY CacheLoop DEF Obedient, Optional, Chaos
      <4>5. loop["cache"] # "ended"
        BY <4>3, <4>4, CacheLoop DEF IInv, EndedByItsStop
      <4> QED
        BY <2>1, <2>2, <3>1, <4>2, <4>5
    <3> QED
      BY <3>2, <3>3
  <2>9. \A u \in Tasks : sending'[u] => at'[u] = at[u] /\ sending[u]
    BY <2>1, <2>2
  <2> QED
    BY <2>7, <2>8, <2>9 DEF IInv, EndedByItsStop, Current
<1> QED
  BY <1>2, <1>3, <1>4, <1>5 DEF IInv

-----------------------------------------------------------------------------
(* The invariant holds throughout a shutdown (app.go:48-106).               *)
THEOREM Inductive == Spec => []IInv
<1>1. IInv /\ [Next]_vars => IInv'
  <2> SUFFICES ASSUME IInv, [Next]_vars PROVE IInv'
    OBVIOUS
  <2>1. CASE Cancel
    BY <2>1 DEF Cancel, IInv, TypeOK, StopsAfterCancel, HealthGoesFirst, Returned,
         EndedByItsStop, Current
  <2>2. ASSUME NEW s \in Loops, Begin(s) \/ Work(s) \/ Done(s) PROVE IInv'
    BY <2>2, LoopStepKeeps DEF LoopStep
  <2>3. CASE BlobCallFails \/ Takeover \/ CacheStops
    <3>1. \E s \in Loops : LoopStep(s)
      BY <2>3 DEF LoopStep, BlobCallFails, Takeover, CacheStops
    <3> QED
      BY <3>1, LoopStepKeeps
  <2>4. ASSUME NEW t \in Tasks, Check(t) \/ Deliver(t) PROVE IInv'
    BY <2>4, CheckKeeps, DeliverKeeps
  <2>5. CASE UNCHANGED vars
    BY <2>5 DEF vars, IInv, TypeOK, StopsAfterCancel, HealthGoesFirst, Returned,
         EndedByItsStop, Current
  <2> QED
    BY <2>1, <2>2, <2>3, <2>4, <2>5 DEF Next
<1> QED
  BY <1>1, InitIInv, PTL DEF Spec

(* Type correctness (app.go:48-106).                                        *)
THEOREM TypeCorrect == Spec => []TypeOK
<1>1. IInv => TypeOK
  BY DEF IInv
<1> QED
  BY <1>1, Inductive, PTL

(* Nobody waits for a goroutine that is gone: neither a takeover message    *)
(* nor any Stop but those of the health loop and the metrics                *)
(* (monitor.go:262-264, health.go:322-351, translate.go:194,                *)
(* publisher.go:176, cache.go:483).                                         *)
THEOREM MessagesHaveAReceiver == Spec => []SendersHaveAReceiver
<1>1. IInv => SendersHaveAReceiver
  <2> SUFFICES ASSUME IInv PROVE SendersHaveAReceiver
    OBVIOUS
  <2>1. ASSUME "monitor" \in Tasks, loop["monitor"] = "ended" PROVE loop["health"] # "send"
    <3>1. at["monitor"] > 2 /\ at["monitor"] \in Nat
      BY <2>1 DEF IInv, TypeOK, HealthGoesFirst
    <3> QED
      BY <2>1, <3>1 DEF IInv, HealthGoesFirst, Quiet
  <2>2. ASSUME NEW t \in Tasks, sending[t], Current(t) \notin {"health", "metrics"}
        PROVE  loop[Current(t)] # "ended"
    <3>1. ~Returned(t)
      BY <2>2 DEF IInv, StopsAfterCancel
    <3>2. /\ at[t] \in DOMAIN StopOrder(t) /\ at[t] \in Nat
          /\ Current(t) = StopOrder(t)[at[t]] /\ Current(t) \in Loops
      BY <3>1, AtIsPlace, CurrentIsLoop DEF IInv
    <3>3. Current(t) \in Obedient
      BY <2>2, <3>2 DEF IInv, EndedByItsStop, Obedient, Optional
    <3>4. ~(at[t] > at[t])
      BY <3>2
    <3> QED
      BY <3>2, <3>3, <3>4 DEF IInv, EndedByItsStop
  <2>3. "cache" \in Tasks => (token => loop["cache"] # "ended")
    BY DEF IInv, EndedByItsStop
  <2> QED
    BY <2>1, <2>2, <2>3 DEF SendersHaveAReceiver
<1> QED
  BY <1>1, Inductive, PTL
=============================================================================
