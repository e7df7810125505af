------------------------------ MODULE Shutdown ------------------------------
(***************************************************************************)
(* How a replica stops (app/app.go, AppBase.Run): when the context ends,   *)
(* one goroutine per task calls its Stop, while the loops the tasks have   *)
(* started run on.  A Stop reads a flag that says whether there is a loop, *)
(* and sends on an unbuffered channel that the loop receives from in its   *)
(* select; between the two the loop may have ended by itself, or may not   *)
(* have begun when the flag was read.  Run waits for every Stop and for    *)
(* the Starts that are loops themselves.                                   *)
(***************************************************************************)
EXTENDS Integers, Sequences

CONSTANTS
  Tasks,   \* the tasks handed to app.Task
  Role,    \* config.Monitor.Role
  Enabled  \* the loops switched on by the configuration, of Optional

Chaos == {"chaosPrimary", "chaosSecondary"}
Optional == Chaos \cup {"metrics"}

ASSUME TasksOK == Tasks \subseteq {"monitor", "cache", "translator", "publisher", "metrics"}
ASSUME RoleOK == Role \in {"Primary", "Secondary"}
ASSUME EnabledOK == Enabled \subseteq Optional

(* Mutant of StopOrder: the monitor loop is stopped before the health loop. *)
StopOrderReversed(t) ==
  CASE t = "monitor"    -> <<"monitor", "health">>
    [] t = "cache"      -> <<"cache">>
    [] t = "translator" -> <<"logging">>
    [] t = "publisher"  -> <<"chaosPrimary", "chaosSecondary">>
    [] t = "metrics"    -> <<"metrics">>

(* The loops that the Stop of a task stops, one after the other.           *)
StopOrder(t) ==
  CASE t = "monitor"    -> <<"health", "monitor">>
    [] t = "cache"      -> <<"cache">>
    [] t = "translator" -> <<"logging">>
    [] t = "publisher"  -> <<"chaosPrimary", "chaosSecondary">>
    [] t = "metrics"    -> <<"metrics">>

Loops == UNION {{StopOrder(t)[i] : i \in DOMAIN StopOrder(t)} : t \in Tasks}

VARIABLES
  cancelled,  \* the context of Run has ended
  loop,       \* where the goroutine of each loop is
  flag,       \* isStarted, loggingStarted, isServiceStarted
  token,      \* the cache's buffered stop channel holds a message
  at,         \* which of its loops each Stop is at, one past the last when it is done
  sending     \* the Stop waits for that loop to receive

vars == <<cancelled, loop, flag, token, at, sending>>

TypeOK ==
  /\ cancelled \in BOOLEAN
  /\ loop \in [Loops -> {"new", "select", "busy", "send", "ended"}]
  /\ flag \in [Loops -> BOOLEAN]
  /\ token \in BOOLEAN
  /\ at \in [Tasks -> Nat]
  /\ \A t \in Tasks : at[t] \in 1 .. Len(StopOrder(t)) + 1
  /\ sending \in [Tasks -> BOOLEAN]

Init ==
  /\ cancelled = FALSE
  /\ loop = [s \in Loops |-> "new"]
  /\ flag = [s \in Loops |-> FALSE]
  /\ token = FALSE
  /\ at = [t \in Tasks |-> 1]
  /\ sending = [t \in Tasks |-> FALSE]

(* The loop a Stop is at, and whether it has been through all of them.      *)
Current(t) == StopOrder(t)[at[t]]
Returned(t) == at[t] > Len(StopOrder(t))

Goto(s, l) == loop' = [loop EXCEPT ![s] = l]
SetFlag(s, b) == flag' = [flag EXCEPT ![s] = b]

-----------------------------------------------------------------------------
(* A signal arrives, or the Start or Stop of some task returns an error.   *)
Cancel ==
  /\ ~cancelled
  /\ cancelled' = TRUE
  /\ UNCHANGED <<loop, flag, token, at, sending>>

(* The loops.  Start of the metrics sets isStarted when its loop has ended. *)

Flagged == Chaos \cup {"health", "logging"}

Begin(s) ==
  /\ loop[s] = "new"
  /\ Goto(s, IF s \in Optional \ Enabled THEN "ended" ELSE "select")
  /\ SetFlag(s, s \in Flagged \/ (s = "metrics" /\ s \notin Enabled))
  /\ UNCHANGED <<cancelled, token, at, sending>>

(* A ticker fires or a message arrives.  A blob call on a cancelled context *)
(* fails at once and ends the health loop; a BAD primary's tick makes none. *)
Work(s) ==
  /\ loop[s] = "select"
  /\ \/ s = "health" /\ cancelled /\ Goto(s, "ended") /\ SetFlag(s, FALSE)
     \/ /\ ~(s = "health" /\ cancelled /\ Role = "Secondary")
        /\ Goto(s, "busy") /\ UNCHANGED flag
  /\ UNCHANGED <<cancelled, token, at, sending>>

(* Mutant of Done: a loop ends when what it was doing has failed.           *)
DoneOrEnd(s) ==
  /\ loop[s] = "busy"
  /\ \/ Goto(s, "select")
     \/ s = "health" /\ Role = "Secondary" /\ Goto(s, "send")
     \/ Goto(s, "ended")
  /\ UNCHANGED <<cancelled, flag, token, at, sending>>

(* An update, a write to ADX, a handler or a wait of the chaos service      *)
(* returns, whatever its result.  The health loop of a backup may have a    *)
(* message for the monitor.                                                *)
Done(s) ==
  /\ loop[s] = "busy"
  /\ \/ Goto(s, "select")
     \/ s = "health" /\ Role = "Secondary" /\ Goto(s, "send")
  /\ UNCHANGED <<cancelled, flag, token, at, sending>>

BlobCallFails ==
  /\ "health" \in Loops
  /\ loop["health"] = "busy"
  /\ Goto("health", "ended")
  /\ SetFlag("health", FALSE)
  /\ UNCHANGED <<cancelled, token, at, sending>>

(* The monitor receives a takeover message.                                *)
Takeover ==
  /\ "health" \in Loops
  /\ loop["health"] = "send"
  /\ loop["monitor"] = "select"
  /\ loop' = [loop EXCEPT !["health"] = "select", !["monitor"] = "busy"]
  /\ UNCHANGED <<cancelled, flag, token, at, sending>>

CacheStops ==
  /\ "cache" \in Loops
  /\ token
  /\ loop["cache"] = "select"
  /\ Goto("cache", "ended")
  /\ token' = FALSE
  /\ UNCHANGED <<cancelled, flag, at, sending>>

-----------------------------------------------------------------------------
(* The Stops.                                                              *)

(* Monitor.Stop and Cache.Stop send without looking, Stop of the metrics    *)
(* clears the flag it reads.                                                *)
NeedsStop(s) ==
  \/ s \in {"monitor", "cache"}
  \/ flag[s] /\ s \notin Chaos \ Enabled

Check(t) ==
  /\ cancelled
  /\ ~Returned(t)
  /\ ~sending[t]
  /\ IF NeedsStop(Current(t))
     THEN sending' = [sending EXCEPT ![t] = TRUE] /\ UNCHANGED at
     ELSE at' = [at EXCEPT ![t] = @ + 1] /\ UNCHANGED sending
  /\ flag' = [s \in Loops |-> flag[s] /\ ~(s = "metrics" /\ t = "metrics")]
  /\ UNCHANGED <<cancelled, loop, token>>

(* Mutant of Sent: a loop is at out.                                      *)
SentAndSkip(t) ==
  /\ at' = [at EXCEPT ![t] = @ + 2]
  /\ sending' = [sending EXCEPT ![t] = FALSE]
  /\ UNCHANGED cancelled

Sent(t) ==
  /\ at' = [at EXCEPT ![t] = @ + 1]
  /\ sending' = [sending EXCEPT ![t] = FALSE]
  /\ UNCHANGED cancelled

(* The rendezvous with the loop's select ends the loop; the cache has a     *)
(* buffered channel.  The logging loop clears its flag when it returns.     *)
Deliver(t) ==
  /\ sending[t]
  /\ LET s == Current(t) IN
       IF s = "cache"
       THEN token' = TRUE /\ UNCHANGED <<loop, flag>>
       ELSE /\ loop[s] = "select"
            /\ Goto(s, "ended")
            /\ SetFlag(s, flag[s] /\ s # "logging")
            /\ UNCHANGED token
  /\ Sent(t)

Next ==
  \/ Cancel
  \/ \E s \in Loops : Begin(s) \/ Work(s) \/ Done(s)
  \/ BlobCallFails \/ Takeover \/ CacheStops
  \/ \E t \in Tasks : Check(t) \/ Deliver(t)

Spec == Init /\ [][Next]_vars

(***************************************************************************)
(* Goroutines run and calls return; a select that finds its stop channel   *)
(* ready again and again takes it at some time, also when its ticker is    *)
(* ready as well.                                                          *)
(***************************************************************************)
Fairness ==
  /\ \A s \in Loops : WF_vars(Begin(s)) /\ WF_vars(Done(s))
  /\ SF_vars(Takeover)
  /\ SF_vars(CacheStops)
  /\ \A t \in Tasks : WF_vars(Check(t)) /\ SF_vars(Deliver(t))

FairSpec == Spec /\ Fairness

-----------------------------------------------------------------------------
(* Nobody waits for a goroutine that is gone: the monitor outlives the       *)
(* health loop (monitor.go:262-264), so a takeover message finds a receiver; *)
(* the cache's loop outlives the message in its channel (cache.go:483); and  *)
(* no other Stop sends to a loop that has ended, although it reads a flag    *)
(* and sends later.  The two exceptions are the health loop, which may end   *)
(* by itself (health.go:285-288), and the metrics (metrics.go:459).          *)
SendersHaveAReceiver ==
  /\ "monitor" \in Tasks =>
       (loop["health"] = "send" => loop["monitor"] # "ended")
  /\ "cache" \in Tasks => (token => loop["cache"] # "ended")
  /\ \A t \in Tasks :
       sending[t] => Current(t) \in {"health", "metrics"} \/ loop[Current(t)] # "ended"

(* Every Stop returns, whatever its loops are doing or have not begun to do *)
(* (cache.go:483, translate.go:194, publisher.go:176), with one exception:  *)
(* Monitor.Stop gets stuck when the health loop has ended by itself after   *)
(* health.Stop had read isStarted (health.go:285-288).                      *)
StopsReturn ==
  \A t \in Tasks \ {"metrics"} :
    cancelled ~> \/ Returned(t) /\ (t = "cache" => loop["cache"] = "ended")
                 \/ /\ t = "monitor" /\ sending[t]
                    /\ Current(t) = "health" /\ loop["health"] = "ended"

(* metrics.go:523 says of Stop "It checks if the metrics collection has     *)
(* started, and if so, it sends a stop signal": a Stop that finds the loop  *)
(* running does not return without having stopped it.                       *)
StopSignalsMetrics ==
  [][ "metrics" \in Tasks /\ loop["metrics"] \in {"select", "busy"}
        /\ ~Returned("metrics") /\ Returned("metrics")'
        => loop'["metrics"] = "ended" ]_vars
=============================================================================
