------------------------------ MODULE Translate ------------------------------
(***************************************************************************)
(* The translator (tasks/translate/translate.go): partition goroutines     *)
(* call Next with a batch of messages, each an array of scheduled events,  *)
(* which look up the VM ids of an event one by one in a cache that may be  *)
(* refreshed at any moment, hand every translated event to the goroutine   *)
(* of startLogging over an unbuffered channel, and pass on what is left.   *)
(* What the text around the ids looks like, and the fields removed from    *)
(* it, are left out.                                                       *)
(***************************************************************************)
EXTENDS Integers, Sequences

CONSTANTS
  Partitions,  \* partition goroutines
  Keys,        \* VM unique ids
  Data,        \* what the cache holds for a VM
  NoData,      \* the zero cache.Data
  Garbage,     \* a message that is not a JSON array
  Batches,     \* the batches that may come in
  Logging      \* config.Translate.Logging.Enabled

(* An event: does isScheduleEventExpired reject it, and the ids the         *)
(* traversal comes upon.                                                    *)
Events == [expired : BOOLEAN, ids : Seq(Keys)]
Messages == Seq(Events)

ASSUME NoDataIsNotData == NoData \notin Data
ASSUME GarbageIsNoMessage == Garbage \notin Messages
ASSUME BatchesOK == Batches \subseteq Seq(Messages \cup {Garbage})
ASSUME LoggingIsBoolean == Logging \in BOOLEAN

Tables == [Keys -> Data \cup {NoData}]
Empty == [k \in Keys |-> NoData]
KnownIn(table) == {k \in Keys : table[k] # NoData}

VARIABLES
  view,     \* what lookups in the cache see
  pc,       \* where each partition is in Next
  batch,    \* msgs
  msg,      \* number of the message in hand
  event,    \* number of the event in hand
  ids,      \* ids of that event still to look up
  errs,     \* the message in hand has had an error
  array,    \* aa: the events of the message that have been translated
  output,   \* translatedMsgs: numbers of messages with the events they keep
  logger,   \* the goroutine of startLogging
  stop,     \* the goroutine that calls Stop
  monitor,  \* the goroutine that receives the publisher's reports
  known,    \* history: ids every view has held since Next was called
  ever,     \* history: ids some view has held since
  logged    \* history: events of the batch the logger has taken

inHand == <<batch, msg, event, ids, errs, array, output>>
seen == <<known, ever>>
vars == <<view, pc, inHand, logger, stop, monitor, seen, logged>>

TypeOK ==
  /\ view \in Tables
  /\ pc \in [Partitions -> {"idle", "message", "event", "lookup", "log", "pipe"}]
  /\ batch \in [Partitions -> Batches \cup {<<>>}]
  /\ msg \in [Partitions -> Nat]
  /\ \A p \in Partitions : msg[p] <= Len(batch[p])
  /\ event \in [Partitions -> Nat]
  /\ ids \in [Partitions -> Seq(Keys)]
  /\ errs \in [Partitions -> BOOLEAN]
  /\ array \in [Partitions -> Seq(Nat)]
  /\ output \in [Partitions -> Seq(Nat \X Seq(Nat))]
  /\ logger \in {"off", "select", "write", "ended"}
  /\ stop \in {"none", "sending", "returned"}
  /\ monitor \in {"runs", "ended"}
  /\ known \in [Partitions -> SUBSET Keys]
  /\ ever \in [Partitions -> SUBSET Keys]
  /\ logged \in [Partitions -> SUBSET (Nat \X Nat)]

Init ==
  /\ view = Empty
  /\ pc = [p \in Partitions |-> "idle"]
  /\ batch = [p \in Partitions |-> <<>>]
  /\ msg = [p \in Partitions |-> 0]
  /\ event = [p \in Partitions |-> 0]
  /\ ids = [p \in Partitions |-> <<>>]
  /\ errs = [p \in Partitions |-> FALSE]
  /\ array = [p \in Partitions |-> <<>>]
  /\ output = [p \in Partitions |-> <<>>]
  /\ logger = "off"
  /\ stop = "none"
  /\ monitor = "runs"
  /\ known = [p \in Partitions |-> {}]
  /\ ever = [p \in Partitions |-> {}]
  /\ logged = [p \in Partitions |-> {}]

Goto(p, l) == pc' = [pc EXCEPT ![p] = l]

-----------------------------------------------------------------------------
(* The cache, as AtomicCache describes it.                                 *)
Refresh ==
  /\ view' \in Tables \ {Empty}
  /\ known' = [p \in Partitions |-> known[p] \cap KnownIn(view')]
  /\ ever' = [p \in Partitions |-> IF pc[p] = "idle" THEN {} ELSE ever[p] \cup KnownIn(view')]
  /\ UNCHANGED <<pc, inHand, logger, stop, monitor, logged>>

-----------------------------------------------------------------------------
(* Next, a message and an event at a time.                                 *)

CallNext(p) ==
  /\ pc[p] = "idle"
  /\ \E msgs \in Batches : batch' = [batch EXCEPT ![p] = msgs]
  /\ known' = [known EXCEPT ![p] = KnownIn(view)]
  /\ ever' = [ever EXCEPT ![p] = KnownIn(view)]
  /\ Goto(p, "message")
  /\ UNCHANGED <<view, msg, event, ids, errs, array, output, logger, stop, monitor, logged>>

(* Mutant of Return: the position in the batch is kept for the next call.   *)
ReturnKeepsPosition(p) ==
  /\ Goto(p, "idle")
  /\ batch' = [batch EXCEPT ![p] = <<>>]
  /\ UNCHANGED <<view, msg, event, ids, errs, array, output, logger, stop, monitor, seen, logged>>

(* The variables of the call are gone.                                      *)
Return(p) ==
  /\ Goto(p, "idle")
  /\ batch' = [batch EXCEPT ![p] = <<>>]
  /\ msg' = [msg EXCEPT ![p] = 0]
  /\ event' = [event EXCEPT ![p] = 0]
  /\ errs' = [errs EXCEPT ![p] = FALSE]
  /\ array' = [array EXCEPT ![p] = <<>>]
  /\ output' = [output EXCEPT ![p] = <<>>]
  /\ known' = [known EXCEPT ![p] = {}]
  /\ ever' = [ever EXCEPT ![p] = {}]
  /\ logged' = [logged EXCEPT ![p] = {}]
  /\ UNCHANGED <<view, ids, logger, stop, monitor>>

(* Mutant of ParseMessage: the errors of a message are kept for the next.   *)
ParseMessageKeepsErrs(p) ==
  /\ pc[p] = "message" /\ msg[p] < Len(batch[p])
  /\ msg' = [msg EXCEPT ![p] = @ + 1]
  /\ \/ /\ batch[p][msg[p] + 1] = Garbage
        /\ UNCHANGED <<pc, event, array>>
     \/ /\ batch[p][msg[p] + 1] # Garbage
        /\ event' = [event EXCEPT ![p] = 0]
        /\ array' = [array EXCEPT ![p] = <<>>]
        /\ Goto(p, "event")
  /\ UNCHANGED <<view, batch, ids, errs, output, logger, stop, monitor, seen, logged>>

ParseMessage(p) ==
  /\ pc[p] = "message" /\ msg[p] < Len(batch[p])
  /\ msg' = [msg EXCEPT ![p] = @ + 1]
  /\ \/ /\ batch[p][msg[p] + 1] = Garbage
        /\ UNCHANGED <<pc, event, errs, array>>
     \/ /\ batch[p][msg[p] + 1] # Garbage
        /\ event' = [event EXCEPT ![p] = 0]
        /\ errs' = [errs EXCEPT ![p] = FALSE]
        /\ array' = [array EXCEPT ![p] = <<>>]
        /\ Goto(p, "event")
  /\ UNCHANGED <<view, batch, ids, output, logger, stop, monitor, seen, logged>>

EndOfBatch(p) ==
  /\ pc[p] = "message" /\ msg[p] = Len(batch[p])
  /\ \/ output[p] = <<>> /\ Return(p)
     \/ /\ output[p] # <<>>
        /\ Goto(p, "pipe")
        /\ UNCHANGED <<view, inHand, logger, stop, monitor, seen, logged>>

(* The publisher returns from its Next (Delivery) when the monitor has       *)
(* taken its reports, at least one for every message it is handed.          *)
PipeReturns(p) ==
  /\ pc[p] = "pipe"
  /\ monitor = "runs"
  /\ Return(p)

InMessage(p) == batch[p][msg[p]]

TakeEvent(p) ==
  /\ pc[p] = "event" /\ event[p] < Len(InMessage(p))
  /\ event' = [event EXCEPT ![p] = @ + 1]
  /\ \/ /\ InMessage(p)[event[p] + 1].expired
        /\ UNCHANGED <<pc, ids>>
     \/ /\ ~InMessage(p)[event[p] + 1].expired
        /\ ids' = [ids EXCEPT ![p] = InMessage(p)[event[p] + 1].ids]
        /\ Goto(p, "lookup")
  /\ UNCHANGED <<view, batch, msg, errs, array, output, logger, stop, monitor, seen, logged>>

EndOfMessage(p) ==
  /\ pc[p] = "event" /\ event[p] = Len(InMessage(p))
  /\ output' = IF array[p] = <<>> THEN output
               ELSE [output EXCEPT ![p] = Append(@, <<msg[p], array[p]>>)]
  /\ Goto(p, "message")
  /\ UNCHANGED <<view, batch, msg, event, ids, errs, array, logger, stop, monitor, seen, logged>>

(* Mutant of MatchAndTranslateIDMapping: an id without a record becomes the *)
(* empty string.                                                            *)
TranslateToEmpty(p) ==
  /\ pc[p] = "lookup" /\ ids[p] # <<>>
  /\ ids' = [ids EXCEPT ![p] = Tail(@)]
  /\ UNCHANGED <<view, pc, batch, msg, event, errs, array, output, logger, stop, monitor, seen, logged>>

(* The traversal goes on after an id that the cache does not know.          *)
MatchAndTranslateIDMapping(p) ==
  /\ pc[p] = "lookup" /\ ids[p] # <<>>
  /\ ids' = [ids EXCEPT ![p] = Tail(@)]
  /\ errs' = [errs EXCEPT ![p] = @ \/ view[Head(ids[p])] = NoData]
  /\ UNCHANGED <<view, pc, batch, msg, event, array, output, logger, stop, monitor, seen, logged>>

(* Mutant of Untranslated: the errors are those of one event.               *)
UntranslatedResets(p) ==
  /\ pc[p] = "lookup" /\ ids[p] = <<>> /\ errs[p]
  /\ errs' = [errs EXCEPT ![p] = FALSE]
  /\ Goto(p, "event")
  /\ UNCHANGED <<view, batch, msg, event, ids, array, output, logger, stop, monitor, seen, logged>>

Untranslated(p) ==
  /\ pc[p] = "lookup" /\ ids[p] = <<>> /\ errs[p]
  /\ Goto(p, "event")
  /\ UNCHANGED <<view, inHand, logger, stop, monitor, seen, logged>>

Translated(p) ==
  /\ pc[p] = "lookup" /\ ids[p] = <<>> /\ ~errs[p]
  /\ array' = [array EXCEPT ![p] = Append(@, event[p])]
  /\ Goto(p, IF Logging THEN "log" ELSE "event")
  /\ UNCHANGED <<view, batch, msg, event, ids, errs, output, logger, stop, monitor, seen, logged>>

-----------------------------------------------------------------------------
(* The logging goroutine and Stop.                                         *)

StartLogging ==
  /\ logger = "off"
  /\ logger' = "select"
  /\ UNCHANGED <<view, pc, inHand, stop, monitor, seen, logged>>

SendToLogger(p) ==
  /\ pc[p] = "log"
  /\ logger = "select"
  /\ logger' = "write"
  /\ logged' = [logged EXCEPT ![p] = @ \cup {<<msg[p], event[p]>>}]
  /\ Goto(p, "event")
  /\ UNCHANGED <<view, inHand, stop, monitor, seen>>

(* Mutant of WriteReturns: an error ends the goroutine.                     *)
WriteReturnsOrEnds ==
  /\ logger = "write"
  /\ logger' \in {"select", "ended"}
  /\ UNCHANGED <<view, pc, inHand, stop, monitor, seen, logged>>

(* Write to ADX, which may fail (Ingest); the entry is gone either way.     *)
WriteReturns ==
  /\ logger = "write"
  /\ logger' = "select"
  /\ UNCHANGED <<view, pc, inHand, stop, monitor, seen, logged>>

(* loggingStarted is true while the goroutine runs.                         *)
Stop ==
  /\ stop = "none"
  /\ stop' = IF logger \in {"select", "write"} THEN "sending" ELSE "returned"
  /\ UNCHANGED <<view, pc, inHand, logger, monitor, seen, logged>>

StopReceived ==
  /\ stop = "sending"
  /\ logger = "select"
  /\ stop' = "returned"
  /\ logger' = "ended"
  /\ UNCHANGED <<view, pc, inHand, monitor, seen, logged>>

(* Monitor.Stop, in another goroutine of the shutdown, ends the receiver of *)
(* the health channel; partitions are not stopped before it.                *)
MonitorEnds ==
  /\ monitor = "runs"
  /\ monitor' = "ended"
  /\ UNCHANGED <<view, pc, inHand, logger, stop, seen, logged>>

-----------------------------------------------------------------------------
Work(p) ==
  \/ ParseMessage(p) \/ EndOfBatch(p) \/ PipeReturns(p)
  \/ TakeEvent(p) \/ EndOfMessage(p)
  \/ MatchAndTranslateIDMapping(p) \/ Untranslated(p) \/ Translated(p)

Next ==
  \/ Refresh
  \/ \E p \in Partitions : CallNext(p) \/ Work(p) \/ SendToLogger(p)
  \/ StartLogging \/ WriteReturns
  \/ Stop \/ StopReceived \/ MonitorEnds

Spec == Init /\ [][Next]_vars

(***************************************************************************)
(* Goroutines run, a Write to ADX returns (Ingest), the publisher returns  *)
(* as long as the monitor receives, and a channel serves whoever waits for *)
(* it, Go's select choosing among the ready ones.  Nothing forces a stop.  *)
(***************************************************************************)
FairSpec ==
  /\ Spec
  /\ WF_vars(StartLogging) /\ WF_vars(WriteReturns) /\ SF_vars(StopReceived)
  /\ \A p \in Partitions : WF_vars(Work(p)) /\ SF_vars(SendToLogger(p))

-----------------------------------------------------------------------------
(* The messages Next is through with, the events of a message that have not *)
(* expired, the events of a message that the output keeps.                  *)
Through(p) ==
  {m \in 1 .. msg[p] : batch[p][m] # Garbage /\ (m < msg[p] \/ pc[p] \in {"message", "pipe"})}

Unexpired(message) == {e \in 1 .. Len(message) : ~message[e].expired}

Kept(out, m) ==
  UNION {{out[i][2][j] : j \in 1 .. Len(out[i][2])} : i \in {i \in 1 .. Len(out) : out[i][1] = m}}

IdsIn(s) == {s[i] : i \in 1 .. Len(s)}

(* A message whose ids the cache has held all the time comes out with all   *)
(* events that have not expired, whatever the other messages of the batch   *)
(* and the other partitions are like (translate.go:252-348).                *)
KnownIsTranslated ==
  \A p \in Partitions : \A m \in Through(p) :
    (\A e \in Unexpired(batch[p][m]) : IdsIn(batch[p][m][e].ids) \subseteq known[p])
       => Kept(output[p], m) = Unexpired(batch[p][m])

(* No event leaves with an id the cache never held while Next was at work,  *)
(* and none that has expired, although refreshes come between its lookups   *)
(* (translate.go:287-324).                                                  *)
UnknownIsNotSent ==
  \A p \in Partitions : \A m \in 1 .. msg[p] : \A e \in Kept(output[p], m) :
    e \in Unexpired(batch[p][m]) /\ IdsIn(batch[p][m][e].ids) \subseteq ever[p]

(* A message is cut at its first event that cannot be translated, because   *)
(* errs is shared by its events: no later event overtakes a lost one, and   *)
(* messages and events keep their order (translate.go:281-345).             *)
Uncut(message, kept) ==
  \A j \in 1 .. Len(kept) : \A e \in Unexpired(message) :
    e < kept[j] => \E h \in 1 .. j - 1 : kept[h] = e

CutNotHoled ==
  \A p \in Partitions : \A i \in 1 .. Len(output[p]) :
    /\ \A h \in 1 .. i - 1 : output[p][h][1] < output[p][i][1]
    /\ Uncut(batch[p][output[p][i][1]], output[p][i][2])

(* A call of Next returns, with two ways out, both of the shutdown: it waits *)
(* for the logger that Stop has ended (translate.go:338), or, in the         *)
(* publisher, for the monitor that no longer receives its reports            *)
(* (monitor.go:264, publisher.go:196-210).  Neither another partition nor an *)
(* error of a Write keeps it, and it is nowhere else for ever.               *)
BatchesEnd ==
  \A p \in Partitions : pc[p] # "idle" ~>
    \/ pc[p] = "idle"
    \/ pc[p] = "log" /\ logger = "ended" /\ stop = "returned"
    \/ pc[p] = "pipe" /\ monitor = "ended"

(* Stop returns, although partitions go on logging (translate.go:194-202).  *)
StopReturns == stop = "sending" ~> stop = "returned"
=============================================================================
