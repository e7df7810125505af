------------------------------- MODULE Ingest -------------------------------
(***************************************************************************)
(* Goroutines that write to one table of Azure Data Explorer through one   *)
(* AzureDataExplorer (logger/adxIngest/adx.go).  The first Write creates   *)
(* the table, its mapping and an ingestor, which later ones find in a map; *)
(* nothing guards that map.  The log writer has many writers: zerolog's    *)
(* MultiLevelWriter calls Write in whichever goroutine logs                *)
(* (logger/logger.go).  The main goroutine is the first: it logs when it   *)
(* makes the health task, before the application runs any other.  The      *)
(* ingestors of the transaction log and of the metrics have one writer     *)
(* each.                                                                   *)
(***************************************************************************)
EXTENDS Integers

CONSTANTS
  Writers,       \* goroutines that write
  Main,          \* the main goroutine
  NoIngestor,    \* the map has no entry
  Attempts,      \* config.RetryOptions.Attempts
  CreateTables,  \* option CreateTables
  Faults         \* which calls may fail, also by the deadline of the Write

FaultKinds == {"mgmt", "create", "ingest"}

ASSUME MainWrites == Main \in Writers
ASSUME AttemptsPositive == Attempts \in Nat \ {0}
ASSUME NoIngestorIsNone == NoIngestor \notin Writers
ASSUME CreateTablesIsBoolean == CreateTables \in BOOLEAN
ASSUME FaultsOK == Faults \subseteq FaultKinds

VARIABLES
  phase,     \* of the program: the task goroutines run, and what they found
  pc,        \* where each writer is
  attempt,   \* which attempt of retry.Do it is in
  ingestors, \* the ingestor in the map, named for the writer that created it
  created,   \* history: the ingestors created
  table,     \* the table exists in the database
  mapping,   \* its ingestion mapping exists
  copies,    \* history: how often the data of the last Write was accepted
  ok,        \* history: the last Write returned no error
  alive      \* the runtime has not detected concurrent use of the map

database == <<table, mapping>>
history == <<copies, ok>>
vars == <<phase, pc, attempt, ingestors, created, database, history, alive>>

AtWork == {"lookup", "table", "mapping", "ingestor", "store", "storing", "push", "pushed"}

TypeOK ==
  /\ phase \in {"new", "setup", "stored", "missing"}
  /\ pc \in [Writers -> AtWork \cup {"idle"}]
  /\ attempt \in [Writers -> 1 .. Attempts]
  /\ ingestors \in Writers \cup {NoIngestor}
  /\ created \subseteq Writers
  /\ table \in BOOLEAN /\ mapping \in BOOLEAN
  /\ copies \in [Writers -> 0 .. Attempts]
  /\ ok \in [Writers -> BOOLEAN]
  /\ alive \in BOOLEAN

(* An earlier deployment may have created the table or its mapping, and     *)
(* must have when this one does not.                                        *)
Init ==
  /\ phase = "new"
  /\ pc = [w \in Writers |-> "idle"]
  /\ attempt = [w \in Writers |-> 1]
  /\ ingestors = NoIngestor
  /\ created = {}
  /\ table \in {TRUE, ~CreateTables}
  /\ mapping \in {table, ~CreateTables}
  /\ copies = [w \in Writers |-> 0]
  /\ ok = [w \in Writers |-> FALSE]
  /\ alive = TRUE

Goto(w, l) == pc' = [pc EXCEPT ![w] = l]

-----------------------------------------------------------------------------
(* Write and its retries.                                                  *)

(* Until the tasks run, only the main goroutine logs.                       *)
Write(w) ==
  /\ pc[w] = "idle"
  /\ w = Main \/ phase \in {"stored", "missing"}
  /\ phase' = IF phase = "new" THEN "setup" ELSE phase
  /\ Goto(w, "lookup")
  /\ attempt' = [attempt EXCEPT ![w] = 1]
  /\ copies' = [copies EXCEPT ![w] = 0]
  /\ ok' = [ok EXCEPT ![w] = FALSE]
  /\ UNCHANGED <<ingestors, created, database, alive>>

(* app.Run, when everything has been made: the ingestor is in the map unless *)
(* the Writes so far have failed, of which only zerolog learns.              *)
StartTasks ==
  /\ phase = "setup"
  /\ pc[Main] = "idle"
  /\ phase' = IF ingestors = NoIngestor THEN "missing" ELSE "stored"
  /\ UNCHANGED <<pc, attempt, ingestors, created, database, history, alive>>

(* Mutant of AttemptFails: an attempt more than configured.                 *)
AttemptFailsOnceMore(w) ==
  /\ attempt' = [attempt EXCEPT ![w] = @ + 1]
  /\ Goto(w, IF attempt[w] <= Attempts THEN "lookup" ELSE "idle")

AttemptFails(w) ==
  \/ /\ attempt[w] < Attempts
     /\ attempt' = [attempt EXCEPT ![w] = @ + 1]
     /\ Goto(w, "lookup")
  \/ /\ attempt[w] = Attempts
     /\ Goto(w, "idle")
     /\ UNCHANGED attempt

-----------------------------------------------------------------------------
(* getDataIngestor.                                                        *)

Storing(w) == \E v \in Writers \ {w} : pc[v] = "storing"

(* A lookup beside an assignment finds the old entry or the new one.        *)
Seen(w) == {ingestors} \cup {v \in Writers \ {w} : pc[v] = "storing"}

Lookup(w) ==
  /\ pc[w] = "lookup"
  /\ \E ingestor \in Seen(w) :
       Goto(w, IF ingestor # NoIngestor THEN "push"
               ELSE IF CreateTables THEN "table" ELSE "ingestor")
  /\ UNCHANGED <<phase, attempt, ingestors, created, database, history, alive>>

CreateTable(w) ==
  /\ pc[w] = "table"
  /\ table' = TRUE
  /\ Goto(w, "mapping")
  /\ UNCHANGED <<phase, attempt, ingestors, created, mapping, history, alive>>

(* A command that fails may have been carried out all the same.             *)
CreateTableFails(w) ==
  /\ "mgmt" \in Faults
  /\ pc[w] = "table"
  /\ table' \in {table, TRUE}
  /\ AttemptFails(w)
  /\ UNCHANGED <<phase, ingestors, created, mapping, history, alive>>

(* There is no mapping without its table.                                   *)
CreateMapping(w) ==
  /\ pc[w] = "mapping"
  /\ table
  /\ mapping' = TRUE
  /\ Goto(w, "ingestor")
  /\ UNCHANGED <<phase, attempt, ingestors, created, table, history, alive>>

(* Mutant of CreateMappingFails: the error is logged and forgotten.         *)
CreateMappingFailsSilently(w) ==
  /\ "mgmt" \in Faults
  /\ pc[w] = "mapping"
  /\ mapping' \in {mapping, table}
  /\ Goto(w, "ingestor")
  /\ UNCHANGED <<phase, attempt, ingestors, created, table, history, alive>>

CreateMappingFails(w) ==
  /\ "mgmt" \in Faults
  /\ pc[w] = "mapping"
  /\ mapping' \in {mapping, table}
  /\ AttemptFails(w)
  /\ UNCHANGED <<phase, ingestors, created, table, history, alive>>

CreateIngestor(w) ==
  /\ pc[w] = "ingestor"
  /\ created' = created \cup {w}
  /\ Goto(w, "store")
  /\ UNCHANGED <<phase, attempt, ingestors, database, history, alive>>

(* Mutant of CreateIngestorFails: tried again without being counted.        *)
CreateIngestorFailsUncounted(w) ==
  /\ "create" \in Faults
  /\ pc[w] = "ingestor"
  /\ Goto(w, "lookup")
  /\ UNCHANGED <<phase, attempt, ingestors, created, database, history, alive>>

CreateIngestorFails(w) ==
  /\ "create" \in Faults
  /\ pc[w] = "ingestor"
  /\ AttemptFails(w)
  /\ UNCHANGED <<phase, ingestors, created, database, history, alive>>

(* The assignment to the map has a beginning and an end.                    *)
StoreBegins(w) ==
  /\ pc[w] = "store"
  /\ Goto(w, "storing")
  /\ UNCHANGED <<phase, attempt, ingestors, created, database, history, alive>>

StoreEnds(w) ==
  /\ pc[w] = "storing"
  /\ ingestors' = w
  /\ Goto(w, "push")
  /\ UNCHANGED <<phase, attempt, created, database, history, alive>>

(* The runtime ends the process when it notices that one goroutine assigns  *)
(* to the map while another assigns or looks up.                            *)
MapRaceDetected(w) ==
  /\ pc[w] \in {"lookup", "storing"}
  /\ Storing(w)
  /\ alive' = FALSE
  /\ UNCHANGED <<phase, pc, attempt, ingestors, created, database, history>>

-----------------------------------------------------------------------------
(* pushData.                                                               *)

FromReader(w) ==
  /\ pc[w] = "push"
  /\ copies' = [copies EXCEPT ![w] = @ + 1]
  /\ Goto(w, "pushed")
  /\ UNCHANGED <<phase, attempt, ingestors, created, database, ok, alive>>

(* Mutant of FromReaderReturns: pushing nothing counts as success, the      *)
(* ingestor of a failed creation being nil.                                 *)
ReturnsWithoutIngestor(w) ==
  /\ pc[w] \in {"push", "pushed"}
  /\ Goto(w, "idle")
  /\ ok' = [ok EXCEPT ![w] = TRUE]
  /\ UNCHANGED <<phase, attempt, ingestors, created, database, copies, alive>>

FromReaderReturns(w) ==
  /\ pc[w] = "pushed"
  /\ Goto(w, "idle")
  /\ ok' = [ok EXCEPT ![w] = TRUE]
  /\ UNCHANGED <<phase, attempt, ingestors, created, database, copies, alive>>

(* Mutant of FromReaderFails: an ingestor that failed is taken out of the   *)
(* map, for the next attempt to make a new one.                             *)
FromReaderFailsAndForgets(w) ==
  /\ "ingest" \in Faults
  /\ pc[w] \in {"push", "pushed"}
  /\ AttemptFails(w)
  /\ ingestors' = NoIngestor
  /\ UNCHANGED <<phase, created, database, history, alive>>

(* An error before or after the data was queued.                            *)
FromReaderFails(w) ==
  /\ "ingest" \in Faults
  /\ pc[w] \in {"push", "pushed"}
  /\ AttemptFails(w)
  /\ UNCHANGED <<phase, ingestors, created, database, history, alive>>

-----------------------------------------------------------------------------
GetDataIngestor(w) ==
  \/ Lookup(w)
  \/ CreateTable(w) \/ CreateTableFails(w)
  \/ CreateMapping(w) \/ CreateMappingFails(w)
  \/ CreateIngestor(w) \/ CreateIngestorFails(w)
  \/ StoreBegins(w) \/ StoreEnds(w) \/ MapRaceDetected(w)

PushData(w) ==
  GetDataIngestor(w) \/ FromReader(w) \/ FromReaderReturns(w) \/ FromReaderFails(w)

Next == alive /\ (StartTasks \/ \E w \in Writers : Write(w) \/ PushData(w))

Spec == Init /\ [][Next]_vars

(* The deadline of a Write ends every call in it, and goroutines run.       *)
FairSpec == Spec /\ \A w \in Writers : WF_vars(alive /\ PushData(w))

-----------------------------------------------------------------------------
(* The data of a Write that returns no error have been accepted, and those   *)
(* of none more often than it may try: the promise of AdxWrite, which its   *)
(* callers build on (adx.go:179-223).                                       *)
Promise == INSTANCE AdxWrite WITH busy <- [w \in Writers |-> pc[w] # "idle"]

ImplementsAdxWrite == Promise!WriteSpec

(* Data go out only when table and mapping exist, also from a writer that   *)
(* found the ingestor another one had just stored, after any failures       *)
(* (adx.go:216-240).                                                        *)
PushOnlyIntoTable ==
  \A w \in Writers : pc[w] \in {"push", "pushed"} => table /\ mapping

(* Every Write returns, unless the process dies (adx.go:187-200); logging   *)
(* waits for it.                                                            *)
WritesReturn == \A w \in Writers : pc[w] # "idle" ~> pc[w] = "idle" \/ ~alive

(* The unguarded map is looked up and assigned by one goroutine at a time,  *)
(* and one ingestor is made, if the tasks find it there when they start:    *)
(* nothing that fails later empties the map again.  Goroutines race for it  *)
(* only if every Write before has failed without making one                 *)
(* (adx.go:225-243, health.go:309-312).                                     *)
RaceNeedsFailure ==
  phase = "stored" =>
    /\ alive /\ created = {ingestors}
    /\ \A w \in Writers : pc[w] \notin {"store", "storing"}
=============================================================================
