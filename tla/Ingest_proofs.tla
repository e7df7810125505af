---------------------------- MODULE Ingest_proofs ----------------------------
(***************************************************************************)
(* Proofs about Ingest, for any number of writers and attempts, with or    *)
(* without CreateTables.                                                   *)
(***************************************************************************)
EXTENDS Ingest, TLAPS

(* An ingestor exists only when table and mapping do, and so does every     *)
(* position of a writer behind their creation.                              *)
BehindTables == {"ingestor", "store", "storing", "push", "pushed"}

TablesFirst ==
  /\ ~CreateTables => table /\ mapping
  /\ ingestors # NoIngestor => table /\ mapping
  /\ \A w \in Writers : pc[w] \in BehindTables => table /\ mapping
  /\ \A w \in Writers : pc[w] = "mapping" => table

(* An attempt's data are accepted at most once, in the attempt in progress   *)
(* only when it waits for the answer.                                       *)
OncePerAttempt ==
  \A w \in Writers :
    /\ pc[w] \notin {"idle", "pushed"} => copies[w] <= attempt[w] - 1
    /\ pc[w] = "pushed" => copies[w] \in 1 .. attempt[w]

Inv == TypeOK /\ TablesFirst /\ OncePerAttempt

-----------------------------------------------------------------------------
LEMMA InvInit == Init => Inv
<1>1. SUFFICES ASSUME Init PROVE Inv
  OBVIOUS
<1>2. TypeOK
  <2>1. table \in BOOLEAN /\ mapping \in BOOLEAN
    BY <1>1, CreateTablesIsBoolean DEF Init
  <2>2. ok \in [Writers -> BOOLEAN] /\ alive \in BOOLEAN
    BY <1>1 DEF Init
  <2>3. /\ pc \in [Writers -> AtWork \cup {"idle"}]
        /\ ingestors \in Writers \cup {NoIngestor}
        /\ created \subseteq Writers
        /\ phase \in {"new", "setup", "stored", "missing"}
    BY <1>1 DEF Init
  <2>4. attempt \in [Writers -> 1 .. Attempts] /\ copies \in [Writers -> 0 .. Attempts]
    BY <1>1, AttemptsPositive DEF Init
  <2> QED BY <2>1, <2>2, <2>3, <2>4 DEF TypeOK
<1>3. TablesFirst
  BY <1>1, CreateTablesIsBoolean DEF Init, TablesFirst, BehindTables
<1>4. OncePerAttempt
  BY <1>1 DEF Init, OncePerAttempt
<1> QED BY <1>2, <1>3, <1>4 DEF Inv

(* What a writer whose attempt failed leaves behind.                        *)
LEMMA AttemptFailsKeeps ==
  ASSUME TypeOK, NEW w \in Writers, AttemptFails(w)
  PROVE  /\ attempt' \in [Writers -> 1 .. Attempts]
         /\ pc' \in [Writers -> AtWork \cup {"idle"}]
         /\ \A v \in Writers \ {w} : pc'[v] = pc[v] /\ attempt'[v] = attempt[v]
         /\ \/ pc'[w] = "lookup" /\ attempt'[w] = attempt[w] + 1
            \/ pc'[w] = "idle" /\ attempt'[w] = attempt[w]
<1>0. /\ pc \in [Writers -> AtWork \cup {"idle"}]
      /\ attempt \in [Writers -> 1 .. Attempts]
  BY DEF TypeOK
<1>1. CASE attempt[w] < Attempts /\ attempt' = [attempt EXCEPT ![w] = @ + 1] /\ Goto(w, "lookup")
  BY <1>0, <1>1, AttemptsPositive DEF Goto, AtWork
<1>2. CASE attempt[w] = Attempts /\ Goto(w, "idle") /\ UNCHANGED attempt
  BY <1>0, <1>2 DEF Goto, AtWork
<1> QED BY <1>1, <1>2 DEF AttemptFails

(* Failures before the data are sent.                                       *)
LEMMA FailuresKeepInv ==
  ASSUME Inv, NEW w \in Writers, AttemptFails(w), pc[w] # "idle",
         UNCHANGED <<phase, ingestors, created, history, alive>>,
         table' \in {table, TRUE}, mapping' \in {mapping, table}
  PROVE  Inv'
<1>1. TypeOK /\ TablesFirst /\ OncePerAttempt
  BY DEF Inv
<1>2. /\ attempt' \in [Writers -> 1 .. Attempts]
      /\ pc' \in [Writers -> AtWork \cup {"idle"}]
      /\ \A v \in Writers \ {w} : pc'[v] = pc[v] /\ attempt'[v] = attempt[v]
      /\ \/ pc'[w] = "lookup" /\ attempt'[w] = attempt[w] + 1
         \/ pc'[w] = "idle" /\ attempt'[w] = attempt[w]
  BY <1>1, AttemptFailsKeeps
<1>3. /\ table' \in BOOLEAN /\ mapping' \in BOOLEAN
      /\ (table => table') /\ (table /\ mapping => table' /\ mapping')
  BY <1>1 DEF TypeOK
<1>4. TypeOK'
  BY <1>1, <1>2, <1>3 DEF TypeOK, history
<1>5. TablesFirst'
  BY <1>1, <1>2, <1>3 DEF TablesFirst, BehindTables
<1>6. OncePerAttempt'
  <2>1. \A v \in Writers : attempt[v] \in 1 .. Attempts /\ copies[v] \in 0 .. Attempts
    BY <1>1 DEF TypeOK
  <2>2. ASSUME NEW v \in Writers \ {w} PROVE OncePerAttempt!(v)'
    BY <1>1, <1>2, <2>2 DEF OncePerAttempt, history
  <2>3. OncePerAttempt!(w)'
    BY <1>1, <1>2, <2>1, AttemptsPositive DEF OncePerAttempt, history
  <2> QED BY <2>2, <2>3 DEF OncePerAttempt
<1> QED BY <1>4, <1>5, <1>6 DEF Inv

LEMMA InvStep == Inv /\ [Next]_vars => Inv'
<1> SUFFICES ASSUME Inv, [Next]_vars PROVE Inv'
  OBVIOUS
<1>0. /\ TypeOK /\ TablesFirst /\ OncePerAttempt
      /\ pc \in [Writers -> AtWork \cup {"idle"}]
      /\ attempt \in [Writers -> 1 .. Attempts]
      /\ copies \in [Writers -> 0 .. Attempts]
      /\ \A w \in Writers : attempt[w] \in 1 .. Attempts /\ copies[w] \in 0 .. Attempts
      /\ Attempts \in Nat \ {0}
  BY AttemptsPositive DEF Inv, TypeOK
<1>1. CASE UNCHANGED vars
  BY <1>0, <1>1 DEF Inv, TypeOK, TablesFirst, OncePerAttempt, vars, database, history
<1>2. ASSUME NEW w \in Writers, Write(w) PROVE Inv'
  <2>1. TypeOK'
    BY <1>0, <1>2 DEF Write, Goto, TypeOK, AtWork, database
  <2>2. TablesFirst'
    BY <1>0, <1>2 DEF Write, Goto, TablesFirst, BehindTables, database
  <2>3. OncePerAttempt'
    BY <1>0, <1>2 DEF Write, Goto, OncePerAttempt, database
  <2> QED BY <2>1, <2>2, <2>3 DEF Inv
<1>3. ASSUME NEW w \in Writers, Lookup(w) PROVE Inv'
  <2>1. PICK ingestor \in Seen(w) :
          Goto(w, IF ingestor # NoIngestor THEN "push" ELSE IF CreateTables THEN "table" ELSE "ingestor")
    BY <1>3 DEF Lookup
  <2>2. ingestor # NoIngestor => table /\ mapping
    BY <1>0, <2>1 DEF Seen, TablesFirst, BehindTables
  <2>3. \/ Goto(w, "push") /\ table /\ mapping
        \/ Goto(w, "table")
        \/ Goto(w, "ingestor") /\ table /\ mapping
    BY <1>0, <2>1, <2>2, CreateTablesIsBoolean DEF TablesFirst
  <2>4. TypeOK'
    BY <1>0, <1>3, <2>3 DEF Lookup, Goto, TypeOK, AtWork, database, history
  <2>5. TablesFirst'
    BY <1>0, <1>3, <2>3 DEF Lookup, Goto, TablesFirst, BehindTables, database, history
  <2>6. OncePerAttempt'
    BY <1>0, <1>3, <2>3 DEF Lookup, Goto, OncePerAttempt, database, history
  <2> QED BY <2>4, <2>5, <2>6 DEF Inv
<1>4. ASSUME NEW w \in Writers, CreateTable(w) PROVE Inv'
  <2>1. TypeOK'
    BY <1>0, <1>4 DEF CreateTable, Goto, TypeOK, AtWork, history
  <2>2. TablesFirst'
    BY <1>0, <1>4 DEF CreateTable, Goto, TablesFirst, BehindTables, history
  <2>3. OncePerAttempt'
    BY <1>0, <1>4 DEF CreateTable, Goto, OncePerAttempt, history
  <2> QED BY <2>1, <2>2, <2>3 DEF Inv
<1>5. ASSUME NEW w \in Writers, CreateTableFails(w) PROVE Inv'
  BY <1>5, FailuresKeepInv, Zenon DEF CreateTableFails
<1>6. ASSUME NEW w \in Writers, CreateMapping(w) PROVE Inv'
  <2>1. TypeOK'
    BY <1>0, <1>6 DEF CreateMapping, Goto, TypeOK, AtWork, history
  <2>2. TablesFirst'
    BY <1>0, <1>6 DEF CreateMapping, Goto, TablesFirst, BehindTables, history
  <2>3. OncePerAttempt'
    BY <1>0, <1>6 DEF CreateMapping, Goto, OncePerAttempt, history
  <2> QED BY <2>1, <2>2, <2>3 DEF Inv
<1>7. ASSUME NEW w \in Writers, CreateMappingFails(w) PROVE Inv'
  BY <1>7, FailuresKeepInv DEF CreateMappingFails
<1>8. ASSUME NEW w \in Writers, CreateIngestor(w) PROVE Inv'
  <2>1. TypeOK'
    BY <1>0, <1>8 DEF CreateIngestor, Goto, TypeOK, AtWork, database, history
  <2>2. TablesFirst'
    BY <1>0, <1>8 DEF CreateIngestor, Goto, TablesFirst, BehindTables, database, history
  <2>3. OncePerAttempt'
    BY <1>0, <1>8 DEF CreateIngestor, Goto, OncePerAttempt, database, history
  <2> QED BY <2>1, <2>2, <2>3 DEF Inv
<1>9. ASSUME NEW w \in Writers, CreateIngestorFails(w) PROVE Inv'
  BY <1>9, FailuresKeepInv DEF CreateIngestorFails, database
<1>10. ASSUME NEW w \in Writers, StoreBegins(w) PROVE Inv'
  <2>1. TypeOK'
    BY <1>0, <1>10 DEF StoreBegins, Goto, TypeOK, AtWork, database, history
  <2>2. TablesFirst'
    BY <1>0, <1>10 DEF StoreBegins, Goto, TablesFirst, BehindTables, database, history
  <2>3. OncePerAttempt'
    BY <1>0, <1>10 DEF StoreBegins, Goto, OncePerAttempt, database, history
  <2> QED BY <2>1, <2>2, <2>3 DEF Inv
<1>11. ASSUME NEW w \in Writers, StoreEnds(w) PROVE Inv'
  <2>1. TypeOK'
    BY <1>0, <1>11 DEF StoreEnds, Goto, TypeOK, AtWork, database, history
  <2>2. TablesFirst'
    BY <1>0, <1>11 DEF StoreEnds, Goto, TablesFirst, BehindTables, database, history
  <2>3. OncePerAttempt'
    BY <1>0, <1>11 DEF StoreEnds, Goto, OncePerAttempt, database, history
  <2> QED BY <2>1, <2>2, <2>3 DEF Inv
<1>12. ASSUME NEW w \in Writers, MapRaceDetected(w) PROVE Inv'
  BY <1>0, <1>12 DEF MapRaceDetected, Inv, TypeOK, TablesFirst, OncePerAttempt, database, history
<1>13. ASSUME NEW w \in Writers, FromReader(w) PROVE Inv'
  <2>1. copies[w] <= attempt[w] - 1
    BY <1>0, <1>13 DEF FromReader, OncePerAttempt
  <2>2. TypeOK'
    BY <1>0, <1>13, <2>1 DEF FromReader, Goto, TypeOK, AtWork, database
  <2>3. TablesFirst'
    BY <1>0, <1>13 DEF FromReader, Goto, TablesFirst, BehindTables, database
  <2>4. OncePerAttempt'
    BY <1>0, <1>13, <2>1 DEF FromReader, Goto, OncePerAttempt, database
  <2> QED BY <2>2, <2>3, <2>4 DEF Inv
<1>14. ASSUME NEW w \in Writers, FromReaderReturns(w) PROVE Inv'
  <2>1. TypeOK'
    BY <1>0, <1>14 DEF FromReaderReturns, Goto, TypeOK, AtWork, database
  <2>2. TablesFirst'
    BY <1>0, <1>14 DEF FromReaderReturns, Goto, TablesFirst, BehindTables, database
  <2>3. OncePerAttempt'
    BY <1>0, <1>14 DEF FromReaderReturns, Goto, OncePerAttempt, database
  <2> QED BY <2>1, <2>2, <2>3 DEF Inv
<1>15. ASSUME NEW w \in Writers, FromReaderFails(w) PROVE Inv'
  BY <1>15, FailuresKeepInv DEF FromReaderFails, database
<1>16. CASE StartTasks
  BY <1>0, <1>16 DEF StartTasks, Inv, TypeOK, TablesFirst, OncePerAttempt, database, history
<1> QED
  BY <1>1, <1>2, <1>3, <1>4, <1>5, <1>6, <1>7, <1>8, <1>9, <1>10, <1>11, <1>12,
     <1>13, <1>14, <1>15, <1>16, Zenon DEF Next, PushData, GetDataIngestor

LEMMA InvHolds == Spec => []Inv
<1>1. Init => Inv
  BY InvInit
<1>2. Inv /\ [Next]_vars => Inv'
  BY InvStep
<1> QED BY <1>1, <1>2, PTL DEF Spec

-----------------------------------------------------------------------------
(* The ingestion is type correct: in particular no data are accepted more   *)
(* often than Write may try (adx.go:41-54, 187-200).                        *)
THEOREM TypeCorrect == Spec => []TypeOK
<1>1. Inv => TypeOK
  BY DEF Inv
<1> QED BY <1>1, InvHolds, PTL

(* Data go out only when their table and mapping exist (adx.go:216-240).    *)
THEOREM TablesBeforeData == Spec => []PushOnlyIntoTable
<1>1. Inv => PushOnlyIntoTable
  BY DEF Inv, TablesFirst, BehindTables, PushOnlyIntoTable
<1> QED BY <1>1, InvHolds, PTL

-----------------------------------------------------------------------------
(* Who makes ingestors.                                                     *)

(* The main goroutine is alone until the tasks run; if they find its        *)
(* ingestor in the map, it stays there and nobody makes another.            *)
Making == {"table", "mapping", "ingestor", "store", "storing"}

OneMaker ==
  /\ phase \in {"new", "setup"} => \A w \in Writers \ {Main} : pc[w] = "idle"
  /\ phase = "new" => pc[Main] = "idle" /\ created = {} /\ ingestors = NoIngestor
  /\ phase \in {"new", "setup"} =>
       /\ alive
       /\ created \subseteq {Main}
       /\ ingestors \in {Main, NoIngestor}
       /\ pc[Main] \in {"store", "storing"} => created = {Main}
       /\ ingestors = Main => created = {Main} /\ pc[Main] \notin Making
  /\ phase = "stored" =>
       /\ alive /\ ingestors = Main /\ created = {Main}
       /\ \A w \in Writers : pc[w] \notin Making

LEMMA OneMakerStep == Inv /\ OneMaker /\ [Next]_vars => OneMaker'
<1> SUFFICES ASSUME Inv, OneMaker, [Next]_vars PROVE OneMaker'
  OBVIOUS
<1>0. /\ pc \in [Writers -> AtWork \cup {"idle"}]
      /\ phase \in {"new", "setup", "stored", "missing"}
      /\ Main \in Writers /\ Main # NoIngestor /\ TypeOK
  BY MainWrites, NoIngestorIsNone DEF Inv, TypeOK
<1>1. CASE UNCHANGED vars
  BY <1>1 DEF OneMaker, vars, database, history
<1>2. CASE StartTasks
  BY <1>0, <1>2 DEF StartTasks, OneMaker, Making, database, history
<1>3. ASSUME NEW w \in Writers, Write(w) PROVE OneMaker'
  BY <1>0, <1>3 DEF Write, Goto, OneMaker, Making, database
<1>4. ASSUME NEW w \in Writers, PushData(w) PROVE OneMaker'
  <2>1. CASE Lookup(w)
    <3>1. PICK ingestor \in Seen(w) :
            Goto(w, IF ingestor # NoIngestor THEN "push" ELSE IF CreateTables THEN "table" ELSE "ingestor")
      BY <2>1 DEF Lookup
    <3>2. \/ Goto(w, "push")
          \/ ingestors = NoIngestor /\ (Goto(w, "table") \/ Goto(w, "ingestor"))
      BY <3>1, NoIngestorIsNone DEF Seen
    <3> QED BY <1>0, <2>1, <3>2 DEF Lookup, Goto, OneMaker, Making, history
  <2>2. CASE CreateTable(w) \/ CreateMapping(w) \/ StoreBegins(w)
    BY <1>0, <2>2 DEF CreateTable, CreateMapping, StoreBegins, Goto, OneMaker, Making, history
  <2>3. CASE CreateIngestor(w)
    BY <1>0, <2>3 DEF CreateIngestor, Goto, OneMaker, Making, history
  <2>4. CASE StoreEnds(w)
    BY <1>0, <2>4 DEF StoreEnds, Goto, OneMaker, Making, history
  <2>5. CASE MapRaceDetected(w)
    BY <1>0, <2>5 DEF MapRaceDetected, Storing, OneMaker, Making, history
  <2>6. CASE FromReader(w) \/ FromReaderReturns(w)
    BY <1>0, <2>6 DEF FromReader, FromReaderReturns, Goto, OneMaker, Making, history
  <2>7. CASE CreateTableFails(w) \/ CreateMappingFails(w) \/ CreateIngestorFails(w) \/ FromReaderFails(w)
    <3>1. /\ AttemptFails(w) /\ pc[w] # "idle"
          /\ UNCHANGED <<phase, ingestors, created, alive>>
      BY <2>7 DEF CreateTableFails, CreateMappingFails, CreateIngestorFails, FromReaderFails
    <3>2. /\ \A v \in Writers \ {w} : pc'[v] = pc[v]
          /\ pc'[w] \in {"lookup", "idle"}
      BY <1>0, <3>1, AttemptFailsKeeps
    <3> QED BY <1>0, <3>1, <3>2 DEF OneMaker, Making
  <2> QED BY <1>4, <2>1, <2>2, <2>3, <2>4, <2>5, <2>6, <2>7 DEF PushData, GetDataIngestor
<1> QED BY <1>1, <1>2, <1>3, <1>4 DEF Next

(* Goroutines race for the map, or make more than one ingestor, only if no   *)
(* Write before the tasks has made one; nothing that fails later empties    *)
(* the map (adx.go:225-243, health.go:309-312).                             *)
THEOREM RacesNeedAFailure == Spec => []RaceNeedsFailure
<1>1. Init => OneMaker
  <2> SUFFICES ASSUME Init PROVE OneMaker
    OBVIOUS
  <2>1. /\ \A w \in Writers : pc[w] = "idle"
        /\ Main \in Writers /\ Main # NoIngestor
        /\ phase = "new" /\ created = {} /\ ingestors = NoIngestor
    BY MainWrites, NoIngestorIsNone DEF Init
  <2>2. alive
    BY DEF Init
  <2> QED BY <2>1, <2>2 DEF OneMaker
<1>2. Inv /\ OneMaker /\ [Next]_vars => OneMaker'
  BY OneMakerStep
<1>3. OneMaker => RaceNeedsFailure
  BY DEF OneMaker, Making, RaceNeedsFailure
<1> QED BY <1>1, <1>2, <1>3, InvHolds, PTL DEF Spec

-----------------------------------------------------------------------------
(* How far a Write is from its return, apart from fairness: no attempt goes  *)
(* back, and a new one begins only when one fewer is left.                  *)

StepsLeft ==
  [l \in AtWork \cup {"idle"} |->
     CASE l = "lookup"   -> 8 [] l = "table"  -> 7 [] l = "mapping" -> 6
       [] l = "ingestor" -> 5 [] l = "store"  -> 4 [] l = "storing" -> 3
       [] l = "push"     -> 2 [] l = "pushed" -> 1 [] l = "idle"    -> 0]

Remaining(w) ==
  IF pc[w] = "idle" THEN 0 ELSE 9 * (Attempts - attempt[w]) + StepsLeft[pc[w]]

(* The steps of a Write only lead towards its return, and those of other    *)
(* writers leave it where it is.                                            *)
OnlyForward ==
  \A w \in Writers : pc[w] # "idle" =>
    \/ UNCHANGED <<pc[w], attempt[w]>>
    \/ Remaining(w)' < Remaining(w)

(* What a writer waits for inside Write is the answer of ADX and never      *)
(* another writer: the one step that needs more than its turn, the creation *)
(* of a mapping, finds the table.                                           *)
NoWriterWaits ==
  \A w \in Writers : Remaining(w) \in 0 .. 9 * Attempts - 1 /\ (pc[w] = "mapping" => table)

LEMMA StepsLeftOf ==
  /\ StepsLeft["lookup"] = 8 /\ StepsLeft["table"] = 7 /\ StepsLeft["mapping"] = 6
  /\ StepsLeft["ingestor"] = 5 /\ StepsLeft["store"] = 4 /\ StepsLeft["storing"] = 3
  /\ StepsLeft["push"] = 2 /\ StepsLeft["pushed"] = 1 /\ StepsLeft["idle"] = 0
BY DEF StepsLeft, AtWork

LEMMA RemainingIsBounded ==
  ASSUME TypeOK, NEW w \in Writers
  PROVE  Remaining(w) \in 0 .. 9 * Attempts - 1
<1>1. /\ pc[w] \in AtWork \cup {"idle"} /\ attempt[w] \in 1 .. Attempts
      /\ Attempts \in Nat \ {0}
  BY AttemptsPositive DEF TypeOK
<1>2. pc[w] # "idle" => StepsLeft[pc[w]] \in 1 .. 8
  BY <1>1, StepsLeftOf DEF AtWork
<1>3. CASE pc[w] # "idle"
  BY <1>1, <1>2, <1>3 DEF Remaining
<1>4. CASE pc[w] = "idle"
  BY <1>1, <1>4 DEF Remaining
<1> QED BY <1>3, <1>4

(* A failed attempt leads to one that has fewer behind it, or out.          *)
LEMMA FailureIsForward ==
  ASSUME TypeOK, NEW w \in Writers, pc[w] # "idle", AttemptFails(w)
  PROVE  OnlyForward
<1>1. /\ \A v \in Writers \ {w} : pc'[v] = pc[v] /\ attempt'[v] = attempt[v]
      /\ \/ pc'[w] = "lookup" /\ attempt'[w] = attempt[w] + 1
         \/ pc'[w] = "idle" /\ attempt'[w] = attempt[w]
  BY AttemptFailsKeeps
<1>2. /\ pc[w] \in AtWork /\ attempt[w] \in 1 .. Attempts
      /\ Attempts \in Nat \ {0}
  BY AttemptsPositive DEF TypeOK
<1>3. StepsLeft[pc[w]] \in 1 .. 8 /\ StepsLeft["lookup"] = 8
  BY <1>2, StepsLeftOf DEF AtWork
<1>4. CASE pc'[w] = "lookup" /\ attempt'[w] = attempt[w] + 1
  BY <1>1, <1>2, <1>3, <1>4 DEF OnlyForward, Remaining
<1>5. CASE pc'[w] = "idle" /\ attempt'[w] = attempt[w]
  BY <1>1, <1>2, <1>3, <1>5 DEF OnlyForward, Remaining
<1> QED BY <1>1, <1>4, <1>5

(* A step inside an attempt.                                                *)
LEMMA MoveIsForward ==
  ASSUME TypeOK, NEW w \in Writers, NEW l \in AtWork \cup {"idle"}, pc[w] # "idle",
         Goto(w, l), StepsLeft[l] < StepsLeft[pc[w]], UNCHANGED attempt
  PROVE  OnlyForward
<1>1. /\ pc \in [Writers -> AtWork \cup {"idle"}] /\ attempt[w] \in 1 .. Attempts
      /\ Attempts \in Nat \ {0}
  BY AttemptsPositive DEF TypeOK
<1>2. pc'[w] = l /\ attempt'[w] = attempt[w]
      /\ \A v \in Writers \ {w} : pc'[v] = pc[v] /\ attempt'[v] = attempt[v]
  BY <1>1 DEF Goto
<1>3. StepsLeft[pc[w]] \in 1 .. 8 /\ StepsLeft[l] \in 0 .. 8
  BY <1>1, StepsLeftOf DEF AtWork
<1>4. Remaining(w)' < Remaining(w)
  BY <1>1, <1>2, <1>3 DEF Remaining
<1> QED BY <1>2, <1>4 DEF OnlyForward

(* No step leads a Write back: whatever fails, it is through after at most  *)
(* 9 * Attempts - 1 of its own steps (adx.go:187-223).                      *)
THEOREM WritesOnlyAdvance == Spec => [][OnlyForward]_vars
<1>1. Inv /\ [Next]_vars => [OnlyForward]_vars
  <2> SUFFICES ASSUME Inv, Next PROVE OnlyForward
    OBVIOUS
  <2>0. TypeOK
    BY DEF Inv
  <2>1. ASSUME NEW w \in Writers, Write(w) PROVE OnlyForward
    <3>1. \A v \in Writers \ {w} : pc'[v] = pc[v] /\ attempt'[v] = attempt[v]
      BY <2>0, <2>1 DEF Write, Goto, TypeOK
    <3> QED BY <2>1, <3>1 DEF OnlyForward, Write
  <2>2. ASSUME NEW w \in Writers, GetDataIngestor(w) PROVE OnlyForward
    <3>1. CASE Lookup(w)
      <4>1. PICK l \in {"push", "table", "ingestor"} : Goto(w, l)
        BY <3>1 DEF Lookup
      <4> QED BY <2>0, <3>1, <4>1, StepsLeftOf, MoveIsForward DEF Lookup, AtWork
    <3>2. CASE CreateTable(w)
      BY <2>0, <3>2, StepsLeftOf, MoveIsForward DEF CreateTable, AtWork
    <3>3. CASE CreateTableFails(w)
      BY <2>0, <3>3, FailureIsForward DEF CreateTableFails
    <3>4. CASE CreateMapping(w)
      BY <2>0, <3>4, StepsLeftOf, MoveIsForward DEF CreateMapping, AtWork
    <3>5. CASE CreateMappingFails(w)
      BY <2>0, <3>5, FailureIsForward DEF CreateMappingFails
    <3>6. CASE CreateIngestor(w)
      BY <2>0, <3>6, StepsLeftOf, MoveIsForward DEF CreateIngestor, AtWork
    <3>7. CASE CreateIngestorFails(w)
      BY <2>0, <3>7, FailureIsForward DEF CreateIngestorFails
    <3>8. CASE StoreBegins(w)
      BY <2>0, <3>8, StepsLeftOf, MoveIsForward DEF StoreBegins, AtWork
    <3>9. CASE StoreEnds(w)
      BY <2>0, <3>9, StepsLeftOf, MoveIsForward DEF StoreEnds, AtWork
    <3>10. CASE MapRaceDetected(w)
      BY <3>10 DEF MapRaceDetected, OnlyForward
    <3> QED BY <2>2, <3>1, <3>2, <3>3, <3>4, <3>5, <3>6, <3>7, <3>8, <3>9, <3>10 DEF GetDataIngestor
  <2>3. ASSUME NEW w \in Writers, FromReader(w) PROVE OnlyForward
    BY <2>0, <2>3, StepsLeftOf, MoveIsForward DEF FromReader, AtWork
  <2>4. ASSUME NEW w \in Writers, FromReaderReturns(w) PROVE OnlyForward
    BY <2>0, <2>4, StepsLeftOf, MoveIsForward DEF FromReaderReturns, AtWork
  <2>5. ASSUME NEW w \in Writers, FromReaderFails(w) PROVE OnlyForward
    BY <2>0, <2>5, FailureIsForward DEF FromReaderFails
  <2>6. CASE StartTasks
    BY <2>6 DEF StartTasks, OnlyForward
  <2> QED BY <2>1, <2>2, <2>3, <2>4, <2>5, <2>6 DEF Next, PushData
<1> QED BY <1>1, InvHolds, PTL DEF Spec

(* Nobody's Write hangs in the middle: the counts above are never negative, *)
(* and where a mapping is to be made the table is there (adx.go:246-261).   *)
THEOREM WritersNeverWait == Spec => []NoWriterWaits
<1>1. Inv => NoWriterWaits
  BY RemainingIsBounded DEF Inv, TablesFirst, NoWriterWaits
<1> QED BY <1>1, InvHolds, PTL

-----------------------------------------------------------------------------
(* The refinement.                                                          *)

LEMMA FailureGivesUp ==
  ASSUME Inv, NEW w \in Writers, pc[w] # "idle", AttemptFails(w), UNCHANGED history
  PROVE  Promise!GivesUp(w) \/ UNCHANGED Promise!writeVars
<1>1. /\ pc' \in [Writers -> AtWork \cup {"idle"}]
      /\ \A v \in Writers \ {w} : pc'[v] = pc[v]
      /\ pc'[w] = "lookup" \/ pc'[w] = "idle"
  BY AttemptFailsKeeps DEF Inv
<1>2. CASE pc'[w] = "lookup"
  BY <1>1, <1>2, Zenon DEF Promise!writeVars, history
<1>3. CASE pc'[w] = "idle"
  <2> DEFINE b == [v \in Writers |-> pc[v] # "idle"]
  <2>1. [v \in Writers |-> pc'[v] # "idle"] = [b EXCEPT ![w] = FALSE]
    BY <1>1, <1>3
  <2>2. b[w]
    OBVIOUS
  <2> QED BY <2>1, <2>2 DEF Promise!GivesUp, history
<1> QED BY <1>1, <1>2, <1>3

(* Steps between a writer's first and last leave it busy.                   *)
LEMMA BusyStays ==
  ASSUME Inv, NEW w \in Writers, NEW l \in AtWork, pc[w] # "idle", Goto(w, l), UNCHANGED history
  PROVE  UNCHANGED Promise!writeVars
<1>1. pc \in [Writers -> AtWork \cup {"idle"}] /\ l # "idle"
  BY DEF Inv, TypeOK, AtWork
<1>2. \A v \in Writers : (pc'[v] # "idle") = (pc[v] # "idle")
  BY <1>1 DEF Goto
<1> QED BY <1>2, Zenon DEF Promise!writeVars, history

LEMMA StepRefines == Inv /\ [Next]_vars => [Promise!WriteNext]_(Promise!writeVars)
<1> SUFFICES ASSUME Inv, [Next]_vars PROVE [Promise!WriteNext]_(Promise!writeVars)
  OBVIOUS
<1> DEFINE Busy == [v \in Writers |-> pc[v] # "idle"]
<1>0. TypeOK /\ OncePerAttempt /\ pc \in [Writers -> AtWork \cup {"idle"}]
  BY DEF Inv, TypeOK
<1>1. CASE UNCHANGED vars
  BY <1>1 DEF vars, history, Promise!writeVars
<1>2. ASSUME NEW w \in Writers, Write(w) PROVE Promise!Begin(w)
  <2>1. ~Busy[w]
    BY <1>2 DEF Write
  <2>2. [v \in Writers |-> pc'[v] # "idle"] = [Busy EXCEPT ![w] = TRUE]
    BY <1>0, <1>2 DEF Write, Goto
  <2> QED BY <1>2, <2>1, <2>2 DEF Write, Promise!Begin
<1>3. ASSUME NEW w \in Writers, GetDataIngestor(w)
      PROVE  Promise!GivesUp(w) \/ UNCHANGED Promise!writeVars
  <2>1. CASE Lookup(w)
    <3>1. PICK l \in {"push", "table", "ingestor"} : Goto(w, l)
      BY <2>1 DEF Lookup
    <3> QED BY <2>1, <3>1, BusyStays DEF Lookup, AtWork
  <2>2. CASE CreateTable(w)
    BY <2>2, BusyStays DEF CreateTable, AtWork
  <2>3. CASE CreateTableFails(w)
    BY <2>3, FailureGivesUp DEF CreateTableFails
  <2>4. CASE CreateMapping(w)
    BY <2>4, BusyStays DEF CreateMapping, AtWork
  <2>5. CASE CreateMappingFails(w)
    BY <2>5, FailureGivesUp DEF CreateMappingFails
  <2>6. CASE CreateIngestor(w)
    BY <2>6, BusyStays DEF CreateIngestor, AtWork
  <2>7. CASE CreateIngestorFails(w)
    BY <2>7, FailureGivesUp DEF CreateIngestorFails
  <2>8. CASE StoreBegins(w)
    BY <2>8, BusyStays DEF StoreBegins, AtWork
  <2>9. CASE StoreEnds(w)
    BY <2>9, BusyStays DEF StoreEnds, AtWork
  <2>10. CASE MapRaceDetected(w)
    BY <2>10 DEF MapRaceDetected, history, Promise!writeVars
  <2> QED BY <1>3, <2>1, <2>2, <2>3, <2>4, <2>5, <2>6, <2>7, <2>8, <2>9, <2>10 DEF GetDataIngestor
<1>4. ASSUME NEW w \in Writers, FromReader(w) PROVE Promise!Accepted(w)
  <2>1. Busy[w]
    BY <1>4 DEF FromReader
  <2>2. [v \in Writers |-> pc'[v] # "idle"] = Busy
    BY <1>0, <1>4 DEF FromReader, Goto
  <2>3. copies[w] < Attempts
    BY <1>0, <1>4, AttemptsPositive DEF FromReader, OncePerAttempt, TypeOK
  <2> QED BY <1>4, <2>1, <2>2, <2>3 DEF FromReader, Promise!Accepted
<1>5. ASSUME NEW w \in Writers, FromReaderReturns(w) PROVE Promise!Succeeds(w)
  <2>1. Busy[w]
    BY <1>5 DEF FromReaderReturns
  <2>2. [v \in Writers |-> pc'[v] # "idle"] = [Busy EXCEPT ![w] = FALSE]
    BY <1>0, <1>5 DEF FromReaderReturns, Goto
  <2>3. copies[w] > 0
    BY <1>0, <1>5 DEF FromReaderReturns, OncePerAttempt, TypeOK
  <2> QED BY <1>5, <2>1, <2>2, <2>3 DEF FromReaderReturns, Promise!Succeeds
<1>6. ASSUME NEW w \in Writers, FromReaderFails(w)
      PROVE  Promise!GivesUp(w) \/ UNCHANGED Promise!writeVars
  BY <1>6, FailureGivesUp DEF FromReaderFails
<1>7. CASE StartTasks
  BY <1>7 DEF StartTasks, history, Promise!writeVars
<1> QED
  BY <1>1, <1>2, <1>3, <1>4, <1>5, <1>6, <1>7, Zenon DEF Next, PushData, Promise!WriteNext

(* Write keeps the promise of AdxWrite, whatever fails and however many     *)
(* goroutines share the unguarded map.                                      *)
THEOREM Refinement == Spec => ImplementsAdxWrite
<1>1. Init => Promise!WriteInit
  BY DEF Init, Promise!WriteInit
<1>2. Inv /\ [Next]_vars => [Promise!WriteNext]_(Promise!writeVars)
  BY StepRefines
<1> QED BY <1>1, <1>2, InvHolds, PTL DEF Spec, ImplementsAdxWrite, Promise!WriteSpec
=============================================================================
