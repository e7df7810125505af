---------------------------- MODULE CacheRefresh ----------------------------
(***************************************************************************)
(* How the cache keeps the promise of AtomicCache: the double-buffered     *)
(* in-memory store (tasks/cache/store/memory/memory.go) and the goroutine  *)
(* that refills it from Azure Data Explorer (tasks/cache/adx/cache.go).    *)
(* Go maps are references, so the module has a heap: the store, the        *)
(* temporary store and the sync.Pool hold names of maps, and a map that    *)
(* goes back to the pool keeps its records until somebody clears it.       *)
(***************************************************************************)
EXTENDS Integers

CONSTANTS
  Keys, Data, NoData, NoTable,  \* as in AtomicCache
  Maps,      \* names for the maps the process allocates
  NoMap,     \* a nil map
  Readers,   \* partition goroutines that translate messages
  Attempts,  \* config.Translate.ADX.RetryOptions.Attempts
  Faults     \* which calls may fail

FaultKinds == {"query", "row", "info"}

ASSUME NoDataIsNotData == NoData \notin Data
ASSUME NoMapIsNoMap == NoMap \notin Maps
ASSUME AttemptsPositive == Attempts \in Nat \ {0}
ASSUME FaultsOK == Faults \subseteq FaultKinds

Tables == [Keys -> Data \cup {NoData}]
Empty == [k \in Keys |-> NoData]

ASSUME NoTableIsNoTable == NoTable \notin Tables

VARIABLES
  source,     \* the table WMTWarmup in the database
  heap,       \* the records of every map
  store,      \* Memory.store
  tempStore,  \* Memory.tempStore
  pool,       \* maps in Memory.pool
  inGet,      \* the map a reader looks into, under the read lock
  stop,       \* tokens in the updater's stop channel (capacity 1)
  pc,         \* where the goroutine of the updater is
  attempt,    \* failed attempts of the update in progress
  result,     \* the query result being read
  unread      \* its rows that have not been read yet

storeVars == <<heap, store, tempStore, pool>>
updateVars == <<attempt, result, unread>>
vars == <<source, storeVars, inGet, stop, pc, updateVars>>

TypeOK ==
  /\ source \in Tables
  /\ heap \in [Maps -> Tables]
  /\ store \in Maps
  /\ tempStore \in Maps \cup {NoMap}
  /\ pool \subseteq Maps
  /\ inGet \in [Readers -> Maps \cup {NoMap}]
  /\ stop \in {0, 1}
  /\ pc \in {"select", "query", "rows", "info", "swap", "lock", "failed", "stopped"}
  /\ attempt \in 0 .. Attempts
  /\ result \in Tables \cup {NoTable}
  /\ unread \subseteq Keys

(* New runs the first update before the process serves anything, so the     *)
(* updater starts with a query.                                             *)
Init ==
  /\ source \in Tables
  /\ heap = [m \in Maps |-> Empty]
  /\ store \in Maps
  /\ tempStore = NoMap
  /\ pool = {}
  /\ inGet = [r \in Readers |-> NoMap]
  /\ stop = 0
  /\ pc = "query"
  /\ attempt = 0
  /\ result = NoTable
  /\ unread = {}

-----------------------------------------------------------------------------
(* The store.                                                              *)

(* New has returned: lookups and Stop come after the first refresh.         *)
Serving == heap[store] # Empty

(* Get looks up the current map while it holds the read lock, which it does *)
(* not get any more when the updater waits for the write lock.              *)
Get(r) ==
  /\ Serving
  /\ inGet[r] = NoMap
  /\ pc # "lock"
  /\ inGet' = [inGet EXCEPT ![r] = store]
  /\ UNCHANGED <<source, storeVars, stop, pc, updateVars>>

GetReturns(r) ==
  /\ inGet[r] # NoMap
  /\ inGet' = [inGet EXCEPT ![r] = NoMap]
  /\ UNCHANGED <<source, storeVars, stop, pc, updateVars>>

(* Maps nothing refers to any more; sync.Pool's New allocates one.         *)
Unused == Maps \ ({store, tempStore} \cup pool)

(* CreateBufferStore clears the map the pool hands out, whichever it is.    *)
CreateBufferStore(m) ==
  /\ m \in pool \cup Unused
  /\ tempStore' = m
  /\ pool' = pool \ {m}

(* Mutant of AddRecordToTemporaryStore: the recycled map is not cleared.    *)
AddRecordWithoutClear(k) ==
  IF tempStore = NoMap
  THEN \E m \in Maps :
         /\ CreateBufferStore(m)
         /\ heap' = [heap EXCEPT ![m][k] = result[k]]
  ELSE /\ heap' = [heap EXCEPT ![tempStore][k] = result[k]]
       /\ UNCHANGED <<tempStore, pool>>

AddRecordToTemporaryStore(k) ==
  IF tempStore = NoMap
  THEN \E m \in Maps :
         /\ CreateBufferStore(m)
         /\ heap' = [heap EXCEPT ![m] = [Empty EXCEPT ![k] = result[k]]]
  ELSE /\ heap' = [heap EXCEPT ![tempStore][k] = result[k]]
       /\ UNCHANGED <<tempStore, pool>>

(* Mutant of DiscardTemporaryStore: the rows of a failed attempt are kept.  *)
DiscardNothing == UNCHANGED <<tempStore, pool>>

DiscardTemporaryStore ==
  /\ tempStore' = NoMap
  /\ pool' = pool \cup ({tempStore} \ {NoMap})

(* Mutant of SwapWithTemporaryStore: the buffer is not let go.              *)
SwapWithoutReset ==
  /\ \A r \in Readers : inGet[r] = NoMap
  /\ store' = tempStore
  /\ pool' = pool \cup {store}
  /\ UNCHANGED tempStore

(* The swap takes both locks, so no reader is inside Get.                   *)
SwapWithTemporaryStore ==
  /\ \A r \in Readers : inGet[r] = NoMap
  /\ store' = tempStore
  /\ pool' = pool \cup {store}
  /\ tempStore' = NoMap

(* The garbage collector empties sync.Pools as it likes.                   *)
PoolDrops(m) ==
  /\ m \in pool
  /\ pool' = pool \ {m}
  /\ UNCHANGED <<source, heap, store, tempStore, inGet, stop, pc, updateVars>>

-----------------------------------------------------------------------------
(* The updater.                                                            *)

SourceChanges ==
  /\ source' \in Tables
  /\ UNCHANGED <<storeVars, inGet, stop, pc, updateVars>>

TickerFires ==
  /\ pc = "select"
  /\ pc' = "query"
  /\ attempt' = 0
  /\ UNCHANGED <<source, storeVars, inGet, stop, result, unread>>

(* Stop leaves a token in the channel and blocks while one is there; the    *)
(* loop takes it between two updates.                                       *)
Stop ==
  /\ Serving
  /\ stop = 0
  /\ stop' = 1
  /\ UNCHANGED <<source, storeVars, inGet, pc, updateVars>>

StopReceived ==
  /\ pc = "select"
  /\ stop = 1
  /\ stop' = 0
  /\ pc' = "stopped"
  /\ UNCHANGED <<source, storeVars, inGet, updateVars>>

(* An attempt ended with an error: retry.Do goes on until Attempts of them  *)
(* have, and then New gives up (the store has never been filled) or Start   *)
(* waits for its next tick.  Its mutants retry once too often, end the loop *)
(* on an update that failed, and do not count the attempts.                 *)
NextOneTooMany ==
  IF attempt < Attempts THEN "query" ELSE IF Serving THEN "select" ELSE "failed"

NextEndsLoop ==
  IF attempt + 1 < Attempts THEN "query" ELSE IF Serving THEN "stopped" ELSE "failed"

AfterFailure ==
  IF attempt + 1 < Attempts THEN "query" ELSE IF Serving THEN "select" ELSE "failed"

FailUncounted ==
  /\ attempt' = attempt
  /\ pc' = AfterFailure
  /\ result' = NoTable
  /\ unread' = {}
  /\ UNCHANGED <<source, store, inGet, stop>>

Fail ==
  /\ attempt' = attempt + 1
  /\ pc' = AfterFailure
  /\ result' = NoTable
  /\ unread' = {}
  /\ UNCHANGED <<source, store, inGet, stop>>

QueryAdx ==
  /\ pc = "query"
  /\ pc' = "rows"
  /\ result' = source
  /\ unread' = {k \in Keys : source[k] # NoData}
  /\ UNCHANGED <<source, storeVars, inGet, stop, attempt>>

QueryAdxFails ==
  /\ "query" \in Faults
  /\ pc = "query"
  /\ Fail
  /\ UNCHANGED <<heap, tempStore, pool>>

ProcessRow(k) ==
  /\ pc = "rows"
  /\ k \in unread
  /\ unread' = unread \ {k}
  /\ AddRecordToTemporaryStore(k)
  /\ UNCHANGED <<source, store, inGet, stop, pc, attempt, result>>

(* A row that cannot be read or extracted throws away the rows before it.   *)
ProcessRowFails ==
  /\ "row" \in Faults
  /\ pc = "rows"
  /\ Fail
  /\ DiscardTemporaryStore
  /\ UNCHANGED heap

EndOfRows ==
  /\ pc = "rows"
  /\ unread = {}
  /\ pc' = "info"
  /\ UNCHANGED <<source, storeVars, inGet, stop, updateVars>>

LogQueryCompletionInfo ==
  /\ pc = "info"
  /\ pc' = "swap"
  /\ UNCHANGED <<source, storeVars, inGet, stop, updateVars>>

LogQueryCompletionInfoFails ==
  /\ "info" \in Faults
  /\ pc = "info"
  /\ Fail
  /\ DiscardTemporaryStore
  /\ UNCHANGED heap

(* The buffer has rows: the updater asks for the write lock, and swaps when *)
(* the lookups in progress have returned.                                   *)
LockStore ==
  /\ pc = "swap"
  /\ tempStore # NoMap
  /\ heap[tempStore] # Empty
  /\ pc' = "lock"
  /\ UNCHANGED <<source, storeVars, inGet, stop, updateVars>>

SwapTemporaryStore ==
  /\ pc = "lock"
  /\ SwapWithTemporaryStore
  /\ pc' = "select"
  /\ result' = NoTable
  /\ UNCHANGED <<source, heap, inGet, stop, attempt, unread>>

(* A result without rows has no temporary store: the swap is an error.      *)
SwapTemporaryStoreFails ==
  /\ pc = "swap"
  /\ (tempStore # NoMap => heap[tempStore] = Empty)
  /\ Fail
  /\ DiscardTemporaryStore
  /\ UNCHANGED heap

Update ==
  \/ QueryAdx \/ QueryAdxFails
  \/ \E k \in Keys : ProcessRow(k)
  \/ ProcessRowFails
  \/ EndOfRows
  \/ LogQueryCompletionInfo \/ LogQueryCompletionInfoFails
  \/ LockStore \/ SwapTemporaryStore \/ SwapTemporaryStoreFails

Next ==
  \/ SourceChanges
  \/ TickerFires \/ Stop \/ StopReceived
  \/ Update
  \/ \E r \in Readers : Get(r) \/ GetReturns(r)
  \/ \E m \in Maps : PoolDrops(m)

Spec == Init /\ [][Next]_vars

(***************************************************************************)
(* The ticker fires and calls return.  A select with two ready cases takes *)
(* either of them with equal probability.                                  *)
(***************************************************************************)
Fairness ==
  /\ WF_vars(TickerFires)
  /\ WF_vars(Update)
  /\ SF_vars(StopReceived)
  /\ \A r \in Readers : WF_vars(GetReturns(r))

FairSpec == Spec /\ Fairness

-----------------------------------------------------------------------------
(* The detailed cache implements the atomic one (memory.go:56-66, 140-165): *)
(* lookups see the map in store, and the query in progress is the result.   *)
AC == INSTANCE AtomicCache WITH taken <- result, view <- heap[store]

ImplementsAtomicCache == AC!AtomicSpec

(* The maps have one owner each: the live map is never in the pool or the   *)
(* buffer, so clearing or filling one cannot show through the other, and a  *)
(* reader inside Get looks into the live map (memory.go:140-178).           *)
OneOwner ==
  /\ tempStore # store
  /\ {store, tempStore} \cap pool = {}
  /\ \A r \in Readers : inGet[r] \in {NoMap, store}

(* Rows of different attempts never mix, also not through a recycled map:   *)
(* the buffer holds exactly the rows read so far of the current result      *)
(* (cache.go:289-319, memory.go:68-106).                                    *)
BufferIsOneResult ==
  tempStore # NoMap =>
    /\ result # NoTable
    /\ heap[tempStore] = [k \in Keys |-> IF k \in unread THEN NoData ELSE result[k]]

(* If from some point on no call fails and the source stays as it is, with   *)
(* at least one row, then the cache ends up with that table, however many   *)
(* refreshes failed before (cache.go:462-481): the updater is not stopped   *)
(* and New did not give up.                                                 *)
CallFails == QueryAdxFails \/ ProcessRowFails \/ LogQueryCompletionInfoFails

Converges ==
  /\ <>[][source' = source]_vars /\ <>[](source # Empty)
  /\ <>[][~CallFails]_vars
  /\ <>Serving
  /\ [](stop = 0)
  => <>[](heap[store] = source)

(* Stop ends the updater although it finds it in the middle of an update    *)
(* whose calls go on failing (cache.go:462-489).                            *)
Stops == stop = 1 ~> pc = "stopped"
=============================================================================
