------------------------ MODULE CacheRefresh_proofs ------------------------
(***************************************************************************)
(* Proofs about CacheRefresh, for any set of keys, maps and readers and    *)
(* any number of attempts: the maps never alias, a buffer is always a part *)
(* of one result, and the double-buffered store implements AtomicCache.    *)
(***************************************************************************)
EXTENDS CacheRefresh, TLAPS

(* What the goroutine's position says about its local state: a result is at *)
(* hand exactly while its rows are processed, its rows are read in full     *)
(* before the swap, an attempt in progress is not the last failed one, and  *)
(* the write lock is asked for a buffer with rows only.                     *)
UpdaterInv ==
  /\ result # NoTable <=> pc \in {"rows", "info", "swap", "lock"}
  /\ pc \in {"info", "swap", "lock"} => unread = {}
  /\ pc \in {"query", "rows", "info", "swap", "lock"} => attempt < Attempts
  /\ pc = "lock" => tempStore # NoMap /\ heap[tempStore] # Empty

(* Rows are only skipped because they have been added to the buffer.        *)
NoRowLost ==
  tempStore = NoMap /\ result # NoTable =>
    unread = {k \in Keys : result[k] # NoData}

IInv == TypeOK /\ OneOwner /\ BufferIsOneResult /\ UpdaterInv /\ NoRowLost

(* A fresh map (memory.go:47-51) holds a table, the one without records.    *)
LEMMA EmptyIsTable == Empty \in Tables
BY DEF Empty, Tables

(* What New builds satisfies the invariant (cache.go:151-183).              *)
LEMMA InitIInv == Init => IInv
<1> SUFFICES ASSUME Init PROVE IInv
  OBVIOUS
<1>1. TypeOK
  BY EmptyIsTable, AttemptsPositive DEF Init, TypeOK
<1>2. OneOwner /\ BufferIsOneResult /\ NoRowLost
  BY NoMapIsNoMap DEF Init, OneOwner, BufferIsOneResult, NoRowLost
<1>3. UpdaterInv
  BY AttemptsPositive DEF Init, UpdaterInv
<1> QED
  BY <1>1, <1>2, <1>3 DEF IInv

(* A failed attempt, with its buffer discarded, keeps the invariant.        *)
LEMMA FailKeepsIInv ==
  ASSUME IInv, Fail, DiscardTemporaryStore, UNCHANGED heap,
         pc \in {"query", "rows", "info", "swap"}
  PROVE  IInv'
<1> USE DEF IInv
<1>1. TypeOK'
  <2>1. attempt + 1 \in 0 .. Attempts
    BY AttemptsPositive DEF TypeOK, UpdaterInv
  <2>2. pc' \in {"query", "select", "failed"}
    BY DEF Fail, AfterFailure
  <2> QED
    BY <2>1, <2>2 DEF TypeOK, Fail, DiscardTemporaryStore
<1>2. OneOwner'
  BY NoMapIsNoMap DEF TypeOK, OneOwner, Fail, DiscardTemporaryStore
<1>3. BufferIsOneResult' /\ NoRowLost'
  BY DEF BufferIsOneResult, NoRowLost, Fail, DiscardTemporaryStore
<1>4. UpdaterInv'
  BY AttemptsPositive DEF TypeOK, UpdaterInv, Fail, AfterFailure
<1> QED
  BY <1>1, <1>2, <1>3, <1>4

(* A row goes to the buffer, which is made first if there is none; in both  *)
(* cases the live map keeps its records.                                    *)
LEMMA ProcessRowKeepsIInv ==
  ASSUME IInv, NEW k \in Keys, ProcessRow(k)
  PROVE  /\ IInv'
         /\ heap'[store'] = heap[store]
<1> USE DEF IInv
<1>0. /\ pc = "rows" /\ k \in unread /\ unread' = unread \ {k}
      /\ UNCHANGED <<source, store, inGet, stop, pc, attempt, result>>
      /\ result \in Tables /\ result # NoTable
      /\ result[k] \in Data \cup {NoData}
  BY DEF ProcessRow, TypeOK, UpdaterInv, Tables
<1>1. CASE tempStore = NoMap
  <2>1. PICK m \in Maps :
          /\ CreateBufferStore(m)
          /\ heap' = [heap EXCEPT ![m] = [Empty EXCEPT ![k] = result[k]]]
    BY <1>1 DEF ProcessRow, AddRecordToTemporaryStore
  <2>2. m # store /\ tempStore' = m /\ pool' = pool \ {m}
    BY <2>1 DEF CreateBufferStore, Unused, OneOwner
  <2>3. [Empty EXCEPT ![k] = result[k]] \in Tables
    BY <1>0 DEF Empty, Tables
  <2>4. TypeOK'
    BY <1>0, <2>1, <2>2, <2>3 DEF TypeOK
  <2>5. OneOwner'
    BY <1>0, <2>2 DEF OneOwner
  <2>6. unread = {j \in Keys : result[j] # NoData}
    BY <1>0, <1>1 DEF NoRowLost
  <2>7. heap'[m] = [Empty EXCEPT ![k] = result[k]]
    BY <2>1 DEF TypeOK
  <2>8. BufferIsOneResult'
    BY <1>0, <2>2, <2>6, <2>7 DEF BufferIsOneResult, Empty
  <2>9. UpdaterInv' /\ NoRowLost'
    BY <1>0, <2>2, NoMapIsNoMap DEF UpdaterInv, NoRowLost
  <2> QED
    BY <1>0, <2>1, <2>2, <2>4, <2>5, <2>8, <2>9 DEF TypeOK
<1>2. CASE tempStore # NoMap
  <2>1. /\ heap' = [heap EXCEPT ![tempStore][k] = result[k]]
        /\ UNCHANGED <<tempStore, pool>>
    BY <1>2 DEF ProcessRow, AddRecordToTemporaryStore
  <2>2. tempStore \in Maps /\ tempStore # store /\ heap[tempStore] \in Tables
    BY <1>2 DEF TypeOK, OneOwner
  <2>3. /\ heap'[tempStore] = [heap[tempStore] EXCEPT ![k] = result[k]]
        /\ heap'[tempStore] \in Tables
        /\ \A m \in Maps \ {tempStore} : heap'[m] = heap[m]
        /\ heap' \in [Maps -> Tables]
    BY <1>0, <2>1, <2>2 DEF TypeOK, Tables
  <2>4. TypeOK'
    BY <1>0, <2>1, <2>3 DEF TypeOK
  <2>5. OneOwner'
    BY <1>0, <2>1 DEF OneOwner
  <2>6. heap[tempStore] =
          [j \in Keys |-> IF j \in unread THEN NoData ELSE result[j]]
    BY <1>2 DEF BufferIsOneResult
  <2>7. heap'[tempStore] =
          [j \in Keys |-> IF j \in unread' THEN NoData ELSE result[j]]
    BY <1>0, <2>3, <2>6
  <2>8. BufferIsOneResult'
    BY <1>0, <2>1, <2>7 DEF BufferIsOneResult
  <2>9. UpdaterInv' /\ NoRowLost'
    BY <1>0, <1>2, <2>1 DEF UpdaterInv, NoRowLost
  <2> QED
    BY <1>0, <2>2, <2>3, <2>4, <2>5, <2>8, <2>9 DEF TypeOK
<1> QED
  BY <1>1, <1>2

(* The swap makes the buffer, by then the whole result, the live map, and   *)
(* the old live map the pool's.                                             *)
LEMMA SwapKeepsIInv ==
  ASSUME IInv, SwapTemporaryStore
  PROVE  /\ IInv'
         /\ result \notin {NoTable, Empty}
         /\ heap'[store'] = result
         /\ result' = NoTable
<1> USE DEF IInv
<1>1. /\ result # NoTable /\ unread = {} /\ result \in Tables
      /\ tempStore \in Maps /\ heap[tempStore] # Empty
  BY DEF SwapTemporaryStore, UpdaterInv, TypeOK
<1>2. heap[tempStore] = result
  BY <1>1, NoMapIsNoMap DEF BufferIsOneResult, Tables
<1>3. TypeOK'
  BY <1>1 DEF TypeOK, SwapTemporaryStore, SwapWithTemporaryStore
<1>4. OneOwner'
  BY <1>1, NoMapIsNoMap
     DEF OneOwner, TypeOK, SwapTemporaryStore, SwapWithTemporaryStore
<1>5. BufferIsOneResult' /\ UpdaterInv' /\ NoRowLost'
  BY DEF BufferIsOneResult, UpdaterInv, NoRowLost, SwapTemporaryStore,
         SwapWithTemporaryStore
<1> QED
  BY <1>1, <1>2, <1>3, <1>4, <1>5 DEF SwapTemporaryStore, SwapWithTemporaryStore

(* Every step keeps the invariant; next to it, what the step does to the    *)
(* live map and to the result at hand, seen as a step of AtomicCache.       *)
LEMMA StepIsAtomic ==
  ASSUME IInv, [Next]_vars
  PROVE  IInv' /\ [AC!AtomicNext]_(AC!cacheVars)
<1> USE DEF IInv
<1> DEFINE Stutter == UNCHANGED AC!cacheVars
<1>0. CASE UNCHANGED vars
  <2>1. IInv'
    BY <1>0 DEF vars, storeVars, updateVars, TypeOK, OneOwner,
                BufferIsOneResult, UpdaterInv, NoRowLost
  <2> QED
    BY <1>0, <2>1 DEF vars, storeVars, AC!cacheVars, updateVars
<1>1. CASE SourceChanges
  <2>1. IInv'
    BY <1>1 DEF SourceChanges, storeVars, updateVars, TypeOK, OneOwner,
                BufferIsOneResult, UpdaterInv, NoRowLost
  <2>2. AC!SourceChanges
    BY <1>1 DEF SourceChanges, storeVars, updateVars, AC!SourceChanges,
                Tables, AC!Tables
  <2> QED
    BY <2>1, <2>2 DEF AC!AtomicNext
<1>2. CASE TickerFires \/ Stop \/ StopReceived
  <2>1. TypeOK' /\ OneOwner' /\ BufferIsOneResult' /\ NoRowLost'
    BY <1>2, AttemptsPositive
       DEF TickerFires, Stop, StopReceived, storeVars, updateVars,
           TypeOK, OneOwner, BufferIsOneResult, NoRowLost
  <2>2. UpdaterInv'
    BY <1>2, AttemptsPositive
       DEF TickerFires, Stop, StopReceived, storeVars, updateVars, UpdaterInv
  <2>3. Stutter
    BY <1>2 DEF TickerFires, Stop, StopReceived, storeVars, updateVars,
                AC!cacheVars
  <2> QED
    BY <2>1, <2>2, <2>3
<1>3. CASE QueryAdx
  <2>1. result = NoTable /\ tempStore = NoMap /\ result' \in Tables
    BY <1>3 DEF QueryAdx, UpdaterInv, BufferIsOneResult, TypeOK
  <2>2. TypeOK' /\ OneOwner' /\ NoRowLost'
    BY <1>3, <2>1 DEF QueryAdx, storeVars, TypeOK, OneOwner, NoRowLost
  <2>3. BufferIsOneResult' /\ UpdaterInv'
    BY <1>3, <2>1, NoTableIsNoTable
       DEF QueryAdx, storeVars, BufferIsOneResult, UpdaterInv
  <2>4. AC!Query
    BY <1>3, <2>1 DEF QueryAdx, storeVars, AC!Query
  <2> QED
    BY <2>2, <2>3, <2>4 DEF AC!AtomicNext
<1>4. CASE \/ QueryAdxFails \/ ProcessRowFails
           \/ LogQueryCompletionInfoFails \/ SwapTemporaryStoreFails
  <2>1. /\ Fail /\ UNCHANGED heap
        /\ pc \in {"query", "rows", "info", "swap"}
    BY <1>4 DEF QueryAdxFails, ProcessRowFails, LogQueryCompletionInfoFails,
                SwapTemporaryStoreFails
  <2>2. DiscardTemporaryStore
    <3>1. CASE QueryAdxFails
      <4>1. tempStore = NoMap
        BY <3>1 DEF QueryAdxFails, UpdaterInv, BufferIsOneResult
      <4> QED
        BY <3>1, <4>1 DEF QueryAdxFails, DiscardTemporaryStore
    <3> QED
      BY <1>4, <3>1 DEF ProcessRowFails, LogQueryCompletionInfoFails,
                        SwapTemporaryStoreFails
  <2>3. IInv'
    BY <2>1, <2>2, FailKeepsIInv
  <2>4. AC!GiveUp
    BY <2>1 DEF Fail, AC!GiveUp
  <2> QED
    BY <2>3, <2>4 DEF AC!AtomicNext
<1>5. CASE \E k \in Keys : ProcessRow(k)
  <2>1. PICK k \in Keys : ProcessRow(k)
    BY <1>5
  <2>2. IInv' /\ heap'[store'] = heap[store]
    BY <2>1, ProcessRowKeepsIInv
  <2>3. Stutter
    BY <2>1, <2>2 DEF ProcessRow, AC!cacheVars
  <2> QED
    BY <2>2, <2>3
<1>6. CASE EndOfRows \/ LogQueryCompletionInfo \/ LockStore
  <2>1. TypeOK' /\ OneOwner' /\ BufferIsOneResult' /\ NoRowLost'
    BY <1>6 DEF EndOfRows, LogQueryCompletionInfo, LockStore, storeVars, updateVars,
                TypeOK, OneOwner, BufferIsOneResult, NoRowLost
  <2>2. UpdaterInv'
    BY <1>6 DEF EndOfRows, LogQueryCompletionInfo, LockStore, storeVars, updateVars,
                UpdaterInv
  <2>3. Stutter
    BY <1>6 DEF EndOfRows, LogQueryCompletionInfo, LockStore, storeVars, updateVars,
                AC!cacheVars
  <2> QED
    BY <2>1, <2>2, <2>3
<1>7. CASE SwapTemporaryStore
  <2>1. IInv' /\ result \notin {NoTable, Empty} /\ heap'[store'] = result
        /\ result' = NoTable
    BY <1>7, SwapKeepsIInv
  <2>2. AC!Refresh
    BY <1>7, <2>1 DEF SwapTemporaryStore, AC!Refresh, Empty, AC!Empty
  <2> QED
    BY <2>1, <2>2 DEF AC!AtomicNext
<1>8. CASE \E r \in Readers : Get(r) \/ GetReturns(r)
  <2>1. PICK r \in Readers : Get(r) \/ GetReturns(r)
    BY <1>8
  <2>2. inGet' \in [Readers -> Maps \cup {NoMap}]
        /\ \A q \in Readers : inGet'[q] \in {NoMap, store}
    BY <2>1 DEF Get, GetReturns, TypeOK, OneOwner
  <2>3. UNCHANGED <<source, storeVars, stop, pc, updateVars>>
    BY <2>1 DEF Get, GetReturns
  <2>4. IInv'
    BY <2>2, <2>3 DEF storeVars, updateVars, TypeOK, OneOwner,
                      BufferIsOneResult, UpdaterInv, NoRowLost
  <2>5. Stutter
    BY <2>3 DEF storeVars, updateVars, AC!cacheVars
  <2> QED
    BY <2>4, <2>5
<1>9. CASE \E m \in Maps : PoolDrops(m)
  <2>1. PICK m \in Maps : PoolDrops(m)
    BY <1>9
  <2>2. IInv'
    BY <2>1 DEF PoolDrops, updateVars, TypeOK, OneOwner, BufferIsOneResult,
                UpdaterInv, NoRowLost
  <2>3. Stutter
    BY <2>1 DEF PoolDrops, updateVars, AC!cacheVars
  <2> QED
    BY <2>2, <2>3
<1> QED
  BY <1>0, <1>1, <1>2, <1>3, <1>4, <1>5, <1>6, <1>7, <1>8, <1>9
     DEF Next, Update

(* The invariant holds throughout: store, buffer, pool and the progress of  *)
(* the update always fit together (cache.go:289-395).                       *)
THEOREM Invariance == Spec => []IInv
<1>1. IInv /\ [Next]_vars => IInv'
  BY StepIsAtomic
<1> QED
  BY InitIInv, <1>1, PTL DEF Spec

(* Type correctness.                                                        *)
THEOREM TypeCorrect == Spec => []TypeOK
<1>1. IInv => TypeOK
  BY DEF IInv
<1> QED
  BY Invariance, <1>1, PTL

(* The live map, the buffer and the pooled maps never alias, and a lookup   *)
(* in progress is in the live map (memory.go:56-66, 140-178).               *)
THEOREM MapsNeverAlias == Spec => []OneOwner
<1>1. IInv => OneOwner
  BY DEF IInv
<1> QED
  BY Invariance, <1>1, PTL

(* The buffer holds rows of the current result and of no other, although    *)
(* its map is a recycled one (cache.go:289-383, memory.go:68-106).          *)
THEOREM ResultsNeverMix == Spec => []BufferIsOneResult
<1>1. IInv => BufferIsOneResult
  BY DEF IInv
<1> QED
  BY Invariance, <1>1, PTL

(* Lookups see complete, non-empty results only, and failures change        *)
(* nothing: the double-buffered store refines the atomic cache.             *)
THEOREM Refinement == Spec => ImplementsAtomicCache
<1>1. Init => AC!AtomicInit
  BY DEF Init, AC!AtomicInit, Tables, AC!Tables, Empty, AC!Empty
<1>2. IInv /\ [Next]_vars => [AC!AtomicNext]_(AC!cacheVars)
  BY StepIsAtomic
<1> QED
  BY Invariance, <1>1, <1>2, PTL DEF Spec, ImplementsAtomicCache, AC!AtomicSpec

(* What lookups see changes to a complete, non-empty table and to nothing   *)
(* else: the translator is modelled over such a cache (Translate's Refresh, *)
(* cache.go:385-395).                                                       *)
THEOREM ViewsAreTables == Spec => [][heap'[store'] \in Tables \ {Empty}]_(heap[store])
<1>1. IInv /\ [Next]_vars => [heap'[store'] \in Tables \ {Empty}]_(heap[store])
  <2> SUFFICES ASSUME IInv, [Next]_vars, heap'[store'] # heap[store]
               PROVE  heap'[store'] \in Tables \ {Empty}
    OBVIOUS
  <2>1. [AC!AtomicNext]_(AC!cacheVars)
    BY StepIsAtomic
  <2>2. AC!Refresh
    BY <2>1 DEF AC!AtomicNext, AC!SourceChanges, AC!Query, AC!GiveUp, AC!cacheVars
  <2>3. result \in Tables \cup {NoTable}
    BY DEF IInv, TypeOK
  <2> QED
    BY <2>2, <2>3 DEF AC!Refresh, AC!Empty, Empty
<1> QED
  BY Invariance, <1>1, PTL DEF Spec

-----------------------------------------------------------------------------
(* What further follows for lookups and for updates.                        *)

(* No step writes to a map a lookup is reading: Go ends the process when it  *)
(* notices that, and a recycled map may be any the pool holds               *)
(* (memory.go:56-106).                                                      *)
MapInUseIsStill ==
  \A r \in Readers : inGet[r] # NoMap => heap'[inGet[r]] = heap[inGet[r]]

THEOREM NeverWrittenWhileRead == Spec => [][MapInUseIsStill]_vars
<1>1. IInv /\ [Next]_vars => [MapInUseIsStill]_vars
  <2> SUFFICES ASSUME IInv, Next, NEW r \in Readers, inGet[r] # NoMap
               PROVE  heap'[inGet[r]] = heap[inGet[r]]
    BY DEF MapInUseIsStill
  <2>1. inGet[r] = store
    BY DEF IInv, OneOwner
  <2>2. ASSUME NEW k \in Keys, ProcessRow(k) PROVE heap'[store] = heap[store]
    <3>1. heap'[store'] = heap[store]
      BY <2>2, ProcessRowKeepsIInv
    <3>2. store' = store
      BY <2>2 DEF ProcessRow
    <3> QED BY <3>1, <3>2
  <2>3. CASE UNCHANGED heap
    BY <2>3
  <2>4. CASE ~UNCHANGED heap
    <3>1. \E k \in Keys : ProcessRow(k)
      BY <2>4 DEF Next, SourceChanges, TickerFires, Stop, StopReceived, Update, QueryAdx,
         QueryAdxFails, ProcessRowFails, EndOfRows, LogQueryCompletionInfo,
         LogQueryCompletionInfoFails, LockStore, SwapTemporaryStore, SwapTemporaryStoreFails,
         Get, GetReturns, PoolDrops, storeVars
    <3> QED BY <2>1, <2>2, <3>1
  <2> QED BY <2>3, <2>4
<1> QED BY Invariance, <1>1, PTL DEF Spec

(* An update that has come to the swap has its whole result in the buffer,   *)
(* so that only a result without rows is refused there.                     *)
SwapsWholeResults ==
  pc \in {"swap", "lock"} /\ result # Empty => tempStore # NoMap /\ heap[tempStore] = result

(* A row once read is not lost before the swap, and a query that returned    *)
(* any row, and of which no step failed, does refresh the cache              *)
(* (cache.go:337-395, memory.go:140-165).                                    *)
THEOREM NothingMissingAtSwap == Spec => []SwapsWholeResults
<1>1. IInv => SwapsWholeResults
  <2> SUFFICES ASSUME IInv, pc \in {"swap", "lock"}, result # Empty
               PROVE  tempStore # NoMap /\ heap[tempStore] = result
    BY DEF SwapsWholeResults
  <2>1. unread = {} /\ result # NoTable /\ result \in Tables
    BY DEF IInv, UpdaterInv, TypeOK
  <2>2. tempStore # NoMap
    <3> SUFFICES ASSUME tempStore = NoMap PROVE FALSE
      OBVIOUS
    <3>1. {k \in Keys : result[k] # NoData} = {}
      BY <2>1 DEF IInv, NoRowLost
    <3>2. \A k \in Keys : result[k] = NoData
      BY <3>1
    <3>3. result = [k \in Keys |-> NoData]
      BY <2>1, <3>2 DEF Tables
    <3> QED BY <3>3 DEF Empty
  <2>3. heap[tempStore] = [k \in Keys |-> result[k]]
    BY <2>1, <2>2 DEF IInv, BufferIsOneResult
  <2> QED BY <2>1, <2>2, <2>3 DEF Tables
<1> QED BY Invariance, <1>1, PTL

(* The positions of an attempt in their order.                               *)
StageOf == [l \in {"query", "rows", "info", "swap", "lock"} |->
              CASE l = "query" -> 1 [] l = "rows" -> 2 [] l = "info" -> 3
                [] l = "swap" -> 4 [] l = "lock" -> 5]

UpdateOnlyAdvances ==
  pc \in {"query", "rows", "info", "swap", "lock"} =>
    \/ UNCHANGED <<pc, attempt, unread>>
    \/ pc' \in {"select", "failed"}
    \/ pc' = "query" /\ attempt' = attempt + 1 /\ attempt' < Attempts
    \/ /\ attempt' = attempt
       /\ pc' \in DOMAIN StageOf
       /\ \/ StageOf[pc'] > StageOf[pc]
          \/ pc' = pc /\ unread' \subseteq unread /\ unread' # unread

(* Whatever fails, an update only goes on, row by row and to attempts of     *)
(* which there are fewer each time, until it swaps or gives up; lookups, the *)
(* source, Stop and the collector leave it where it is (cache.go:254-395).   *)
THEOREM UpdatesOnlyAdvance == Spec => [][UpdateOnlyAdvances]_vars
<1>1. IInv /\ [Next]_vars => [UpdateOnlyAdvances]_vars
  <2> SUFFICES ASSUME IInv, Next, pc \in {"query", "rows", "info", "swap", "lock"},
                      ~UNCHANGED <<pc, attempt, unread>>,
                      pc' \notin {"select", "failed"}
               PROVE  \/ pc' = "query" /\ attempt' = attempt + 1 /\ attempt' < Attempts
                      \/ /\ attempt' = attempt
                         /\ pc' \in DOMAIN StageOf
                         /\ \/ StageOf[pc'] > StageOf[pc]
                            \/ pc' = pc /\ unread' \subseteq unread /\ unread' # unread
    BY DEF UpdateOnlyAdvances
  <2>s. /\ DOMAIN StageOf = {"query", "rows", "info", "swap", "lock"}
        /\ StageOf["query"] = 1 /\ StageOf["rows"] = 2 /\ StageOf["info"] = 3
        /\ StageOf["swap"] = 4 /\ StageOf["lock"] = 5
    BY DEF StageOf
  <2>1. CASE Fail
    BY <2>1 DEF Fail, AfterFailure
  <2>2. CASE QueryAdx
    BY <2>2, <2>s DEF QueryAdx
  <2>3. ASSUME NEW k \in Keys, ProcessRow(k)
        PROVE  attempt' = attempt /\ pc' = pc /\ unread' \subseteq unread /\ unread' # unread
    BY <2>3 DEF ProcessRow
  <2>4. CASE EndOfRows \/ LogQueryCompletionInfo \/ LockStore
    BY <2>4, <2>s DEF EndOfRows, LogQueryCompletionInfo, LockStore, updateVars
  <2>5. CASE SwapTemporaryStore
    BY <2>5 DEF SwapTemporaryStore
  <2>6. ~TickerFires /\ ~StopReceived
    BY DEF TickerFires, StopReceived
  <2>7. CASE \/ SourceChanges \/ Stop
             \/ \E r \in Readers : Get(r) \/ GetReturns(r)
             \/ \E m \in Maps : PoolDrops(m)
    BY <2>7 DEF SourceChanges, Stop, Get, GetReturns, PoolDrops, updateVars
  <2>8. CASE Update
    <3>1. CASE \E k \in Keys : ProcessRow(k)
      BY <2>s, <2>3, <3>1
    <3> QED
      BY <2>1, <2>2, <2>4, <2>5, <2>8, <3>1 DEF Update, QueryAdxFails, ProcessRowFails,
         LogQueryCompletionInfoFails, SwapTemporaryStoreFails
  <2> QED BY <2>6, <2>7, <2>8 DEF Next
<1> QED BY Invariance, <1>1, PTL DEF Spec
=============================================================================
