----------------------------- MODULE AtomicCache -----------------------------
(***************************************************************************)
(* What the VM cache promises the translator (tasks/cache/cache.go): a     *)
(* lookup sees one complete, non-empty result of a query against the       *)
(* source, and a refresh that fails changes nothing.                       *)
(***************************************************************************)
CONSTANTS
  Keys,     \* VM unique ids
  Data,     \* what is stored for a VM
  NoData,   \* the zero cache.Data a lookup returns for an unknown VM
  NoTable   \* no query result at hand

Tables == [Keys -> Data \cup {NoData}]
Empty == [k \in Keys |-> NoData]

VARIABLES
  source,   \* the table as the database has it
  taken,    \* the result of the query in progress
  view      \* what lookups see

cacheVars == <<source, taken, view>>

AtomicTypeOK ==
  /\ source \in Tables
  /\ taken \in Tables \cup {NoTable}
  /\ view \in Tables

AtomicInit ==
  /\ source \in Tables
  /\ taken = NoTable
  /\ view = Empty

SourceChanges ==
  /\ source' \in Tables
  /\ UNCHANGED <<taken, view>>

Query ==
  /\ taken = NoTable
  /\ taken' = source
  /\ UNCHANGED <<source, view>>

Refresh ==
  /\ taken \notin {NoTable, Empty}
  /\ view' = taken
  /\ taken' = NoTable
  /\ UNCHANGED source

GiveUp ==
  /\ taken' = NoTable
  /\ UNCHANGED <<source, view>>

AtomicNext == SourceChanges \/ Query \/ Refresh \/ GiveUp

AtomicSpec == AtomicInit /\ [][AtomicNext]_cacheVars
=============================================================================
