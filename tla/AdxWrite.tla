------------------------------- MODULE AdxWrite -------------------------------
(***************************************************************************)
(* What a Write to Azure Data Explorer promises its caller                 *)
(* (logger/adxIngest/adx.go, AzureDataExplorer.Write): the data is         *)
(* accepted at least once if it returns no error, and at most once per     *)
(* attempt in any case; an error says nothing about what was accepted.     *)
(* Accepted means ingested with managed ingestion, and in the queue with   *)
(* queued ingestion, where FromReader does not wait for more.              *)
(***************************************************************************)
EXTENDS Integers

CONSTANTS
  Writers,   \* goroutines, each with at most one Write at a time
  Attempts   \* RetryOptions.Attempts

VARIABLES
  busy,    \* a Write is in progress
  copies,  \* how often the data of the last Write has been accepted
  ok       \* the last Write has returned without an error

writeVars == <<busy, copies, ok>>

WriteTypeOK ==
  /\ busy \in [Writers -> BOOLEAN]
  /\ copies \in [Writers -> 0 .. Attempts]
  /\ ok \in [Writers -> BOOLEAN]

WriteInit ==
  /\ busy = [w \in Writers |-> FALSE]
  /\ copies = [w \in Writers |-> 0]
  /\ ok = [w \in Writers |-> FALSE]

Begin(w) ==
  /\ ~busy[w]
  /\ busy' = [busy EXCEPT ![w] = TRUE]
  /\ copies' = [copies EXCEPT ![w] = 0]
  /\ ok' = [ok EXCEPT ![w] = FALSE]

Accepted(w) ==
  /\ busy[w]
  /\ copies[w] < Attempts
  /\ copies' = [copies EXCEPT ![w] = @ + 1]
  /\ UNCHANGED <<busy, ok>>

Succeeds(w) ==
  /\ busy[w]
  /\ copies[w] > 0
  /\ busy' = [busy EXCEPT ![w] = FALSE]
  /\ ok' = [ok EXCEPT ![w] = TRUE]
  /\ UNCHANGED copies

GivesUp(w) ==
  /\ busy[w]
  /\ busy' = [busy EXCEPT ![w] = FALSE]
  /\ UNCHANGED <<copies, ok>>

WriteNext == \E w \in Writers : Begin(w) \/ Accepted(w) \/ Succeeds(w) \/ GivesUp(w)

WriteSpec == WriteInit /\ [][WriteNext]_writeVars
=============================================================================
