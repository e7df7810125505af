------------------------- MODULE MCHealthCheckpoint -------------------------
(* HealthCheckpoint for TLC: primaries are interchangeable, and so are     *)
(* backups; no property of the runs tells them apart.                      *)
EXTENDS HealthCheckpoint, TLC

Interchangeable == Permutations(Primaries) \cup Permutations(Backups)
=============================================================================
