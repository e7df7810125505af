----------------------------- MODULE MCTranslate -----------------------------
(* Translate with a few kinds of events and batches.                       *)
EXTENDS Translate, TLC

CONSTANTS k1, k2

MCKeys == {k1, k2}

Event(isExpired, itsIds) == [expired |-> isExpired, ids |-> itsIds]

None == Event(FALSE, <<>>)
One == Event(FALSE, <<k1>>)
Both == Event(FALSE, <<k2, k1>>)
Late == Event(TRUE, <<k1>>)

(* An event that may fail before one that cannot, and both before another *)
(* message; a batch with nothing to pass on.                                *)
MCBatches == {<<<<Both, None>>, <<None>>>>, <<Garbage, <<Late>>>>}

(* The same events with a single id.                                       *)
MCShortBatches == {<<<<One, None>>, <<None>>>>, <<Garbage, <<Late>>>>}

(* Partitions differ in nothing but their names.                           *)
MCSymmetry == Permutations(Partitions)
=============================================================================
