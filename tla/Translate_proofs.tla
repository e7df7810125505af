--------------------------- MODULE Translate_proofs ---------------------------
(***************************************************************************)
(* Proofs about Translate, for any partitions, keys, batches and data, with *)
(* or without the transaction log.  The invariant is about one partition    *)
(* at a time and written over the values of its variables, so that what     *)
(* one partition does plainly leaves it alone for the others.               *)
(***************************************************************************)
EXTENDS Translate, TLAPS

Mid == {"event", "lookup", "log"}

(* Where a call of Next is.                                                 *)
Place(l, b, m, e, i, o) ==
  /\ l = "idle" => m = 0 /\ o = <<>>
  /\ l \in Mid => m \in 1 .. Len(b) /\ b[m] # Garbage /\ e \in 0 .. Len(b[m])
  /\ l \in {"lookup", "log"} => e \in Unexpired(b[m])
  /\ l = "lookup" => IdsIn(i) \subseteq IdsIn(b[m][e].ids)

(* An event may be passed on.                                               *)
Fit(b, m, f, ev) == f \in Unexpired(b[m]) /\ IdsIn(b[m][f].ids) \subseteq ev

(* The message has an event with an id some view did not hold.              *)
HasUnknown(b, m, kn) == \E f \in Unexpired(b[m]) : ~(IdsIn(b[m][f].ids) \subseteq kn)

(* The message in hand.                                                     *)
ArrayOK(l, b, m, e, i, x, a, kn, ev, lg) ==
  l \in Mid =>
    /\ \A j \in 1 .. Len(a) :
         /\ Fit(b, m, a[j], ev)
         /\ a[j] <= e
         /\ l = "lookup" => a[j] < e
         /\ Logging => <<m, a[j]>> \in lg \/ (l = "log" /\ a[j] = e)
    /\ Uncut(b[m], a)
    /\ ~x => \A f \in Unexpired(b[m]) :
               f < e \/ (f = e /\ l # "lookup") => \E h \in 1 .. Len(a) : a[h] = f
    /\ x => HasUnknown(b, m, kn)
    /\ l = "lookup" /\ ~x => IdsIn(b[m][e].ids) \subseteq ev \cup IdsIn(i)

(* The messages before it.                                                  *)
OutputOK(l, b, m, o, ev, lg) ==
  \A k \in 1 .. Len(o) :
    /\ o[k][1] \in 1 .. m
    /\ l \in Mid => o[k][1] < m
    /\ \A j \in 1 .. Len(o[k][2]) :
         Fit(b, o[k][1], o[k][2][j], ev) /\ (Logging => <<o[k][1], o[k][2][j]>> \in lg)
    /\ Uncut(b[o[k][1]], o[k][2])
    /\ \A h \in 1 .. k - 1 : o[h][1] < o[k][1]

Complete(b, n, o) ==
  \A f \in Unexpired(b[n]) :
    \E k \in 1 .. Len(o) : o[k][1] = n /\ \E j \in 1 .. Len(o[k][2]) : o[k][2][j] = f

DoneOK(l, b, m, o, kn) ==
  \A n \in 1 .. m :
    b[n] # Garbage /\ (n < m \/ l \notin Mid) => HasUnknown(b, n, kn) \/ Complete(b, n, o)

PlaceInv(p) == Place(pc[p], batch[p], msg[p], event[p], ids[p], output[p])
ArrayInv(p) == ArrayOK(pc[p], batch[p], msg[p], event[p], ids[p], errs[p], array[p], known[p], ever[p], logged[p])
OutputInv(p) == OutputOK(pc[p], batch[p], msg[p], output[p], ever[p], logged[p])
DoneInv(p) == DoneOK(pc[p], batch[p], msg[p], output[p], known[p])

(* The histories bracket the view.                                          *)
ViewInv(p) == pc[p] # "idle" => known[p] \subseteq KnownIn(view) /\ KnownIn(view) \subseteq ever[p]

PInv(p) == PlaceInv(p) /\ ArrayInv(p) /\ OutputInv(p) /\ DoneInv(p) /\ ViewInv(p)

Inv == TypeOK /\ \A p \in Partitions : PInv(p)

-----------------------------------------------------------------------------
(* Types.                                                                  *)

LEMMA BatchType ==
  ASSUME TypeOK, NEW p \in Partitions
  PROVE  /\ batch[p] \in Seq(Messages \cup {Garbage})
         /\ msg[p] \in 0 .. Len(batch[p])
         /\ \A m \in 1 .. Len(batch[p]) : batch[p][m] # Garbage => batch[p][m] \in Seq(Events)
<1>0. batch[p] \in Batches \cup {<<>>}
  BY DEF TypeOK
<1>1. batch[p] \in Seq(Messages \cup {Garbage})
  <2> DEFINE S == Messages \cup {Garbage}
  <2>1. <<>> \in Seq(S)
    OBVIOUS
  <2> QED BY <1>0, <2>1, BatchesOK
<1>2. \A m \in 1 .. Len(batch[p]) : batch[p][m] \in Messages \cup {Garbage}
  BY <1>1
<1> QED BY <1>1, <1>2 DEF TypeOK, Messages

LEMMA EventType ==
  ASSUME NEW s \in Seq(Events), NEW n \in 1 .. Len(s)
  PROVE  s[n].ids \in Seq(Keys) /\ s[n].expired \in BOOLEAN
<1>1. s[n] \in Events
  OBVIOUS
<1> QED BY <1>1 DEF Events

(* The part of TypeOK about one partition.                                  *)
PType(p) ==
  /\ pc[p] \in {"idle", "message", "event", "lookup", "log", "pipe"}
  /\ batch[p] \in Batches \cup {<<>>}
  /\ msg[p] \in 0 .. Len(batch[p])
  /\ event[p] \in Nat
  /\ ids[p] \in Seq(Keys)
  /\ errs[p] \in BOOLEAN
  /\ array[p] \in Seq(Nat)
  /\ output[p] \in Seq(Nat \X Seq(Nat))
  /\ known[p] \subseteq Keys
  /\ ever[p] \subseteq Keys
  /\ logged[p] \subseteq Nat \X Nat

LEMMA TypeOfPartition == ASSUME TypeOK, NEW p \in Partitions PROVE PType(p)
BY DEF TypeOK, PType

LEMMA InvInit == Init => Inv
<1> SUFFICES ASSUME Init PROVE Inv
  OBVIOUS
<1>1. view \in Tables
  BY DEF Init, Tables, Empty
<1>2. TypeOK
  <2>1. errs \in [Partitions -> BOOLEAN]
    BY DEF Init
  <2>2. /\ msg \in [Partitions -> Nat]
        /\ \A p \in Partitions : msg[p] <= Len(batch[p])
    <3>1. msg \in [Partitions -> Nat] /\ \A p \in Partitions : msg[p] = 0
      BY DEF Init
    <3>2. ASSUME NEW p \in Partitions PROVE Len(batch[p]) = 0
      BY DEF Init
    <3> QED BY <3>1, <3>2
  <2>3. /\ pc \in [Partitions -> {"idle", "message", "event", "lookup", "log", "pipe"}]
        /\ batch \in [Partitions -> Batches \cup {<<>>}]
        /\ event \in [Partitions -> Nat]
        /\ logger \in {"off", "select", "write", "ended"}
        /\ stop \in {"none", "sending", "returned"}
        /\ monitor \in {"runs", "ended"}
        /\ known \in [Partitions -> SUBSET Keys]
        /\ ever \in [Partitions -> SUBSET Keys]
        /\ logged \in [Partitions -> SUBSET (Nat \X Nat)]
    BY DEF Init
  <2>4. /\ ids \in [Partitions -> Seq(Keys)]
        /\ array \in [Partitions -> Seq(Nat)]
        /\ output \in [Partitions -> Seq(Nat \X Seq(Nat))]
    BY DEF Init
  <2> QED BY <1>1, <2>1, <2>2, <2>3, <2>4 DEF TypeOK
<1>3. ASSUME NEW p \in Partitions PROVE PInv(p)
  <2>1. pc[p] = "idle" /\ msg[p] = 0 /\ output[p] = <<>> /\ Len(output[p]) = 0
    BY DEF Init
  <2>2. pc[p] \notin Mid /\ pc[p] \notin {"lookup", "log"}
    BY <2>1 DEF Mid
  <2> QED
    BY <2>1, <2>2 DEF PInv, PlaceInv, ArrayInv, OutputInv, DoneInv, ViewInv,
       Place, ArrayOK, OutputOK, DoneOK
<1> QED BY <1>2, <1>3 DEF Inv

-----------------------------------------------------------------------------
(* What a step leaves alone.                                                *)

Same(q) ==
  /\ pc'[q] = pc[q] /\ batch'[q] = batch[q] /\ msg'[q] = msg[q] /\ event'[q] = event[q]
  /\ ids'[q] = ids[q] /\ errs'[q] = errs[q] /\ array'[q] = array[q] /\ output'[q] = output[q]
  /\ known'[q] = known[q] /\ ever'[q] = ever[q] /\ logged'[q] = logged[q]

LEMMA Frame ==
  ASSUME NEW q \in Partitions, PInv(q), Same(q), view' = view
  PROVE  PInv(q)'
BY DEF Same, PInv, PlaceInv, ArrayInv, OutputInv, DoneInv, ViewInv

LEMMA Others ==
  ASSUME TypeOK, NEW p \in Partitions, NEW q \in Partitions \ {p},
         CallNext(p) \/ Work(p) \/ SendToLogger(p)
  PROVE  Same(q) /\ view' = view
<1>0. /\ pc \in [Partitions -> {"idle", "message", "event", "lookup", "log", "pipe"}]
      /\ batch \in [Partitions -> Batches \cup {<<>>}]
      /\ msg \in [Partitions -> Nat]
      /\ event \in [Partitions -> Nat]
      /\ errs \in [Partitions -> BOOLEAN]
      /\ ids \in [Partitions -> Seq(Keys)]
      /\ array \in [Partitions -> Seq(Nat)]
      /\ output \in [Partitions -> Seq(Nat \X Seq(Nat))]
      /\ known \in [Partitions -> SUBSET Keys]
      /\ ever \in [Partitions -> SUBSET Keys]
      /\ logged \in [Partitions -> SUBSET (Nat \X Nat)]
  BY DEF TypeOK
<1>1. CASE CallNext(p)
  BY <1>1 DEF CallNext, Goto, Same
<1>2. ASSUME Return(p) PROVE Same(q) /\ view' = view
  BY <1>2 DEF Return, Goto, Same
<1>3. CASE ParseMessage(p)
  <2>1. CASE batch[p][msg[p] + 1] = Garbage
    BY <1>3, <2>1 DEF ParseMessage, Same, seen
  <2>2. CASE batch[p][msg[p] + 1] # Garbage
    <3>1. /\ msg' = [msg EXCEPT ![p] = @ + 1]
          /\ event' = [event EXCEPT ![p] = 0]
          /\ errs' = [errs EXCEPT ![p] = FALSE]
          /\ array' = [array EXCEPT ![p] = <<>>]
          /\ pc' = [pc EXCEPT ![p] = "event"]
          /\ UNCHANGED <<view, batch, ids, output, logger, stop, monitor, seen, logged>>
      BY <1>3, <2>2, Zenon DEF ParseMessage, Goto
    <3> QED BY <3>1 DEF Same, seen
  <2> QED BY <2>1, <2>2
<1>4. CASE EndOfBatch(p)
  <2>1. CASE output[p] = <<>>
    BY <1>4, <2>1, <1>2 DEF EndOfBatch
  <2>2. CASE output[p] # <<>>
    <3>1. /\ pc' = [pc EXCEPT ![p] = "pipe"]
          /\ UNCHANGED <<view, inHand, logger, stop, monitor, seen, logged>>
      BY <1>4, <2>2, Zenon DEF EndOfBatch, Goto
    <3> QED BY <3>1 DEF Same, seen, inHand
  <2> QED BY <2>1, <2>2
<1>5. CASE PipeReturns(p)
  BY <1>5, <1>2 DEF PipeReturns
<1>6. CASE TakeEvent(p)
  <2>1. CASE InMessage(p)[event[p] + 1].expired
    BY <1>6, <2>1 DEF TakeEvent, Same, seen
  <2>2. CASE ~InMessage(p)[event[p] + 1].expired
    <3>1. /\ event' = [event EXCEPT ![p] = @ + 1]
          /\ ids' = [ids EXCEPT ![p] = InMessage(p)[event[p] + 1].ids]
          /\ pc' = [pc EXCEPT ![p] = "lookup"]
          /\ UNCHANGED <<view, batch, msg, errs, array, output, logger, stop, monitor, seen, logged>>
      BY <1>6, <2>2, Zenon DEF TakeEvent, Goto
    <3> QED BY <3>1 DEF Same, seen
  <2> QED BY <2>1, <2>2
<1>7. CASE EndOfMessage(p)
  BY <1>7 DEF EndOfMessage, Goto, Same, seen
<1>8. CASE MatchAndTranslateIDMapping(p)
  BY <1>8 DEF MatchAndTranslateIDMapping, Goto, Same, seen
<1>9. CASE Untranslated(p)
  BY <1>9 DEF Untranslated, Goto, Same, seen, inHand
<1>10. CASE Translated(p)
  BY <1>10 DEF Translated, Goto, Same, seen
<1>11. CASE SendToLogger(p)
  BY <1>11 DEF SendToLogger, Goto, Same, seen, inHand
<1> QED
  BY <1>1, <1>3, <1>4, <1>5, <1>6, <1>7, <1>8, <1>9, <1>10, <1>11 DEF Work

-----------------------------------------------------------------------------
(* What a step of a partition does to its own part of the invariant.  The   *)
(* lemmas speak of values; each belongs to the action of its name.          *)

LEMMA ParseGarbage ==
  ASSUME NEW b, NEW m \in Nat, NEW e, NEW i, NEW x, NEW a, NEW o, NEW kn, NEW ev, NEW lg,
         b[m + 1] = Garbage,
         OutputOK("message", b, m, o, ev, lg), DoneOK("message", b, m, o, kn)
  PROVE  /\ OutputOK("message", b, m + 1, o, ev, lg)
         /\ DoneOK("message", b, m + 1, o, kn)
<1>1. OutputOK("message", b, m + 1, o, ev, lg)
  BY DEF OutputOK, Mid
<1>2. DoneOK("message", b, m + 1, o, kn)
  BY DEF DoneOK, Mid
<1> QED BY <1>1, <1>2

LEMMA ParseArray ==
  ASSUME NEW b, NEW m \in Nat, NEW i, NEW o, NEW kn, NEW ev, NEW lg,
         b[m + 1] # Garbage, m + 1 <= Len(b), Len(b) \in Nat, Len(b[m + 1]) \in Nat,
         OutputOK("message", b, m, o, ev, lg), DoneOK("message", b, m, o, kn)
  PROVE  /\ Place("event", b, m + 1, 0, i, o)
         /\ ArrayOK("event", b, m + 1, 0, i, FALSE, <<>>, kn, ev, lg)
         /\ OutputOK("event", b, m + 1, o, ev, lg)
         /\ DoneOK("event", b, m + 1, o, kn)
<1>1. Place("event", b, m + 1, 0, i, o)
  BY DEF Place, Mid
<1>2. ArrayOK("event", b, m + 1, 0, i, FALSE, <<>>, kn, ev, lg)
  <2>1. Len(<<>>) = 0
    OBVIOUS
  <2>2. \A f \in Unexpired(b[m + 1]) : f \in 1 .. Len(b[m + 1])
    BY DEF Unexpired
  <2> QED BY <2>1, <2>2 DEF ArrayOK, Uncut, Mid
<1>3. OutputOK("event", b, m + 1, o, ev, lg)
  BY DEF OutputOK, Mid
<1>4. DoneOK("event", b, m + 1, o, kn)
  BY DEF DoneOK, Mid
<1> QED BY <1>1, <1>2, <1>3, <1>4

(* The message in hand stays the same.                                      *)
LEMMA SameMessage ==
  ASSUME NEW l \in Mid, NEW l2 \in Mid, NEW b, NEW m, NEW o, NEW ev, NEW lg, NEW lg2, NEW kn,
         lg \subseteq lg2,
         OutputOK(l, b, m, o, ev, lg), DoneOK(l, b, m, o, kn)
  PROVE  OutputOK(l2, b, m, o, ev, lg2) /\ DoneOK(l2, b, m, o, kn)
<1>1. OutputOK(l2, b, m, o, ev, lg2)
  BY DEF OutputOK
<1>2. DoneOK(l2, b, m, o, kn)
  BY DEF DoneOK
<1> QED BY <1>1, <1>2

LEMMA TakeExpired ==
  ASSUME NEW b, NEW m, NEW e \in Nat, NEW i, NEW x, NEW a, NEW o, NEW kn, NEW ev, NEW lg,
         Len(b[m]) \in Nat, e < Len(b[m]), b[m][e + 1].expired,
         \A j \in 1 .. Len(a) : a[j] \in Nat,
         Place("event", b, m, e, i, o), ArrayOK("event", b, m, e, i, x, a, kn, ev, lg)
  PROVE  /\ Place("event", b, m, e + 1, i, o)
         /\ ArrayOK("event", b, m, e + 1, i, x, a, kn, ev, lg)
<1>1. \A f \in Unexpired(b[m]) : f \in Nat /\ f # e + 1
  BY DEF Unexpired
<1>2. Place("event", b, m, e + 1, i, o)
  BY DEF Place, Mid
<1>3. \A f \in Unexpired(b[m]) : f < e + 1 \/ f = e + 1 => f < e \/ f = e
  BY <1>1
<1>4. ArrayOK("event", b, m, e + 1, i, x, a, kn, ev, lg)
  BY <1>1, <1>3 DEF ArrayOK, Mid
<1> QED BY <1>2, <1>4

LEMMA TakeUnexpired ==
  ASSUME NEW b, NEW m, NEW e \in Nat, NEW i, NEW x, NEW a, NEW o, NEW kn, NEW ev, NEW lg,
         Len(b[m]) \in Nat, e < Len(b[m]), ~b[m][e + 1].expired,
         \A j \in 1 .. Len(a) : a[j] \in Nat,
         Place("event", b, m, e, i, o), ArrayOK("event", b, m, e, i, x, a, kn, ev, lg)
  PROVE  /\ Place("lookup", b, m, e + 1, b[m][e + 1].ids, o)
         /\ ArrayOK("lookup", b, m, e + 1, b[m][e + 1].ids, x, a, kn, ev, lg)
<1>1. \A f \in Unexpired(b[m]) : f \in Nat
  BY DEF Unexpired
<1>2. e + 1 \in Unexpired(b[m])
  BY DEF Unexpired
<1>3. Place("lookup", b, m, e + 1, b[m][e + 1].ids, o)
  BY <1>2 DEF Place, Mid
<1>4. \A f \in Unexpired(b[m]) : f < e + 1 => f < e \/ f = e
  BY <1>1
<1>5. ArrayOK("lookup", b, m, e + 1, b[m][e + 1].ids, x, a, kn, ev, lg)
  BY <1>1, <1>4 DEF ArrayOK, Mid
<1> QED BY <1>3, <1>5

LEMMA FinishEmpty ==
  ASSUME NEW b, NEW m \in Nat, NEW i, NEW x \in BOOLEAN, NEW o, NEW kn, NEW ev, NEW lg,
         Len(b[m]) \in Nat,
         ArrayOK("event", b, m, Len(b[m]), i, x, <<>>, kn, ev, lg),
         OutputOK("event", b, m, o, ev, lg), DoneOK("event", b, m, o, kn)
  PROVE  OutputOK("message", b, m, o, ev, lg) /\ DoneOK("message", b, m, o, kn)
<1>1. OutputOK("message", b, m, o, ev, lg)
  BY DEF OutputOK, Mid
<1>2. HasUnknown(b, m, kn) \/ Unexpired(b[m]) = {}
  <2>1. \A f \in Unexpired(b[m]) : f \in 1 .. Len(b[m])
    BY DEF Unexpired
  <2>2. Len(<<>>) = 0
    OBVIOUS
  <2> QED BY <2>1, <2>2 DEF ArrayOK, Mid
<1>3. DoneOK("message", b, m, o, kn)
  BY <1>2 DEF DoneOK, Complete, Mid
<1> QED BY <1>1, <1>3

LEMMA FinishMessage ==
  ASSUME NEW b, NEW m \in Nat, NEW i, NEW x \in BOOLEAN, NEW a \in Seq(Nat),
         NEW o \in Seq(Nat \X Seq(Nat)), NEW kn, NEW ev, NEW lg,
         Len(b[m]) \in Nat, m \in 1 .. Len(b),
         ArrayOK("event", b, m, Len(b[m]), i, x, a, kn, ev, lg),
         OutputOK("event", b, m, o, ev, lg), DoneOK("event", b, m, o, kn)
  PROVE  /\ OutputOK("message", b, m, Append(o, <<m, a>>), ev, lg)
         /\ DoneOK("message", b, m, Append(o, <<m, a>>), kn)
<1> DEFINE o2 == Append(o, <<m, a>>)
<1>1. /\ o2 \in Seq(Nat \X Seq(Nat))
      /\ Len(o2) = Len(o) + 1 /\ Len(o) \in Nat
      /\ \A k \in 1 .. Len(o) : o2[k] = o[k]
      /\ o2[Len(o) + 1] = <<m, a>>
  OBVIOUS
<1>2. o2[Len(o) + 1][1] = m /\ o2[Len(o) + 1][2] = a
  BY <1>1
<1> HIDE DEF o2
<1>3. OutputOK("message", b, m, o2, ev, lg)
  <2> SUFFICES ASSUME NEW k \in 1 .. Len(o2)
      PROVE  /\ o2[k][1] \in 1 .. m
             /\ \A j \in 1 .. Len(o2[k][2]) :
                  Fit(b, o2[k][1], o2[k][2][j], ev) /\ (Logging => <<o2[k][1], o2[k][2][j]>> \in lg)
             /\ Uncut(b[o2[k][1]], o2[k][2])
             /\ \A h \in 1 .. k - 1 : o2[h][1] < o2[k][1]
    BY DEF OutputOK, Mid
  <2>1. CASE k \in 1 .. Len(o)
    <3>1. \A h \in 1 .. k - 1 : h \in 1 .. Len(o)
      BY <2>1, <1>1
    <3> QED BY <1>1, <2>1, <3>1 DEF OutputOK
  <2>2. CASE k = Len(o) + 1
    <3>1. \A h \in 1 .. k - 1 : h \in 1 .. Len(o)
      BY <2>2, <1>1
    <3>2. \A h \in 1 .. k - 1 : o2[h][1] < m
      BY <1>1, <3>1 DEF OutputOK, Mid
    <3>3. /\ \A j \in 1 .. Len(a) : Fit(b, m, a[j], ev) /\ (Logging => <<m, a[j]>> \in lg)
          /\ Uncut(b[m], a)
      BY DEF ArrayOK, Mid
    <3>4. o2[k][1] = m /\ o2[k][2] = a
      BY <1>2, <2>2, Zenon
    <3>5. o2[k][1] \in 1 .. m
      BY <3>4
    <3>6. \A h \in 1 .. k - 1 : o2[h][1] < o2[k][1]
      BY <3>2, <3>4, Zenon
    <3>7. /\ \A j \in 1 .. Len(o2[k][2]) :
               Fit(b, o2[k][1], o2[k][2][j], ev) /\ (Logging => <<o2[k][1], o2[k][2][j]>> \in lg)
          /\ Uncut(b[o2[k][1]], o2[k][2])
      BY <3>3, <3>4, Zenon
    <3> QED BY <3>5, <3>6, <3>7, Zenon
  <2>3. k \in 1 .. Len(o) \/ k = Len(o) + 1
    BY <1>1
  <2> QED BY <2>1, <2>2, <2>3, Zenon
<1>4. HasUnknown(b, m, kn) \/ Complete(b, m, o2)
  <2>1. \A f \in Unexpired(b[m]) : f \in 1 .. Len(b[m])
    BY DEF Unexpired
  <2>2. HasUnknown(b, m, kn) \/ \A f \in Unexpired(b[m]) : \E h \in 1 .. Len(a) : a[h] = f
    BY <2>1 DEF ArrayOK, Mid
  <2>3. Len(o) + 1 \in 1 .. Len(o2)
    BY <1>1
  <2> QED BY <1>2, <2>2, <2>3 DEF Complete
<1>5. \A n : Complete(b, n, o) => Complete(b, n, o2)
  <2>1. ASSUME NEW k \in 1 .. Len(o) PROVE k \in 1 .. Len(o2) /\ o2[k] = o[k]
    BY <1>1
  <2>2. ASSUME NEW n, Complete(b, n, o), NEW f \in Unexpired(b[n])
        PROVE  \E k \in 1 .. Len(o2) : o2[k][1] = n /\ \E j \in 1 .. Len(o2[k][2]) : o2[k][2][j] = f
    <3>1. PICK k \in 1 .. Len(o) : o[k][1] = n /\ \E j \in 1 .. Len(o[k][2]) : o[k][2][j] = f
      BY <2>2, Zenon DEF Complete
    <3>2. k \in 1 .. Len(o2) /\ o2[k] = o[k]
      BY <2>1
    <3>3. o2[k][1] = n /\ \E j \in 1 .. Len(o2[k][2]) : o2[k][2][j] = f
      BY <3>1, <3>2, Zenon
    <3> QED BY <3>2, <3>3, Zenon
  <2> QED BY <2>2, Zenon DEF Complete
<1>6. DoneOK("message", b, m, o2, kn)
  BY <1>4, <1>5 DEF DoneOK, Mid
<1> QED BY <1>3, <1>6 DEF o2

LEMMA HeadTail ==
  ASSUME NEW i \in Seq(Keys), i # <<>>
  PROVE  Head(i) \in Keys /\ Tail(i) \in Seq(Keys) /\ IdsIn(i) = {Head(i)} \cup IdsIn(Tail(i))
<1>1. Len(i) \in Nat \ {0} /\ Head(i) = i[1] /\ Head(i) \in Keys /\ Tail(i) \in Seq(Keys)
  OBVIOUS
<1>2. Len(Tail(i)) = Len(i) - 1 /\ \A n \in 1 .. Len(i) - 1 : Tail(i)[n] = i[n + 1]
  OBVIOUS
<1>3. IdsIn(i) \subseteq {Head(i)} \cup IdsIn(Tail(i))
  <2> SUFFICES ASSUME NEW n \in 1 .. Len(i) PROVE i[n] = Head(i) \/ i[n] \in IdsIn(Tail(i))
    BY DEF IdsIn
  <2>1. CASE n = 1
    BY <1>1, <2>1
  <2>2. CASE n # 1
    <3>1. n - 1 \in 1 .. Len(Tail(i)) /\ Tail(i)[n - 1] = i[n]
      BY <1>1, <1>2, <2>2
    <3> QED BY <3>1 DEF IdsIn
  <2> QED BY <2>1, <2>2
<1>4. {Head(i)} \cup IdsIn(Tail(i)) \subseteq IdsIn(i)
  <2>1. Head(i) \in IdsIn(i)
    BY <1>1 DEF IdsIn
  <2>2. ASSUME NEW n \in 1 .. Len(Tail(i)) PROVE Tail(i)[n] \in IdsIn(i)
    <3>1. n + 1 \in 1 .. Len(i) /\ Tail(i)[n] = i[n + 1]
      BY <1>1, <1>2
    <3> QED BY <3>1 DEF IdsIn
  <2> QED BY <2>1, <2>2 DEF IdsIn
<1> QED BY <1>1, <1>3, <1>4

LEMMA LookUp ==
  ASSUME NEW b, NEW m, NEW e, NEW i \in Seq(Keys), NEW x \in BOOLEAN, NEW a, NEW o, NEW kn, NEW ev, NEW lg,
         NEW table, i # <<>>,
         kn \subseteq KnownIn(table), KnownIn(table) \subseteq ev,
         Place("lookup", b, m, e, i, o), ArrayOK("lookup", b, m, e, i, x, a, kn, ev, lg)
  PROVE  /\ Place("lookup", b, m, e, Tail(i), o)
         /\ ArrayOK("lookup", b, m, e, Tail(i), x \/ table[Head(i)] = NoData, a, kn, ev, lg)
<1>1. Head(i) \in Keys /\ IdsIn(i) = {Head(i)} \cup IdsIn(Tail(i))
  BY HeadTail
<1>2. Place("lookup", b, m, e, Tail(i), o)
  BY <1>1 DEF Place
<1>3. CASE table[Head(i)] = NoData
  <2>1. Head(i) \notin kn
    BY <1>3 DEF KnownIn
  <2>2. Head(i) \in IdsIn(b[m][e].ids) /\ e \in Unexpired(b[m])
    BY <1>1 DEF Place
  <2>3. HasUnknown(b, m, kn)
    BY <2>1, <2>2 DEF HasUnknown
  <2>4. ArrayOK("lookup", b, m, e, Tail(i), TRUE, a, kn, ev, lg)
    BY <2>3 DEF ArrayOK, Mid
  <2>5. (x \/ table[Head(i)] = NoData) = TRUE
    BY <1>3
  <2> QED BY <1>2, <2>4, <2>5
<1>4. CASE table[Head(i)] # NoData
  <2>1. Head(i) \in ev
    BY <1>1, <1>4 DEF KnownIn
  <2>2. ~x => IdsIn(b[m][e].ids) \subseteq ev \cup IdsIn(Tail(i))
    BY <1>1, <2>1 DEF ArrayOK, Mid
  <2>3. ArrayOK("lookup", b, m, e, Tail(i), x, a, kn, ev, lg)
    BY <2>2 DEF ArrayOK, Mid
  <2>4. (x \/ table[Head(i)] = NoData) = x
    BY <1>4
  <2> QED BY <1>2, <2>3, <2>4
<1> QED BY <1>3, <1>4

LEMMA GiveUpEvent ==
  ASSUME NEW b, NEW m, NEW e \in Nat, NEW i, NEW a \in Seq(Nat), NEW o, NEW kn, NEW ev, NEW lg,
         Place("lookup", b, m, e, i, o), ArrayOK("lookup", b, m, e, i, TRUE, a, kn, ev, lg)
  PROVE  Place("event", b, m, e, i, o) /\ ArrayOK("event", b, m, e, i, TRUE, a, kn, ev, lg)
<1>1. Place("event", b, m, e, i, o)
  BY DEF Place, Mid
<1>2. ArrayOK("event", b, m, e, i, TRUE, a, kn, ev, lg)
  BY DEF ArrayOK, Mid
<1> QED BY <1>1, <1>2

LEMMA KeepEvent ==
  ASSUME NEW b, NEW m, NEW e \in Nat, NEW i, NEW a \in Seq(Nat), NEW o, NEW kn, NEW ev, NEW lg,
         i = <<>>, NEW l \in {"log", "event"}, Logging => l = "log",
         Place("lookup", b, m, e, i, o), ArrayOK("lookup", b, m, e, i, FALSE, a, kn, ev, lg)
  PROVE  /\ Place(l, b, m, e, i, o)
         /\ ArrayOK(l, b, m, e, i, FALSE, Append(a, e), kn, ev, lg)
<1>1. Place(l, b, m, e, i, o)
  BY DEF Place, Mid
<1> DEFINE a2 == Append(a, e)
<1>2. /\ Len(a2) = Len(a) + 1 /\ Len(a) \in Nat
      /\ \A j \in 1 .. Len(a) : a2[j] = a[j] /\ a[j] \in Nat
      /\ a2[Len(a) + 1] = e
  OBVIOUS
<1> HIDE DEF a2
<1>3. IdsIn(i) = {}
  BY DEF IdsIn
<1>4. Fit(b, m, e, ev)
  BY <1>3 DEF Place, ArrayOK, Fit, Mid
<1>5. \A f \in Unexpired(b[m]) : f \in Nat
  BY DEF Unexpired
<1>6. \A j \in 1 .. Len(a2) : j \in 1 .. Len(a) \/ j = Len(a) + 1
  BY <1>2
<1>7. \A j \in 1 .. Len(a2) :
        Fit(b, m, a2[j], ev) /\ a2[j] <= e /\ (Logging => <<m, a2[j]>> \in lg \/ (l = "log" /\ a2[j] = e))
  <2>1. ASSUME NEW j \in 1 .. Len(a)
        PROVE  Fit(b, m, a2[j], ev) /\ a2[j] <= e /\ (Logging => <<m, a2[j]>> \in lg)
    BY <1>2 DEF ArrayOK, Mid
  <2>2. Fit(b, m, a2[Len(a) + 1], ev) /\ a2[Len(a) + 1] <= e
    BY <1>2, <1>4
  <2> QED BY <1>2, <1>6, <2>1, <2>2
<1>8. \A f \in Unexpired(b[m]) : f < e => \E h \in 1 .. Len(a) : a[h] = f
  BY DEF ArrayOK, Mid
<1>9. Uncut(b[m], a2)
  <2> SUFFICES ASSUME NEW j \in 1 .. Len(a2), NEW f \in Unexpired(b[m]), f < a2[j]
      PROVE  \E h \in 1 .. j - 1 : a2[h] = f
    BY DEF Uncut
  <2>1. CASE j \in 1 .. Len(a)
    <3>1. PICK h \in 1 .. j - 1 : a[h] = f
      BY <1>2, <2>1 DEF ArrayOK, Uncut, Mid
    <3>2. h \in 1 .. Len(a)
      BY <1>2, <2>1
    <3> QED BY <1>2, <3>1, <3>2
  <2>2. CASE j = Len(a) + 1
    <3>1. PICK h \in 1 .. Len(a) : a[h] = f
      BY <1>2, <1>8, <2>2
    <3> QED BY <1>2, <2>2, <3>1
  <2> QED BY <1>6, <2>1, <2>2
<1>10. \A f \in Unexpired(b[m]) : f < e \/ f = e => \E h \in 1 .. Len(a2) : a2[h] = f
  <2>1. Len(a) + 1 \in 1 .. Len(a2) /\ \A h \in 1 .. Len(a) : h \in 1 .. Len(a2)
    BY <1>2
  <2> QED BY <1>2, <1>8, <2>1
<1>11. ArrayOK(l, b, m, e, i, FALSE, a2, kn, ev, lg)
  BY <1>7, <1>9, <1>10 DEF ArrayOK
<1> QED BY <1>1, <1>11 DEF a2

LEMMA Logs ==
  ASSUME NEW b, NEW m, NEW e \in Nat, NEW i, NEW x, NEW a, NEW o, NEW kn, NEW ev, NEW lg,
         Place("log", b, m, e, i, o), ArrayOK("log", b, m, e, i, x, a, kn, ev, lg)
  PROVE  /\ Place("event", b, m, e, i, o)
         /\ ArrayOK("event", b, m, e, i, x, a, kn, ev, lg \cup {<<m, e>>})
<1>1. Place("event", b, m, e, i, o)
  BY DEF Place, Mid
<1>2. ArrayOK("event", b, m, e, i, x, a, kn, ev, lg \cup {<<m, e>>})
  BY DEF ArrayOK, Mid
<1> QED BY <1>1, <1>2

(* A refresh takes ids from known and adds ids to ever.                     *)
LEMMA Refreshed ==
  ASSUME NEW l, NEW b, NEW m, NEW e, NEW i, NEW x, NEW a, NEW o, NEW kn, NEW kn2, NEW ev, NEW ev2, NEW lg,
         kn2 \subseteq kn, ev \subseteq ev2,
         ArrayOK(l, b, m, e, i, x, a, kn, ev, lg), OutputOK(l, b, m, o, ev, lg), DoneOK(l, b, m, o, kn)
  PROVE  ArrayOK(l, b, m, e, i, x, a, kn2, ev2, lg) /\ OutputOK(l, b, m, o, ev2, lg) /\ DoneOK(l, b, m, o, kn2)
<1>1. \A n : HasUnknown(b, n, kn) => HasUnknown(b, n, kn2)
  BY DEF HasUnknown
<1>2. \A n, f : Fit(b, n, f, ev) => Fit(b, n, f, ev2)
  BY DEF Fit
<1>3. ArrayOK(l, b, m, e, i, x, a, kn2, ev2, lg)
  BY <1>1, <1>2 DEF ArrayOK
<1>4. OutputOK(l, b, m, o, ev2, lg)
  BY <1>2 DEF OutputOK
<1>5. DoneOK(l, b, m, o, kn2)
  BY <1>1 DEF DoneOK
<1> QED BY <1>3, <1>4, <1>5

-----------------------------------------------------------------------------
(* The actions.                                                             *)

LEMMA Facts ==
  ASSUME Inv, NEW p \in Partitions
  PROVE  /\ TypeOK /\ PlaceInv(p) /\ ArrayInv(p) /\ OutputInv(p) /\ DoneInv(p) /\ ViewInv(p)
         /\ PType(p)
         /\ Len(batch[p]) \in Nat
         /\ \A m \in 1 .. Len(batch[p]) : batch[p][m] # Garbage =>
              Len(batch[p][m]) \in Nat /\ \A n \in 1 .. Len(batch[p][m]) : batch[p][m][n].ids \in Seq(Keys)
         /\ pc[p] \in Mid => msg[p] \in 1 .. Len(batch[p]) /\ InMessage(p) # Garbage /\ Len(InMessage(p)) \in Nat
<1>1. TypeOK /\ PInv(p) /\ PType(p)
  BY TypeOfPartition DEF Inv
<1>2. /\ Len(batch[p]) \in Nat
      /\ \A m \in 1 .. Len(batch[p]) : batch[p][m] # Garbage => batch[p][m] \in Seq(Events)
  BY <1>1, BatchType
<1>3. ASSUME NEW m \in 1 .. Len(batch[p]), batch[p][m] # Garbage
      PROVE  Len(batch[p][m]) \in Nat /\ \A n \in 1 .. Len(batch[p][m]) : batch[p][m][n].ids \in Seq(Keys)
  <2>1. batch[p][m] \in Seq(Events)
    BY <1>2, <1>3
  <2> QED BY <2>1, EventType
<1>4. PlaceInv(p) /\ ArrayInv(p) /\ OutputInv(p) /\ DoneInv(p) /\ ViewInv(p)
  BY <1>1 DEF PInv
<1>5. pc[p] \in Mid => msg[p] \in 1 .. Len(batch[p]) /\ InMessage(p) # Garbage
  BY <1>4 DEF PlaceInv, Place, InMessage
<1>6. pc[p] \in Mid => Len(InMessage(p)) \in Nat
  BY <1>3, <1>5 DEF InMessage
<1> QED BY <1>1, <1>2, <1>3, <1>4, <1>5, <1>6

(* Functions over the partitions that change for one of them.               *)
LEMMA Update ==
  ASSUME NEW S, NEW f \in [Partitions -> S], NEW p \in Partitions, NEW v \in S, NEW g,
         g = [f EXCEPT ![p] = v]
  PROVE  g \in [Partitions -> S] /\ g[p] = v
OBVIOUS

LEMMA CallNextKeeps == ASSUME Inv, NEW p \in Partitions, CallNext(p) PROVE TypeOK' /\ PInv(p)'
<1>0. /\ TypeOK /\ PlaceInv(p) /\ PType(p)
  BY Facts
<1>1. PICK msgs \in Batches : batch' = [batch EXCEPT ![p] = msgs]
  BY DEF CallNext
<1>2. /\ pc[p] = "idle" /\ pc' = [pc EXCEPT ![p] = "message"]
      /\ known' = [known EXCEPT ![p] = KnownIn(view)]
      /\ ever' = [ever EXCEPT ![p] = KnownIn(view)]
      /\ UNCHANGED <<view, msg, event, ids, errs, array, output, logger, stop, monitor, logged>>
  BY DEF CallNext, Goto
<1>3. msg[p] = 0 /\ output[p] = <<>>
  BY <1>0, <1>2 DEF PlaceInv, Place
<1>4. Len(msgs) \in Nat
  <2>1. msgs \in Seq(Messages \cup {Garbage})
    BY BatchesOK
  <2> QED BY <2>1
<1>5. /\ batch' \in [Partitions -> Batches \cup {<<>>}] /\ batch'[p] = msgs
      /\ pc' \in [Partitions -> {"idle", "message", "event", "lookup", "log", "pipe"}] /\ pc'[p] = "message"
      /\ known' \in [Partitions -> SUBSET Keys] /\ known'[p] = KnownIn(view)
      /\ ever' \in [Partitions -> SUBSET Keys] /\ ever'[p] = KnownIn(view)
  <2>1. KnownIn(view) \in SUBSET Keys
    BY DEF KnownIn
  <2> QED BY <1>0, <1>1, <1>2, <2>1, Update DEF TypeOK
<1>6. ASSUME NEW q \in Partitions PROVE msg'[q] <= Len(batch'[q])
  <2>1. CASE q = p
    BY <1>2, <1>3, <1>4, <1>5, <2>1
  <2>2. CASE q # p
    BY <1>0, <1>1, <1>2, <2>2 DEF TypeOK
  <2> QED BY <2>1, <2>2
<1>7. TypeOK'
  BY <1>0, <1>2, <1>5, <1>6 DEF TypeOK
<1>8. PInv(p)'
  <2>1. Len(output'[p]) = 0
    BY <1>2, <1>3
  <2>2. PlaceInv(p)' /\ ArrayInv(p)' /\ ViewInv(p)'
    BY <1>2, <1>5 DEF PlaceInv, Place, ArrayInv, ArrayOK, ViewInv, Mid
  <2>3. OutputInv(p)'
    BY <2>1 DEF OutputInv, OutputOK
  <2>4. DoneInv(p)'
    BY <1>2, <1>3 DEF DoneInv, DoneOK
  <2> QED BY <2>2, <2>3, <2>4 DEF PInv
<1> QED BY <1>7, <1>8

LEMMA ReturnKeeps == ASSUME Inv, NEW p \in Partitions, Return(p) PROVE TypeOK' /\ PInv(p)'
<1>0. TypeOK
  BY Facts
<1>1. /\ pc' = [pc EXCEPT ![p] = "idle"]
      /\ batch' = [batch EXCEPT ![p] = <<>>]
      /\ msg' = [msg EXCEPT ![p] = 0]
      /\ event' = [event EXCEPT ![p] = 0]
      /\ errs' = [errs EXCEPT ![p] = FALSE]
      /\ array' = [array EXCEPT ![p] = <<>>]
      /\ output' = [output EXCEPT ![p] = <<>>]
      /\ known' = [known EXCEPT ![p] = {}]
      /\ ever' = [ever EXCEPT ![p] = {}]
      /\ logged' = [logged EXCEPT ![p] = {}]
      /\ UNCHANGED <<view, ids, logger, stop, monitor>>
  BY Zenon DEF Return, Goto
<1>2. errs' \in [Partitions -> BOOLEAN]
  BY <1>0, <1>1 DEF TypeOK
<1>3. /\ <<>> \in Batches \cup {<<>>} /\ <<>> \in Seq(Nat) /\ <<>> \in Seq(Nat \X Seq(Nat))
      /\ {} \in SUBSET Keys /\ {} \in SUBSET (Nat \X Nat)
  OBVIOUS
<1>4. /\ pc' \in [Partitions -> {"idle", "message", "event", "lookup", "log", "pipe"}] /\ pc'[p] = "idle"
      /\ batch' \in [Partitions -> Batches \cup {<<>>}] /\ batch'[p] = <<>>
      /\ msg' \in [Partitions -> Nat] /\ msg'[p] = 0
      /\ event' \in [Partitions -> Nat]
      /\ array' \in [Partitions -> Seq(Nat)]
      /\ output' \in [Partitions -> Seq(Nat \X Seq(Nat))] /\ output'[p] = <<>>
      /\ known' \in [Partitions -> SUBSET Keys]
      /\ ever' \in [Partitions -> SUBSET Keys]
      /\ logged' \in [Partitions -> SUBSET (Nat \X Nat)]
  BY <1>0, <1>1, <1>3, Update DEF TypeOK
<1>5. ASSUME NEW q \in Partitions PROVE msg'[q] <= Len(batch'[q])
  <2>1. CASE q = p
    <3>1. Len(batch'[p]) = 0
      BY <1>4
    <3> QED BY <1>4, <2>1, <3>1
  <2>2. CASE q # p
    BY <1>0, <1>1, <2>2 DEF TypeOK
  <2> QED BY <2>1, <2>2
<1>6. TypeOK'
  BY <1>0, <1>1, <1>2, <1>4, <1>5 DEF TypeOK
<1>7. PInv(p)'
  <2>1. Len(output'[p]) = 0
    BY <1>4
  <2>2. PlaceInv(p)' /\ ArrayInv(p)' /\ ViewInv(p)'
    BY <1>4 DEF PlaceInv, Place, ArrayInv, ArrayOK, ViewInv, Mid
  <2>3. OutputInv(p)'
    BY <2>1 DEF OutputInv, OutputOK
  <2>4. DoneInv(p)'
    BY <1>4 DEF DoneInv, DoneOK
  <2> QED BY <2>2, <2>3, <2>4 DEF PInv
<1> QED BY <1>6, <1>7

LEMMA ParseMessageKeeps == ASSUME Inv, NEW p \in Partitions, ParseMessage(p) PROVE TypeOK' /\ PInv(p)'
<1>0. /\ TypeOK /\ OutputInv(p) /\ DoneInv(p) /\ ViewInv(p) /\ PType(p)
      /\ Len(batch[p]) \in Nat
      /\ \A m \in 1 .. Len(batch[p]) : batch[p][m] # Garbage => Len(batch[p][m]) \in Nat
  BY Facts
<1>1. /\ pc[p] = "message" /\ msg[p] < Len(batch[p]) /\ msg[p] \in Nat
      /\ msg' = [msg EXCEPT ![p] = msg[p] + 1]
      /\ UNCHANGED <<view, batch, ids, output, logger, stop, monitor, known, ever, logged>>
  BY <1>0, Zenon DEF ParseMessage, seen, TypeOK
<1>2. msg' \in [Partitions -> Nat] /\ msg'[p] = msg[p] + 1
  BY <1>0, <1>1 DEF TypeOK
<1>3. ASSUME NEW q \in Partitions PROVE msg'[q] <= Len(batch'[q])
  <2>1. CASE q = p
    BY <1>0, <1>1, <1>2, <2>1
  <2>2. CASE q # p
    BY <1>0, <1>1, <2>2 DEF TypeOK
  <2> QED BY <2>1, <2>2
<1>4. CASE batch[p][msg[p] + 1] = Garbage
  <2>1. UNCHANGED <<pc, event, errs, array>>
    BY <1>4 DEF ParseMessage
  <2>2. TypeOK'
    BY <1>0, <1>1, <1>2, <1>3, <2>1 DEF TypeOK
  <2>3. OutputInv(p)' /\ DoneInv(p)'
    <3>1. /\ OutputOK("message", batch[p], msg[p], output[p], ever[p], logged[p])
          /\ DoneOK("message", batch[p], msg[p], output[p], known[p])
      BY <1>0, <1>1 DEF OutputInv, DoneInv
    <3>2. /\ OutputOK("message", batch[p], msg[p] + 1, output[p], ever[p], logged[p])
          /\ DoneOK("message", batch[p], msg[p] + 1, output[p], known[p])
      BY <1>1, <1>4, <3>1, ParseGarbage
    <3> QED BY <1>1, <1>2, <2>1, <3>2 DEF OutputInv, DoneInv
  <2>4. PlaceInv(p)' /\ ArrayInv(p)' /\ ViewInv(p)'
    BY <1>0, <1>1, <2>1 DEF PlaceInv, Place, ArrayInv, ArrayOK, ViewInv, Mid
  <2> QED BY <2>2, <2>3, <2>4 DEF PInv
<1>5. CASE batch[p][msg[p] + 1] # Garbage
  <2>1. /\ event' = [event EXCEPT ![p] = 0]
        /\ errs' = [errs EXCEPT ![p] = FALSE]
        /\ array' = [array EXCEPT ![p] = <<>>]
        /\ pc' = [pc EXCEPT ![p] = "event"]
    BY <1>5, Zenon DEF ParseMessage, Goto
  <2>2. errs' \in [Partitions -> BOOLEAN] /\ errs'[p] = FALSE
    BY <1>0, <2>1 DEF TypeOK
  <2>3. <<>> \in Seq(Nat)
    OBVIOUS
  <2>4. /\ pc' \in [Partitions -> {"idle", "message", "event", "lookup", "log", "pipe"}] /\ pc'[p] = "event"
        /\ event' \in [Partitions -> Nat] /\ event'[p] = 0
        /\ array' \in [Partitions -> Seq(Nat)] /\ array'[p] = <<>>
    BY <1>0, <2>1, <2>3, Update DEF TypeOK
  <2>5. TypeOK'
    BY <1>0, <1>1, <1>2, <1>3, <2>2, <2>4 DEF TypeOK
  <2>6. /\ OutputOK("message", batch[p], msg[p], output[p], ever[p], logged[p])
        /\ DoneOK("message", batch[p], msg[p], output[p], known[p])
    BY <1>0, <1>1 DEF OutputInv, DoneInv
  <2>7. /\ msg[p] \in Nat /\ Len(batch[p]) \in Nat
        /\ msg[p] + 1 <= Len(batch[p]) /\ msg[p] + 1 \in 1 .. Len(batch[p])
    BY <1>0, <1>1
  <2>8. Len(batch[p][msg[p] + 1]) \in Nat
    BY <1>0, <1>5, <2>7
  <2>9. /\ Place("event", batch[p], msg[p] + 1, 0, ids[p], output[p])
        /\ ArrayOK("event", batch[p], msg[p] + 1, 0, ids[p], FALSE, <<>>, known[p], ever[p], logged[p])
        /\ OutputOK("event", batch[p], msg[p] + 1, output[p], ever[p], logged[p])
        /\ DoneOK("event", batch[p], msg[p] + 1, output[p], known[p])
    BY <1>5, <2>6, <2>7, <2>8, ParseArray
  <2>10. PlaceInv(p)' /\ ArrayInv(p)' /\ OutputInv(p)' /\ DoneInv(p)'
    BY <1>1, <1>2, <2>2, <2>4, <2>9 DEF PlaceInv, ArrayInv, OutputInv, DoneInv
  <2>11. ViewInv(p)'
    BY <1>0, <1>1 DEF ViewInv
  <2> QED BY <2>5, <2>10, <2>11 DEF PInv
<1> QED BY <1>4, <1>5

LEMMA EndOfBatchKeeps == ASSUME Inv, NEW p \in Partitions, EndOfBatch(p) PROVE TypeOK' /\ PInv(p)'
<1>1. CASE output[p] = <<>>
  BY <1>1, ReturnKeeps DEF EndOfBatch
<1>2. CASE output[p] # <<>>
  <2>0. TypeOK /\ OutputInv(p) /\ DoneInv(p) /\ ViewInv(p)
    BY Facts
  <2>1. /\ pc[p] = "message" /\ pc' = [pc EXCEPT ![p] = "pipe"]
        /\ UNCHANGED <<view, batch, msg, event, ids, errs, array, output, logger, stop, monitor, known, ever, logged>>
    BY <1>2, Zenon DEF EndOfBatch, Goto, inHand, seen
  <2>2. pc' \in [Partitions -> {"idle", "message", "event", "lookup", "log", "pipe"}] /\ pc'[p] = "pipe"
    BY <2>0, <2>1 DEF TypeOK
  <2>3. TypeOK'
    BY <2>0, <2>1, <2>2 DEF TypeOK
  <2>4. PlaceInv(p)' /\ ArrayInv(p)' /\ ViewInv(p)'
    BY <2>0, <2>1, <2>2 DEF PlaceInv, Place, ArrayInv, ArrayOK, ViewInv, Mid
  <2>5. OutputInv(p)' /\ DoneInv(p)'
    BY <2>0, <2>1, <2>2 DEF OutputInv, OutputOK, DoneInv, DoneOK, Mid
  <2> QED BY <2>3, <2>4, <2>5 DEF PInv
<1> QED BY <1>1, <1>2

LEMMA TakeEventKeeps == ASSUME Inv, NEW p \in Partitions, TakeEvent(p) PROVE TypeOK' /\ PInv(p)'
<1>0. /\ TypeOK /\ PlaceInv(p) /\ ArrayInv(p) /\ OutputInv(p) /\ DoneInv(p) /\ ViewInv(p) /\ PType(p)
      /\ \A m \in 1 .. Len(batch[p]) : batch[p][m] # Garbage =>
           \A n \in 1 .. Len(batch[p][m]) : batch[p][m][n].ids \in Seq(Keys)
      /\ pc[p] \in Mid => msg[p] \in 1 .. Len(batch[p]) /\ InMessage(p) # Garbage /\ Len(InMessage(p)) \in Nat
  BY Facts
<1>1. /\ pc[p] = "event" /\ event[p] < Len(InMessage(p)) /\ event[p] \in Nat
      /\ event' = [event EXCEPT ![p] = event[p] + 1]
      /\ UNCHANGED <<view, batch, msg, errs, array, output, logger, stop, monitor, known, ever, logged>>
  BY <1>0, Zenon DEF TakeEvent, seen, TypeOK
<1>2. event' \in [Partitions -> Nat] /\ event'[p] = event[p] + 1
  BY <1>0, <1>1 DEF TypeOK
<1>3. /\ msg[p] \in 1 .. Len(batch[p]) /\ batch[p][msg[p]] # Garbage /\ Len(batch[p][msg[p]]) \in Nat
      /\ event[p] < Len(batch[p][msg[p]])
  BY <1>0, <1>1 DEF Mid, InMessage
<1>4. \A j \in 1 .. Len(array[p]) : array[p][j] \in Nat
  <2>1. array[p] \in Seq(Nat)
    BY <1>0 DEF PType
  <2> QED BY <2>1
<1>5. /\ Place("event", batch[p], msg[p], event[p], ids[p], output[p])
      /\ ArrayOK("event", batch[p], msg[p], event[p], ids[p], errs[p], array[p], known[p], ever[p], logged[p])
      /\ OutputOK("event", batch[p], msg[p], output[p], ever[p], logged[p])
      /\ DoneOK("event", batch[p], msg[p], output[p], known[p])
  BY <1>0, <1>1 DEF PlaceInv, ArrayInv, OutputInv, DoneInv
<1>6. ViewInv(p)'
  <2>1. pc[p] # "idle"
    BY <1>1
  <2> QED BY <1>0, <1>1, <2>1 DEF ViewInv
<1>7. CASE batch[p][msg[p]][event[p] + 1].expired
  <2>1. UNCHANGED <<pc, ids>>
    BY <1>7 DEF TakeEvent, InMessage
  <2>2. TypeOK'
    BY <1>0, <1>1, <1>2, <2>1 DEF TypeOK
  <2>3. /\ Place("event", batch[p], msg[p], event[p] + 1, ids[p], output[p])
        /\ ArrayOK("event", batch[p], msg[p], event[p] + 1, ids[p], errs[p], array[p], known[p], ever[p], logged[p])
    BY <1>1, <1>3, <1>4, <1>5, <1>7, TakeExpired
  <2>4. PlaceInv(p)' /\ ArrayInv(p)' /\ OutputInv(p)' /\ DoneInv(p)'
    BY <1>1, <1>2, <1>5, <2>1, <2>3 DEF PlaceInv, ArrayInv, OutputInv, DoneInv
  <2> QED BY <1>6, <2>2, <2>4 DEF PInv
<1>8. CASE ~batch[p][msg[p]][event[p] + 1].expired
  <2>1. /\ ids' = [ids EXCEPT ![p] = batch[p][msg[p]][event[p] + 1].ids]
        /\ pc' = [pc EXCEPT ![p] = "lookup"]
    BY <1>8, Zenon DEF TakeEvent, InMessage, Goto
  <2>2. batch[p][msg[p]][event[p] + 1].ids \in Seq(Keys)
    <3>1. event[p] + 1 \in 1 .. Len(batch[p][msg[p]])
      BY <1>1, <1>3
    <3> QED BY <1>0, <1>3, <3>1
  <2>3. /\ ids' \in [Partitions -> Seq(Keys)] /\ ids'[p] = batch[p][msg[p]][event[p] + 1].ids
        /\ pc' \in [Partitions -> {"idle", "message", "event", "lookup", "log", "pipe"}] /\ pc'[p] = "lookup"
    BY <1>0, <2>1, <2>2, Update DEF TypeOK
  <2>4. TypeOK'
    BY <1>0, <1>1, <1>2, <2>3 DEF TypeOK
  <2>5. /\ Place("lookup", batch[p], msg[p], event[p] + 1, ids'[p], output[p])
        /\ ArrayOK("lookup", batch[p], msg[p], event[p] + 1, ids'[p], errs[p], array[p], known[p], ever[p], logged[p])
    BY <1>1, <1>3, <1>4, <1>5, <1>8, <2>3, TakeUnexpired
  <2>6. /\ OutputOK("lookup", batch[p], msg[p], output[p], ever[p], logged[p])
        /\ DoneOK("lookup", batch[p], msg[p], output[p], known[p])
    BY <1>5, SameMessage DEF Mid
  <2>7. PlaceInv(p)' /\ ArrayInv(p)' /\ OutputInv(p)' /\ DoneInv(p)'
    BY <1>1, <1>2, <2>3, <2>5, <2>6 DEF PlaceInv, ArrayInv, OutputInv, DoneInv
  <2> QED BY <1>6, <2>4, <2>7 DEF PInv
<1> QED BY <1>7, <1>8

LEMMA EndOfMessageKeeps == ASSUME Inv, NEW p \in Partitions, EndOfMessage(p) PROVE TypeOK' /\ PInv(p)'
<1>0. /\ TypeOK /\ ArrayInv(p) /\ OutputInv(p) /\ DoneInv(p) /\ ViewInv(p) /\ PType(p)
      /\ pc[p] \in Mid => msg[p] \in 1 .. Len(batch[p]) /\ Len(InMessage(p)) \in Nat
  BY Facts
<1>1. /\ pc[p] = "event" /\ event[p] = Len(InMessage(p))
      /\ pc' = [pc EXCEPT ![p] = "message"]
      /\ output' = IF array[p] = <<>> THEN output
                   ELSE [output EXCEPT ![p] = Append(output[p], <<msg[p], array[p]>>)]
      /\ UNCHANGED <<view, batch, msg, event, ids, errs, array, logger, stop, monitor, known, ever, logged>>
  BY Zenon DEF EndOfMessage, Goto, seen
<1>2. pc' \in [Partitions -> {"idle", "message", "event", "lookup", "log", "pipe"}] /\ pc'[p] = "message"
  BY <1>0, <1>1 DEF TypeOK
<1>3. /\ msg[p] \in Nat /\ msg[p] \in 1 .. Len(batch[p]) /\ Len(batch[p][msg[p]]) \in Nat
      /\ array[p] \in Seq(Nat) /\ output[p] \in Seq(Nat \X Seq(Nat)) /\ errs[p] \in BOOLEAN
  BY <1>0, <1>1 DEF Mid, InMessage, PType
<1>4. /\ ArrayOK("event", batch[p], msg[p], Len(batch[p][msg[p]]), ids[p], errs[p], array[p], known[p], ever[p], logged[p])
      /\ OutputOK("event", batch[p], msg[p], output[p], ever[p], logged[p])
      /\ DoneOK("event", batch[p], msg[p], output[p], known[p])
  BY <1>0, <1>1 DEF ArrayInv, OutputInv, DoneInv, InMessage
<1>5. PlaceInv(p)' /\ ArrayInv(p)' /\ ViewInv(p)'
  BY <1>0, <1>1, <1>2 DEF PlaceInv, Place, ArrayInv, ArrayOK, ViewInv, Mid
<1>6. CASE array[p] = <<>>
  <2>1. output' = output
    BY <1>1, <1>6
  <2>2. TypeOK'
    BY <1>0, <1>1, <1>2, <2>1 DEF TypeOK
  <2>3. /\ OutputOK("message", batch[p], msg[p], output[p], ever[p], logged[p])
        /\ DoneOK("message", batch[p], msg[p], output[p], known[p])
    BY <1>3, <1>4, <1>6, FinishEmpty
  <2>4. OutputInv(p)' /\ DoneInv(p)'
    BY <1>1, <1>2, <2>1, <2>3 DEF OutputInv, DoneInv
  <2> QED BY <1>5, <2>2, <2>4 DEF PInv
<1>7. CASE array[p] # <<>>
  <2> DEFINE o2 == Append(output[p], <<msg[p], array[p]>>)
  <2>1. output' = [output EXCEPT ![p] = o2]
    BY <1>1, <1>7
  <2>2. o2 \in Seq(Nat \X Seq(Nat))
    BY <1>3
  <2>3. output' \in [Partitions -> Seq(Nat \X Seq(Nat))] /\ output'[p] = o2
    BY <1>0, <2>1, <2>2, Update DEF TypeOK
  <2>4. TypeOK'
    BY <1>0, <1>1, <1>2, <2>3 DEF TypeOK
  <2>5. /\ OutputOK("message", batch[p], msg[p], o2, ever[p], logged[p])
        /\ DoneOK("message", batch[p], msg[p], o2, known[p])
    BY <1>3, <1>4, FinishMessage
  <2> HIDE DEF o2
  <2>6. OutputInv(p)' /\ DoneInv(p)'
    BY <1>1, <1>2, <2>3, <2>5 DEF OutputInv, DoneInv
  <2> QED BY <1>5, <2>4, <2>6 DEF PInv
<1> QED BY <1>6, <1>7

LEMMA MatchAndTranslateIDMappingKeeps ==
  ASSUME Inv, NEW p \in Partitions, MatchAndTranslateIDMapping(p) PROVE TypeOK' /\ PInv(p)'
<1>0. /\ TypeOK /\ PlaceInv(p) /\ ArrayInv(p) /\ OutputInv(p) /\ DoneInv(p) /\ ViewInv(p) /\ PType(p)
  BY Facts
<1> DEFINE x == errs[p] \/ view[Head(ids[p])] = NoData
<1>1. /\ pc[p] = "lookup" /\ ids[p] # <<>>
      /\ ids' = [ids EXCEPT ![p] = Tail(ids[p])]
      /\ errs' = [errs EXCEPT ![p] = x]
      /\ UNCHANGED <<view, pc, batch, msg, event, array, output, logger, stop, monitor, known, ever, logged>>
  BY Zenon DEF MatchAndTranslateIDMapping, seen
<1>2. ids[p] \in Seq(Keys) /\ errs[p] \in BOOLEAN
  BY <1>0 DEF PType
<1>3. x \in BOOLEAN
  OBVIOUS
<1>4. ids' \in [Partitions -> Seq(Keys)] /\ ids'[p] = Tail(ids[p])
  <2>1. Tail(ids[p]) \in Seq(Keys)
    BY <1>1, <1>2
  <2> QED BY <1>0, <1>1, <2>1, Update DEF TypeOK
<1>5. /\ Place("lookup", batch[p], msg[p], event[p], Tail(ids[p]), output[p])
      /\ ArrayOK("lookup", batch[p], msg[p], event[p], Tail(ids[p]), x, array[p], known[p], ever[p], logged[p])
  <2>1. known[p] \subseteq KnownIn(view) /\ KnownIn(view) \subseteq ever[p]
    BY <1>0, <1>1 DEF ViewInv
  <2>2. /\ Place("lookup", batch[p], msg[p], event[p], ids[p], output[p])
        /\ ArrayOK("lookup", batch[p], msg[p], event[p], ids[p], errs[p], array[p], known[p], ever[p], logged[p])
    BY <1>0, <1>1 DEF PlaceInv, ArrayInv
  <2> QED BY <1>1, <1>2, <2>1, <2>2, LookUp
<1> HIDE DEF x
<1>6. errs' \in [Partitions -> BOOLEAN] /\ errs'[p] = x
  BY <1>0, <1>1, <1>3, Update DEF TypeOK
<1>7. TypeOK'
  BY <1>0, <1>1, <1>4, <1>6 DEF TypeOK
<1>8. PlaceInv(p)' /\ ArrayInv(p)'
  BY <1>1, <1>4, <1>5, <1>6 DEF PlaceInv, ArrayInv
<1>9. OutputInv(p)' /\ DoneInv(p)' /\ ViewInv(p)'
  BY <1>0, <1>1 DEF OutputInv, DoneInv, ViewInv
<1> QED BY <1>7, <1>8, <1>9 DEF PInv

LEMMA UntranslatedKeeps == ASSUME Inv, NEW p \in Partitions, Untranslated(p) PROVE TypeOK' /\ PInv(p)'
<1>0. /\ TypeOK /\ PlaceInv(p) /\ ArrayInv(p) /\ OutputInv(p) /\ DoneInv(p) /\ ViewInv(p) /\ PType(p)
  BY Facts
<1>1. /\ pc[p] = "lookup" /\ errs[p] /\ pc' = [pc EXCEPT ![p] = "event"]
      /\ UNCHANGED <<view, batch, msg, event, ids, errs, array, output, logger, stop, monitor, known, ever, logged>>
  BY Zenon DEF Untranslated, Goto, inHand, seen
<1>2. pc' \in [Partitions -> {"idle", "message", "event", "lookup", "log", "pipe"}] /\ pc'[p] = "event"
  BY <1>0, <1>1 DEF TypeOK
<1>3. TypeOK'
  BY <1>0, <1>1, <1>2 DEF TypeOK
<1>4. event[p] \in Nat /\ array[p] \in Seq(Nat) /\ errs[p] = TRUE
  BY <1>0, <1>1 DEF PType
<1>5. /\ Place("event", batch[p], msg[p], event[p], ids[p], output[p])
      /\ ArrayOK("event", batch[p], msg[p], event[p], ids[p], TRUE, array[p], known[p], ever[p], logged[p])
  <2>1. /\ Place("lookup", batch[p], msg[p], event[p], ids[p], output[p])
        /\ ArrayOK("lookup", batch[p], msg[p], event[p], ids[p], TRUE, array[p], known[p], ever[p], logged[p])
    BY <1>0, <1>1, <1>4 DEF PlaceInv, ArrayInv
  <2> QED BY <1>4, <2>1, GiveUpEvent
<1>6. /\ OutputOK("event", batch[p], msg[p], output[p], ever[p], logged[p])
      /\ DoneOK("event", batch[p], msg[p], output[p], known[p])
  <2>1. /\ OutputOK("lookup", batch[p], msg[p], output[p], ever[p], logged[p])
        /\ DoneOK("lookup", batch[p], msg[p], output[p], known[p])
    BY <1>0, <1>1 DEF OutputInv, DoneInv
  <2> QED BY <2>1, SameMessage DEF Mid
<1>7. PlaceInv(p)' /\ ArrayInv(p)' /\ OutputInv(p)' /\ DoneInv(p)'
  BY <1>1, <1>2, <1>4, <1>5, <1>6 DEF PlaceInv, ArrayInv, OutputInv, DoneInv
<1>8. ViewInv(p)'
  BY <1>0, <1>1 DEF ViewInv
<1> QED BY <1>3, <1>7, <1>8 DEF PInv

LEMMA TranslatedKeeps == ASSUME Inv, NEW p \in Partitions, Translated(p) PROVE TypeOK' /\ PInv(p)'
<1>0. /\ TypeOK /\ PlaceInv(p) /\ ArrayInv(p) /\ OutputInv(p) /\ DoneInv(p) /\ ViewInv(p) /\ PType(p)
  BY Facts
<1> DEFINE l == IF Logging THEN "log" ELSE "event"
           a2 == Append(array[p], event[p])
<1>1. /\ pc[p] = "lookup" /\ ids[p] = <<>> /\ ~errs[p]
      /\ array' = [array EXCEPT ![p] = a2]
      /\ pc' = [pc EXCEPT ![p] = l]
      /\ UNCHANGED <<view, batch, msg, event, ids, errs, output, logger, stop, monitor, known, ever, logged>>
  BY Zenon DEF Translated, Goto, seen
<1>2. event[p] \in Nat /\ array[p] \in Seq(Nat) /\ errs[p] = FALSE /\ a2 \in Seq(Nat)
  BY <1>0, <1>1 DEF PType
<1>3. l \in {"log", "event"} /\ (Logging => l = "log") /\ l \in Mid
  BY DEF Mid
<1>4. /\ Place(l, batch[p], msg[p], event[p], ids[p], output[p])
      /\ ArrayOK(l, batch[p], msg[p], event[p], ids[p], FALSE, a2, known[p], ever[p], logged[p])
  <2>1. /\ Place("lookup", batch[p], msg[p], event[p], ids[p], output[p])
        /\ ArrayOK("lookup", batch[p], msg[p], event[p], ids[p], FALSE, array[p], known[p], ever[p], logged[p])
    BY <1>0, <1>1, <1>2 DEF PlaceInv, ArrayInv
  <2> HIDE DEF l
  <2> QED BY <1>1, <1>2, <1>3, <2>1, KeepEvent
<1>5. /\ OutputOK(l, batch[p], msg[p], output[p], ever[p], logged[p])
      /\ DoneOK(l, batch[p], msg[p], output[p], known[p])
  <2>1. /\ OutputOK("lookup", batch[p], msg[p], output[p], ever[p], logged[p])
        /\ DoneOK("lookup", batch[p], msg[p], output[p], known[p])
        /\ "lookup" \in Mid
    BY <1>0, <1>1 DEF OutputInv, DoneInv, Mid
  <2> HIDE DEF l
  <2> QED BY <1>3, <2>1, SameMessage
<1> HIDE DEF l, a2
<1>6. /\ pc' \in [Partitions -> {"idle", "message", "event", "lookup", "log", "pipe"}] /\ pc'[p] = l
      /\ array' \in [Partitions -> Seq(Nat)] /\ array'[p] = a2
  BY <1>0, <1>1, <1>2, <1>3, Update DEF TypeOK
<1>7. TypeOK'
  BY <1>0, <1>1, <1>6 DEF TypeOK
<1>8. PlaceInv(p)' /\ ArrayInv(p)' /\ OutputInv(p)' /\ DoneInv(p)'
  BY <1>1, <1>2, <1>4, <1>5, <1>6 DEF PlaceInv, ArrayInv, OutputInv, DoneInv
<1>9. ViewInv(p)'
  <2>1. pc[p] # "idle"
    BY <1>1
  <2> QED BY <1>0, <1>1, <2>1 DEF ViewInv
<1> QED BY <1>7, <1>8, <1>9 DEF PInv

LEMMA SendToLoggerKeeps == ASSUME Inv, NEW p \in Partitions, SendToLogger(p) PROVE TypeOK' /\ PInv(p)'
<1>0. /\ TypeOK /\ PlaceInv(p) /\ ArrayInv(p) /\ OutputInv(p) /\ DoneInv(p) /\ ViewInv(p) /\ PType(p)
  BY Facts
<1> DEFINE lg == logged[p] \cup {<<msg[p], event[p]>>}
<1>1. /\ pc[p] = "log" /\ pc' = [pc EXCEPT ![p] = "event"]
      /\ logged' = [logged EXCEPT ![p] = lg]
      /\ logger' = "write"
      /\ UNCHANGED <<view, batch, msg, event, ids, errs, array, output, stop, monitor, known, ever>>
  BY Zenon DEF SendToLogger, Goto, inHand, seen
<1>2. event[p] \in Nat /\ msg[p] \in Nat /\ lg \subseteq Nat \X Nat /\ logged[p] \subseteq lg
  <2>1. event[p] \in Nat /\ msg[p] \in Nat
    BY <1>0 DEF TypeOK
  <2> QED BY <1>0, <2>1 DEF PType
<1>3. /\ Place("event", batch[p], msg[p], event[p], ids[p], output[p])
      /\ ArrayOK("event", batch[p], msg[p], event[p], ids[p], errs[p], array[p], known[p], ever[p], lg)
  <2>1. /\ Place("log", batch[p], msg[p], event[p], ids[p], output[p])
        /\ ArrayOK("log", batch[p], msg[p], event[p], ids[p], errs[p], array[p], known[p], ever[p], logged[p])
    BY <1>0, <1>1 DEF PlaceInv, ArrayInv
  <2> QED BY <1>2, <2>1, Logs
<1> HIDE DEF lg
<1>4. /\ OutputOK("event", batch[p], msg[p], output[p], ever[p], lg)
      /\ DoneOK("event", batch[p], msg[p], output[p], known[p])
  <2>1. /\ OutputOK("log", batch[p], msg[p], output[p], ever[p], logged[p])
        /\ DoneOK("log", batch[p], msg[p], output[p], known[p])
        /\ "log" \in Mid /\ "event" \in Mid
    BY <1>0, <1>1 DEF OutputInv, DoneInv, Mid
  <2> QED BY <1>2, <2>1, SameMessage
<1>5. /\ pc' \in [Partitions -> {"idle", "message", "event", "lookup", "log", "pipe"}] /\ pc'[p] = "event"
      /\ logged' \in [Partitions -> SUBSET (Nat \X Nat)] /\ logged'[p] = lg
  BY <1>0, <1>1, <1>2, Update DEF TypeOK
<1>6. TypeOK'
  BY <1>0, <1>1, <1>5 DEF TypeOK
<1>7. PlaceInv(p)' /\ ArrayInv(p)' /\ OutputInv(p)' /\ DoneInv(p)'
  BY <1>1, <1>3, <1>4, <1>5 DEF PlaceInv, ArrayInv, OutputInv, DoneInv
<1>8. ViewInv(p)'
  <2>1. pc[p] # "idle"
    BY <1>1
  <2> QED BY <1>0, <1>1, <2>1 DEF ViewInv
<1> QED BY <1>6, <1>7, <1>8 DEF PInv

LEMMA RefreshKeeps == ASSUME Inv, Refresh PROVE Inv'
<1>0. TypeOK
  BY DEF Inv
<1>1. /\ view' \in Tables
      /\ known' = [q \in Partitions |-> known[q] \cap KnownIn(view')]
      /\ ever' = [q \in Partitions |-> IF pc[q] = "idle" THEN {} ELSE ever[q] \cup KnownIn(view')]
      /\ UNCHANGED <<pc, batch, msg, event, ids, errs, array, output, logger, stop, monitor, logged>>
  BY Zenon DEF Refresh, inHand
<1>2. KnownIn(view') \subseteq Keys
  BY DEF KnownIn
<1>3. known' \in [Partitions -> SUBSET Keys] /\ ever' \in [Partitions -> SUBSET Keys]
  BY <1>0, <1>1, <1>2 DEF TypeOK
<1>4. TypeOK'
  BY <1>0, <1>1, <1>3 DEF TypeOK
<1>5. ASSUME NEW p \in Partitions PROVE PInv(p)'
  <2>0. PlaceInv(p) /\ ArrayInv(p) /\ OutputInv(p) /\ DoneInv(p)
    BY Facts
  <2>1. PlaceInv(p)'
    BY <1>1, <2>0 DEF PlaceInv
  <2>2. CASE pc[p] = "idle"
    <3>1. msg[p] = 0 /\ output[p] = <<>>
      BY <2>0, <2>2 DEF PlaceInv, Place
    <3>2. Len(output'[p]) = 0
      BY <1>1, <3>1
    <3>3. ArrayInv(p)' /\ ViewInv(p)'
      BY <1>1, <2>2 DEF ArrayInv, ArrayOK, ViewInv, Mid
    <3>4. OutputInv(p)'
      BY <3>2 DEF OutputInv, OutputOK
    <3>5. DoneInv(p)'
      BY <1>1, <3>1 DEF DoneInv, DoneOK
    <3> QED BY <2>1, <3>3, <3>4, <3>5 DEF PInv
  <2>3. CASE pc[p] # "idle"
    <3>1. /\ known'[p] = known[p] \cap KnownIn(view')
          /\ ever'[p] = ever[p] \cup KnownIn(view')
      BY <1>1, <2>3
    <3>2. known'[p] \subseteq known[p] /\ ever[p] \subseteq ever'[p]
      BY <3>1
    <3>3. ViewInv(p)'
      BY <1>1, <3>1 DEF ViewInv
    <3>4. /\ ArrayOK(pc[p], batch[p], msg[p], event[p], ids[p], errs[p], array[p], known'[p], ever'[p], logged[p])
          /\ OutputOK(pc[p], batch[p], msg[p], output[p], ever'[p], logged[p])
          /\ DoneOK(pc[p], batch[p], msg[p], output[p], known'[p])
      <4>1. /\ ArrayOK(pc[p], batch[p], msg[p], event[p], ids[p], errs[p], array[p], known[p], ever[p], logged[p])
            /\ OutputOK(pc[p], batch[p], msg[p], output[p], ever[p], logged[p])
            /\ DoneOK(pc[p], batch[p], msg[p], output[p], known[p])
        BY <2>0 DEF ArrayInv, OutputInv, DoneInv
      <4> QED BY <3>2, <4>1, Refreshed
    <3>5. ArrayInv(p)' /\ OutputInv(p)' /\ DoneInv(p)'
      BY <1>1, <3>4 DEF ArrayInv, OutputInv, DoneInv
    <3> QED BY <2>1, <3>3, <3>5 DEF PInv
  <2> QED BY <2>2, <2>3
<1> QED BY <1>4, <1>5 DEF Inv

-----------------------------------------------------------------------------
(* Every step keeps the invariant.                                          *)

LEMMA PartitionStep ==
  ASSUME Inv, NEW p \in Partitions, CallNext(p) \/ Work(p) \/ SendToLogger(p)
  PROVE  Inv'
<1>1. TypeOK' /\ PInv(p)'
  <2>1. CASE PipeReturns(p)
    BY <2>1, ReturnKeeps DEF PipeReturns
  <2> QED
    BY <2>1, CallNextKeeps, ParseMessageKeeps, EndOfBatchKeeps, TakeEventKeeps, EndOfMessageKeeps,
       MatchAndTranslateIDMappingKeeps, UntranslatedKeeps, TranslatedKeeps, SendToLoggerKeeps DEF Work
<1>2. ASSUME NEW q \in Partitions, q # p PROVE PInv(q)'
  <2>1. TypeOK /\ PInv(q)
    BY DEF Inv
  <2>2. Same(q) /\ view' = view
    BY <1>2, <2>1, Others
  <2> QED BY <2>1, <2>2, Frame
<1> QED BY <1>1, <1>2 DEF Inv

LEMMA LoggerStep ==
  ASSUME Inv,
         StartLogging \/ WriteReturns \/ Stop \/ StopReceived \/ MonitorEnds \/ UNCHANGED vars
  PROVE  Inv'
<1>0. TypeOK
  BY DEF Inv
<1>1. UNCHANGED <<view, pc, batch, msg, event, ids, errs, array, output, known, ever, logged>>
  BY DEF StartLogging, WriteReturns, Stop, StopReceived, MonitorEnds, vars, inHand, seen
<1>2. logger' \in {"off", "select", "write", "ended"} /\ stop' \in {"none", "sending", "returned"}
      /\ monitor' \in {"runs", "ended"}
  BY <1>0 DEF TypeOK, StartLogging, WriteReturns, Stop, StopReceived, MonitorEnds, vars
<1>3. TypeOK'
  BY <1>0, <1>1, <1>2 DEF TypeOK
<1>4. ASSUME NEW q \in Partitions PROVE PInv(q)'
  <2>1. PInv(q)
    BY DEF Inv
  <2>2. Same(q)
    BY <1>1 DEF Same
  <2> QED BY <1>1, <2>1, <2>2, Frame
<1> QED BY <1>3, <1>4 DEF Inv

LEMMA InvStep == Inv /\ [Next]_vars => Inv'
<1> SUFFICES ASSUME Inv, [Next]_vars PROVE Inv'
  OBVIOUS
<1>1. CASE \E p \in Partitions : CallNext(p) \/ Work(p) \/ SendToLogger(p)
  BY <1>1, PartitionStep
<1>2. CASE Refresh
  BY <1>2, RefreshKeeps
<1>3. CASE StartLogging \/ WriteReturns \/ Stop \/ StopReceived \/ MonitorEnds \/ UNCHANGED vars
  BY <1>3, LoggerStep
<1> QED BY <1>1, <1>2, <1>3 DEF Next

LEMMA InvHolds == Spec => []Inv
BY InvInit, InvStep, PTL DEF Spec

-----------------------------------------------------------------------------
(* What follows from it.                                                    *)

LEMMA KeptIs ==
  ASSUME NEW o, NEW m, NEW e
  PROVE  e \in Kept(o, m) <=>
           \E k \in 1 .. Len(o) : o[k][1] = m /\ \E j \in 1 .. Len(o[k][2]) : o[k][2][j] = e
BY DEF Kept

LEMMA OnlyFit ==
  ASSUME Inv, NEW p \in Partitions, NEW m \in 1 .. msg[p], NEW e \in Kept(output[p], m)
  PROVE  Fit(batch[p], m, e, ever[p]) /\ (Logging => <<m, e>> \in logged[p])
<1>0. OutputInv(p)
  BY Facts
<1>1. PICK k \in 1 .. Len(output[p]) :
        output[p][k][1] = m /\ \E j \in 1 .. Len(output[p][k][2]) : output[p][k][2][j] = e
  BY KeptIs
<1>2. PICK j \in 1 .. Len(output[p][k][2]) : output[p][k][2][j] = e
  BY <1>1
<1> QED BY <1>0, <1>1, <1>2 DEF OutputInv, OutputOK

LEMMA AllKept == Inv => KnownIsTranslated
<1> SUFFICES ASSUME Inv, NEW p \in Partitions, NEW m \in Through(p),
                    \A e \in Unexpired(batch[p][m]) : IdsIn(batch[p][m][e].ids) \subseteq known[p]
             PROVE  Kept(output[p], m) = Unexpired(batch[p][m])
  BY DEF KnownIsTranslated
<1>0. DoneInv(p)
  BY Facts
<1>1. m \in 1 .. msg[p] /\ batch[p][m] # Garbage /\ (m < msg[p] \/ pc[p] \notin Mid)
  BY DEF Through, Mid
<1>2. Complete(batch[p], m, output[p])
  <2>1. ~HasUnknown(batch[p], m, known[p])
    BY DEF HasUnknown
  <2> QED BY <1>0, <1>1, <2>1 DEF DoneInv, DoneOK
<1>3. Unexpired(batch[p][m]) \subseteq Kept(output[p], m)
  BY <1>2, KeptIs DEF Complete
<1>4. Kept(output[p], m) \subseteq Unexpired(batch[p][m])
  BY <1>1, OnlyFit DEF Fit
<1> QED BY <1>3, <1>4

-----------------------------------------------------------------------------
(* The translator is type correct, for any partitions, keys and batches     *)
(* (translate.go:242-364).                                                  *)
THEOREM TypeCorrect == Spec => []TypeOK
<1>1. Inv => TypeOK
  BY DEF Inv
<1> QED BY <1>1, InvHolds, PTL

(* A message whose ids the cache holds all the time comes out whole, for    *)
(* any batches and however refreshes and partitions interleave              *)
(* (translate.go:252-348).                                                  *)
THEOREM KnownAreTranslated == Spec => []KnownIsTranslated
BY AllKept, InvHolds, PTL

(* No event leaves with an id the cache never held during the call          *)
(* (translate.go:287-324, 366-432).                                         *)
THEOREM UnknownAreNotSent == Spec => []UnknownIsNotSent
<1>1. Inv => UnknownIsNotSent
  BY OnlyFit DEF UnknownIsNotSent, Fit
<1> QED BY <1>1, InvHolds, PTL

(* A message is cut at its first untranslatable event and never holed, and  *)
(* keeps its order (translate.go:281-345).                                  *)
THEOREM NeverHoled == Spec => []CutNotHoled
<1>1. Inv => CutNotHoled
  <2> SUFFICES ASSUME Inv, NEW p \in Partitions, NEW k \in 1 .. Len(output[p])
               PROVE  /\ \A h \in 1 .. k - 1 : output[p][h][1] < output[p][k][1]
                      /\ Uncut(batch[p][output[p][k][1]], output[p][k][2])
    BY DEF CutNotHoled
  <2>1. OutputInv(p)
    BY Facts
  <2> QED BY <2>1 DEF OutputInv, OutputOK
<1> QED BY <1>1, InvHolds, PTL

(* With the transaction log enabled every event that is passed on has been  *)
(* taken by the logger before (translate.go:327-339).                       *)
LoggedBeforeSent ==
  Logging => \A p \in Partitions : \A m \in 1 .. msg[p] : \A e \in Kept(output[p], m) :
               <<m, e>> \in logged[p]

(* With the transaction log enabled nothing is passed on that the logger    *)
(* has not taken before (translate.go:327-339).                             *)
THEOREM AllAreLogged == Spec => []LoggedBeforeSent
<1>1. Inv => LoggedBeforeSent
  BY OnlyFit DEF LoggedBeforeSent
<1> QED BY <1>1, InvHolds, PTL

-----------------------------------------------------------------------------
(* What the returns of Next and Stop rest on, apart from fairness.          *)

(* Whoever sends to the logging goroutine finds it there, or about to       *)
(* begin, until Stop has returned.                                          *)
NobodyIsStranded ==
  /\ stop = "sending" => logger \in {"select", "write"}
  /\ logger = "ended" => stop = "returned"

(* Stop never signals a logging goroutine that is gone, although it reads   *)
(* loggingStarted and sends later, and a partition can be left waiting for  *)
(* the logger only after Stop (translate.go:194-240).                       *)
THEOREM LoggerOutlivesItsSenders == Spec => []NobodyIsStranded
<1>1. Init => NobodyIsStranded
  BY DEF Init, NobodyIsStranded
<1>2. NobodyIsStranded /\ [Next]_vars => NobodyIsStranded'
  <2> SUFFICES ASSUME NobodyIsStranded, [Next]_vars PROVE NobodyIsStranded'
    OBVIOUS
  <2>1. CASE UNCHANGED <<logger, stop>>
    BY <2>1 DEF NobodyIsStranded
  <2>2. ASSUME NEW p \in Partitions, SendToLogger(p) PROVE NobodyIsStranded'
    BY <2>2 DEF SendToLogger, NobodyIsStranded
  <2>3. CASE StartLogging \/ WriteReturns \/ Stop \/ StopReceived \/ MonitorEnds
    BY <2>3 DEF StartLogging, WriteReturns, Stop, StopReceived, MonitorEnds, NobodyIsStranded
  <2>4. ASSUME NEW p \in Partitions, CallNext(p) \/ Work(p) PROVE UNCHANGED <<logger, stop>>
    BY <2>4 DEF CallNext, Work, ParseMessage, EndOfBatch, PipeReturns, Return, TakeEvent,
       EndOfMessage, MatchAndTranslateIDMapping, Untranslated, Translated
  <2> QED BY <2>1, <2>2, <2>3, <2>4 DEF Next, Refresh, vars
<1> QED BY <1>1, <1>2, PTL DEF Spec

(* Positions of one call of Next, in the order it comes through them: the   *)
(* events of a message, then the end of the message, then the next message; *)
(* of an event its ids, the logger, the end.                                *)
StageOf == [l \in {"lookup", "log", "event", "message", "pipe"} |->
              CASE l = "lookup" -> 1 [] l = "log" -> 2 [] l = "event" -> 3
                [] l = "message" -> 4 [] l = "pipe" -> 5]

LaterInMessage(l, e, i, l2, e2, i2) ==
  \/ l \in Mid /\ l2 \in Mid /\ e2 > e
  \/ e2 = e /\ StageOf[l2] > StageOf[l]
  \/ e2 = e /\ l2 = l /\ Len(i2) < Len(i)

OnlyAdvances(p) ==
  pc[p] # "idle" =>
    \/ UNCHANGED <<pc[p], batch[p], msg[p], event[p], ids[p]>>
    \/ pc'[p] = "idle"
    \/ /\ batch'[p] = batch[p]
       /\ \/ msg'[p] > msg[p]
          \/ msg'[p] = msg[p] /\ LaterInMessage(pc[p], event[p], ids[p], pc'[p], event'[p], ids'[p])

(* What one partition does leaves the others where they are.                *)
LEMMA OthersStay ==
  ASSUME TypeOK, NEW p \in Partitions, CallNext(p) \/ Work(p) \/ SendToLogger(p),
         NEW q \in Partitions \ {p}
  PROVE  UNCHANGED <<pc[q], batch[q], msg[q], event[q], ids[q]>>
BY DEF TypeOK, CallNext, Work, ParseMessage, EndOfBatch, PipeReturns, Return, TakeEvent,
   EndOfMessage, MatchAndTranslateIDMapping, Untranslated, Translated, SendToLogger, Goto, inHand

LEMMA WorkAdvances ==
  ASSUME Inv, NEW p \in Partitions, Work(p) \/ SendToLogger(p)
  PROVE  OnlyAdvances(p)
<1>0. /\ TypeOK
      /\ pc[p] \in {"idle", "message", "event", "lookup", "log", "pipe"}
      /\ msg[p] \in Nat /\ event[p] \in Nat /\ ids[p] \in Seq(Keys)
      /\ p \in DOMAIN pc /\ p \in DOMAIN msg /\ p \in DOMAIN event /\ p \in DOMAIN ids
  BY DEF Inv, TypeOK
<1>s. /\ StageOf["lookup"] = 1 /\ StageOf["log"] = 2 /\ StageOf["event"] = 3
      /\ StageOf["message"] = 4 /\ StageOf["pipe"] = 5
  BY DEF StageOf
<1>1. CASE ParseMessage(p)
  <2>1. msg'[p] = msg[p] + 1 /\ batch' = batch
    BY <1>0, <1>1 DEF ParseMessage
  <2> QED BY <1>0, <2>1 DEF OnlyAdvances
<1>2. CASE EndOfBatch(p)
  <2>1. CASE Return(p)
    BY <1>0, <2>1 DEF Return, Goto, OnlyAdvances
  <2>2. CASE ~Return(p)
    BY <1>0, <1>s, <1>2, <2>2 DEF EndOfBatch, Goto, inHand, OnlyAdvances, LaterInMessage
  <2> QED BY <2>1, <2>2
<1>3. CASE PipeReturns(p)
  BY <1>0, <1>3 DEF PipeReturns, Return, Goto, OnlyAdvances
<1>4. CASE TakeEvent(p)
  <2>1. /\ event'[p] = event[p] + 1 /\ batch' = batch /\ msg' = msg
        /\ pc[p] = "event" /\ pc'[p] \in {"event", "lookup"}
    BY <1>0, <1>4 DEF TakeEvent, Goto
  <2> QED BY <1>0, <2>1 DEF OnlyAdvances, LaterInMessage, Mid
<1>5. CASE EndOfMessage(p)
  BY <1>0, <1>s, <1>5 DEF EndOfMessage, Goto, OnlyAdvances, LaterInMessage
<1>6. CASE MatchAndTranslateIDMapping(p)
  <2>1. /\ ids'[p] = Tail(ids[p]) /\ ids[p] # <<>>
        /\ UNCHANGED <<pc, batch, msg, event>>
    BY <1>0, <1>6 DEF MatchAndTranslateIDMapping
  <2>2. Len(ids'[p]) < Len(ids[p])
    BY <1>0, <2>1
  <2> QED BY <2>1, <2>2 DEF OnlyAdvances, LaterInMessage
<1>7. CASE Untranslated(p)
  BY <1>0, <1>s, <1>7 DEF Untranslated, Goto, inHand, OnlyAdvances, LaterInMessage
<1>8. CASE Translated(p)
  BY <1>0, <1>s, <1>8 DEF Translated, Goto, OnlyAdvances, LaterInMessage
<1>9. CASE SendToLogger(p)
  BY <1>0, <1>s, <1>9 DEF SendToLogger, Goto, inHand, OnlyAdvances, LaterInMessage
<1> QED BY <1>1, <1>2, <1>3, <1>4, <1>5, <1>6, <1>7, <1>8, <1>9 DEF Work

(* No step leads a call of Next back or keeps it at its place: refreshes,    *)
(* other partitions and the logger leave it where it is, and what it does    *)
(* itself brings it nearer to its return (translate.go:252-364).             *)
THEOREM NextOnlyAdvances == Spec => [][\A p \in Partitions : OnlyAdvances(p)]_vars
<1>1. Inv /\ [Next]_vars => [\A p \in Partitions : OnlyAdvances(p)]_vars
  <2> SUFFICES ASSUME Inv, Next, NEW p \in Partitions PROVE OnlyAdvances(p)
    OBVIOUS
  <2>1. ASSUME NEW q \in Partitions, CallNext(q) \/ Work(q) \/ SendToLogger(q)
        PROVE  OnlyAdvances(p)
    <3>1. CASE p # q
      BY <2>1, <3>1, OthersStay DEF Inv, OnlyAdvances
    <3>2. CASE p = q /\ CallNext(q)
      BY <3>2 DEF CallNext, OnlyAdvances
    <3>3. CASE p = q /\ ~CallNext(q)
      BY <2>1, <3>3, WorkAdvances
    <3> QED BY <3>1, <3>2, <3>3
  <2>2. CASE Refresh \/ StartLogging \/ WriteReturns \/ Stop \/ StopReceived \/ MonitorEnds
    BY <2>2 DEF Refresh, StartLogging, WriteReturns, Stop, StopReceived, MonitorEnds, inHand, OnlyAdvances
  <2> QED BY <2>1, <2>2 DEF Next
<1> QED BY <1>1, InvHolds, PTL DEF Spec
=============================================================================
