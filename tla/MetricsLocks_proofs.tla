-------------------------- MODULE MetricsLocks_proofs --------------------------
(***************************************************************************)
(* No circular wait, for any number of callers.  Locks and channel have     *)
(* ranks, the order of metrics.go:288-289 continued; every call takes them  *)
(* by rising rank.  That is shown for the brackets With is built from, so   *)
(* it holds of every call without looking at its steps one by one.          *)
(***************************************************************************)
EXTENDS MetricsLocks, SequenceTheorems, TLAPS

Rank(l) ==
  CASE l = "hm" -> 1 [] l = "gm" -> 2 [] l = "cm" -> 3
    [] l = "peerHealthLock" -> 4 [] l = "myHealthLock" -> 6

ChannelRank == 5

(* Of a sequence t of steps: l is unlocked by a step after k without having *)
(* been locked from k on, so it is held before step k.                      *)
HeldAt(t, k, l) ==
  \E j \in k .. Len(t) : t[j] = Unlock(l) /\ \A i \in k .. j - 1 : t[i] # Lock(l)

(* Whatever is locked is unlocked before it is locked again.                *)
Paired(t) == \A l \in Locks : \A k \in 1 .. Len(t) : t[k] = Lock(l) => HeldAt(t, k + 1, l)

(* Everything that may have to wait has a higher rank than what is held.    *)
Rising(t) ==
  \A l \in Locks : \A k \in 1 .. Len(t) :
    HeldAt(t, k, l) =>
      /\ \A m \in Locks : t[k] = Lock(m) => Rank(l) < Rank(m)
      /\ t[k] = Send => Rank(l) < ChannelRank

(* Nothing is unlocked twice.                                               *)
Single(t) == \A l \in Locks : \A k \in 1 .. Len(t) : t[k] = Unlock(l) => ~HeldAt(t, k + 1, l)

Good(t) == t \in Seq(Steps) /\ Paired(t) /\ Rising(t) /\ Single(t)

(* A whole call holds nothing before it.                                    *)
Whole(t) == Good(t) /\ \A l \in Locks : ~HeldAt(t, 1, l)

Above(t, n) ==
  \A k \in 1 .. Len(t) :
    /\ \A l \in Locks : t[k] = Lock(l) => n < Rank(l)
    /\ t[k] = Send => n < ChannelRank

MonitorOK == Above(todo[Monitor], ChannelRank)

(* Whoever holds a lock is going to unlock it, and whoever is going to      *)
(* unlock one without locking it first holds it.                            *)
HoldersOK == \A l \in Locks : \A g \in holder[l] : HeldAt(todo[g], 1, l)

OwnersOK == \A l \in Locks : \A g \in Goroutines : HeldAt(todo[g], 1, l) => g \in holder[l]

Inv ==
  /\ TypeOK
  /\ \A g \in Goroutines : Good(todo[g])
  /\ HoldersOK
  /\ OwnersOK
  /\ MonitorOK

(* Beyond its end a call holds nothing.                                     *)
LEMMA NothingHeldAtEnd ==
  ASSUME NEW t, NEW k, NEW l, k .. Len(t) = {}
  PROVE  ~HeldAt(t, k, l)
BY DEF HeldAt

-----------------------------------------------------------------------------
LEMMA StepsDiffer ==
  ASSUME NEW l, NEW m
  PROVE  /\ Lock(l) = Lock(m) <=> l = m
         /\ Unlock(l) = Unlock(m) <=> l = m
         /\ Lock(l) # Unlock(m) /\ Lock(l) # Send /\ Unlock(l) # Send
BY DEF Lock, Unlock, Send

LEMMA StepsAre ==
  Send \in Steps /\ \A l \in Locks : Lock(l) \in Steps /\ Unlock(l) \in Steps
BY DEF Steps, Lock, Unlock, Send

LEMMA RankType ==
  /\ \A l \in Locks : Rank(l) \in 1 .. 6
  /\ Rank("hm") = 1 /\ Rank("gm") = 2 /\ Rank("cm") = 3
  /\ Rank("peerHealthLock") = 4 /\ Rank("myHealthLock") = 6
BY DEF Rank, Locks, Mutexes

LEMMA LocksAre == {"hm", "gm", "cm", "peerHealthLock", "myHealthLock"} = Locks
BY DEF Locks, Mutexes

-----------------------------------------------------------------------------
(* Building calls.                                                         *)

LEMMA EmptyIsWhole == Whole(<<>>) /\ \A n : Above(<<>>, n)
<1>1. Len(<<>>) = 0 /\ <<>> \in Seq(Steps)
  OBVIOUS
<1> QED BY <1>1 DEF Whole, Good, Paired, Rising, Single, HeldAt, Above

LEMMA SendIsWhole ==
  ASSUME NEW n \in Nat, n < ChannelRank
  PROVE  Whole(<<Send>>) /\ Above(<<Send>>, n)
<1>1. Len(<<Send>>) = 1 /\ <<Send>> \in Seq(Steps) /\ <<Send>>[1] = Send
  BY StepsAre
<1>2. \A k \in 1 .. 1 : k = 1
  OBVIOUS
<1>3. \A l \in Locks : ~HeldAt(<<Send>>, 1, l)
  BY <1>1, <1>2, StepsDiffer DEF HeldAt
<1> QED BY <1>1, <1>2, <1>3, StepsDiffer DEF Whole, Good, Paired, Rising, Single, Above

LEMMA WithIs ==
  ASSUME NEW l \in Locks, NEW s \in Seq(Steps)
  PROVE  /\ With(l, s) \in Seq(Steps)
         /\ Len(s) \in Nat /\ Len(With(l, s)) = Len(s) + 2
         /\ With(l, s)[1] = Lock(l) /\ With(l, s)[Len(s) + 2] = Unlock(l)
         /\ \A k \in 1 .. Len(s) : With(l, s)[k + 1] = s[k]
<1> DEFINE a == <<Lock(l)>>
           b == a \o s
<1>1. a \in Seq(Steps) /\ Len(a) = 1 /\ a[1] = Lock(l)
  BY StepsAre
<1>2. <<Unlock(l)>> \in Seq(Steps) /\ Len(<<Unlock(l)>>) = 1 /\ <<Unlock(l)>>[1] = Unlock(l)
  BY StepsAre
<1> HIDE DEF a
<1>3. /\ b \in Seq(Steps) /\ Len(b) = Len(s) + 1 /\ Len(s) \in Nat /\ b[1] = Lock(l)
      /\ \A k \in 1 .. Len(s) : b[k + 1] = s[k]
  <2>1. /\ b \in Seq(Steps) /\ Len(b) = Len(a) + Len(s)
        /\ \A i \in 1 .. Len(a) + Len(s) : b[i] = IF i <= Len(a) THEN a[i] ELSE s[i - Len(a)]
    BY <1>1, ConcatProperties, Zenon
  <2>2. Len(s) \in Nat
    OBVIOUS
  <2> HIDE DEF b
  <2>3. b[1] = Lock(l)
    BY <1>1, <2>1
  <2>4. ASSUME NEW k \in 1 .. Len(s) PROVE b[k + 1] = s[k]
    <3>1. k + 1 \in 1 .. Len(a) + Len(s) /\ ~(k + 1 <= Len(a)) /\ (k + 1) - Len(a) = k
      BY <1>1, <2>2
    <3> QED BY <2>1, <3>1
  <2> QED BY <1>1, <2>1, <2>2, <2>3, <2>4
<1>4. With(l, s) = b \o <<Unlock(l)>>
  BY DEF With, a
<1> HIDE DEF b
<1>5. /\ With(l, s) \in Seq(Steps) /\ Len(With(l, s)) = Len(s) + 2
      /\ With(l, s)[Len(s) + 2] = Unlock(l)
      /\ \A k \in 1 .. Len(s) + 1 : With(l, s)[k] = b[k]
  BY <1>2, <1>3, <1>4
<1> QED BY <1>3, <1>5

LEMMA WithIsWhole ==
  ASSUME NEW l \in Locks, NEW s, Whole(s), Above(s, Rank(l))
  PROVE  Whole(With(l, s)) /\ \A n \in Nat : n < Rank(l) => Above(With(l, s), n)
<1> DEFINE t == With(l, s)
<1>1. /\ t \in Seq(Steps) /\ s \in Seq(Steps)
      /\ Len(s) \in Nat /\ Len(t) = Len(s) + 2
      /\ t[1] = Lock(l) /\ t[Len(s) + 2] = Unlock(l)
      /\ \A k \in 1 .. Len(s) : t[k + 1] = s[k]
  BY WithIs DEF Whole, Good
<1> HIDE DEF t
<1>2. \A k \in 1 .. Len(t) : k = 1 \/ k = Len(s) + 2 \/ (k - 1 \in 1 .. Len(s) /\ t[k] = s[k - 1])
  <2> SUFFICES ASSUME NEW k \in 1 .. Len(t), k # 1, k # Len(s) + 2
               PROVE  k - 1 \in 1 .. Len(s) /\ t[k] = s[k - 1]
    OBVIOUS
  <2>1. k - 1 \in 1 .. Len(s) /\ (k - 1) + 1 = k
    BY <1>1
  <2> QED BY <1>1, <2>1
<1>3. \A k \in 1 .. Len(s) : s[k] # Lock(l)
  <2>1. Rank(l) \in Nat
    BY RankType
  <2> QED BY <2>1 DEF Above
(* What the body holds at a place t holds there too, and l besides.         *)
<1>4. ASSUME NEW m \in Locks, NEW k \in 1 .. Len(s) + 1, HeldAt(t, k + 1, m)
      PROVE  m = l \/ HeldAt(s, k, m)
  <2>1. PICK j \in k + 1 .. Len(t) : t[j] = Unlock(m) /\ \A i \in k + 1 .. j - 1 : t[i] # Lock(m)
    BY <1>4 DEF HeldAt
  <2>2. CASE j = Len(s) + 2
    BY <1>1, <2>1, <2>2, StepsDiffer
  <2>3. CASE j # Len(s) + 2
    <3>1. j - 1 \in k .. Len(s) /\ s[j - 1] = Unlock(m)
      BY <1>1, <1>2, <2>1, <2>3
    <3>2. ASSUME NEW i \in k .. (j - 1) - 1 PROVE s[i] # Lock(m)
      <4>1. i \in 1 .. Len(s) /\ i + 1 \in k + 1 .. j - 1
        BY <1>1, <3>1
      <4> QED BY <1>1, <2>1, <4>1
    <3> QED BY <3>1, <3>2 DEF HeldAt
  <2> QED BY <2>2, <2>3
<1>5. ASSUME NEW m \in Locks, NEW k \in 1 .. Len(s) + 1, HeldAt(s, k, m)
      PROVE  HeldAt(t, k + 1, m)
  <2>1. PICK j \in k .. Len(s) : s[j] = Unlock(m) /\ \A i \in k .. j - 1 : s[i] # Lock(m)
    BY <1>5 DEF HeldAt
  <2>2. j + 1 \in k + 1 .. Len(t) /\ t[j + 1] = Unlock(m)
    BY <1>1, <2>1
  <2>3. ASSUME NEW i \in k + 1 .. (j + 1) - 1 PROVE t[i] # Lock(m)
    <3>1. i - 1 \in k .. j - 1 /\ i \in 1 .. Len(t) /\ i # 1 /\ i # Len(s) + 2
      BY <1>1
    <3> QED BY <1>2, <2>1, <3>1
  <2> QED BY <2>2, <2>3 DEF HeldAt
<1>6. \A m \in Locks : ~HeldAt(t, 1, m)
  <2> SUFFICES ASSUME NEW m \in Locks, HeldAt(t, 1, m) PROVE FALSE
    OBVIOUS
  <2>1. PICK j \in 1 .. Len(t) : t[j] = Unlock(m) /\ \A i \in 1 .. j - 1 : t[i] # Lock(m)
    BY DEF HeldAt
  <2>2. j # 1
    BY <1>1, <2>1, StepsDiffer
  <2>3. 1 \in 1 .. j - 1
    BY <2>2
  <2>4. m # l
    BY <1>1, <2>1, <2>3
  <2>5. HeldAt(t, 1 + 1, m)
    BY <2>1, <2>2 DEF HeldAt
  <2>6. HeldAt(s, 1, m)
    BY <1>1, <1>4, <2>4, <2>5
  <2> QED BY <2>6 DEF Whole
<1>7. Paired(t)
  <2> SUFFICES ASSUME NEW m \in Locks, NEW k \in 1 .. Len(t), t[k] = Lock(m)
               PROVE  HeldAt(t, k + 1, m)
    BY DEF Paired
  <2>1. CASE k = 1
    <3>1. m = l
      BY <1>1, <2>1, StepsDiffer
    <3>2. Len(s) + 2 \in k + 1 .. Len(t)
      BY <1>1, <2>1
    <3>3. ASSUME NEW i \in k + 1 .. (Len(s) + 2) - 1 PROVE t[i] # Lock(l)
      <4>1. i \in 1 .. Len(t) /\ i # 1 /\ i # Len(s) + 2
        BY <1>1, <2>1
      <4> QED BY <1>2, <1>3, <4>1
    <3> QED BY <1>1, <3>1, <3>2, <3>3 DEF HeldAt
  <2>2. CASE k # 1
    <3>1. k # Len(s) + 2
      BY <1>1, StepsDiffer
    <3>2. k - 1 \in 1 .. Len(s) /\ s[k - 1] = Lock(m)
      BY <1>2, <2>2, <3>1
    <3>3. HeldAt(s, (k - 1) + 1, m)
      BY <3>2 DEF Whole, Good, Paired
    <3>4. (k - 1) + 1 = k /\ k \in 1 .. Len(s) + 1
      BY <1>1, <3>2
    <3> QED BY <1>5, <3>3, <3>4
  <2> QED BY <2>1, <2>2
<1>8. Rising(t)
  <2> SUFFICES ASSUME NEW m \in Locks, NEW k \in 1 .. Len(t), HeldAt(t, k, m)
               PROVE  /\ \A h \in Locks : t[k] = Lock(h) => Rank(m) < Rank(h)
                      /\ t[k] = Send => Rank(m) < ChannelRank
    BY DEF Rising
  <2>1. k # 1
    BY <1>6
  <2>2. CASE k = Len(s) + 2
    BY <1>1, <2>2, StepsDiffer
  <2>3. CASE k # Len(s) + 2
    <3>1. k - 1 \in 1 .. Len(s) /\ t[k] = s[k - 1]
      BY <1>2, <2>1, <2>3
    <3>2. HeldAt(t, (k - 1) + 1, m) /\ k - 1 \in 1 .. Len(s) + 1
      BY <1>1, <3>1
    <3>3. m = l \/ HeldAt(s, k - 1, m)
      BY <1>4, <3>2
    <3> QED BY <3>1, <3>3 DEF Whole, Good, Rising, Above
  <2> QED BY <2>2, <2>3
<1>9. ASSUME NEW n \in Nat, n < Rank(l) PROVE Above(t, n)
  <2> SUFFICES ASSUME NEW k \in 1 .. Len(t)
               PROVE  /\ \A m \in Locks : t[k] = Lock(m) => n < Rank(m)
                      /\ t[k] = Send => n < ChannelRank
    BY DEF Above
  <2>1. CASE k = 1 \/ k = Len(s) + 2
    BY <1>1, <1>9, <2>1, StepsDiffer
  <2>2. CASE k - 1 \in 1 .. Len(s) /\ t[k] = s[k - 1]
    <3>1. \A m \in Locks : t[k] = Lock(m) => Rank(l) < Rank(m)
      BY <2>2 DEF Above
    <3>2. t[k] = Send => Rank(l) < ChannelRank
      BY <2>2 DEF Above
    <3> QED BY <1>9, <3>1, <3>2, RankType DEF ChannelRank
  <2> QED BY <1>2, <2>1, <2>2
<1>10. Single(t)
  <2> SUFFICES ASSUME NEW m \in Locks, NEW k \in 1 .. Len(t), t[k] = Unlock(m), HeldAt(t, k + 1, m)
               PROVE  FALSE
    BY DEF Single
  <2>1. k # 1
    BY <1>1, StepsDiffer
  <2>2. k # Len(s) + 2
    <3>1. k = Len(s) + 2 => k + 1 .. Len(t) = {}
      BY <1>1
    <3> QED BY <3>1, NothingHeldAtEnd
  <2>3. k - 1 \in 1 .. Len(s) /\ s[k - 1] = Unlock(m) /\ k \in 1 .. Len(s) + 1
    BY <1>1, <1>2, <2>1, <2>2
  <2>4. m = l \/ HeldAt(s, k, m)
    BY <1>4, <2>3
  <2>5. m # l
    <3>1. k - 1 \in 1 .. Len(s) /\ \A i \in 1 .. (k - 1) - 1 : i \in 1 .. Len(s)
      BY <1>1, <2>3
    <3>2. m = l => HeldAt(s, 1, l)
      BY <1>3, <2>3, <3>1 DEF HeldAt
    <3> QED BY <3>2 DEF Whole
  <2>6. HeldAt(s, (k - 1) + 1, m)
    BY <2>3, <2>4, <2>5
  <2> QED BY <2>3, <2>6 DEF Whole, Good, Single
<1> QED BY <1>1, <1>6, <1>7, <1>8, <1>9, <1>10 DEF Whole, Good, t

LEMMA ConcatIsWhole ==
  ASSUME NEW a, NEW b, NEW n, Whole(a), Whole(b), Above(a, n), Above(b, n)
  PROVE  Whole(a \o b) /\ Above(a \o b, n)
<1> DEFINE t == a \o b
<1>1. /\ a \in Seq(Steps) /\ b \in Seq(Steps) /\ Len(a) \in Nat /\ Len(b) \in Nat
  BY DEF Whole, Good
<1>2. /\ t \in Seq(Steps) /\ Len(t) = Len(a) + Len(b)
      /\ \A i \in 1 .. Len(a) + Len(b) : t[i] = IF i <= Len(a) THEN a[i] ELSE b[i - Len(a)]
  BY <1>1, ConcatProperties, Zenon
<1> HIDE DEF t
<1>3. \A i \in 1 .. Len(a) : t[i] = a[i] /\ i \in 1 .. Len(t)
  BY <1>1, <1>2
<1>4. \A i \in 1 .. Len(t) : i \notin 1 .. Len(a) => i - Len(a) \in 1 .. Len(b) /\ t[i] = b[i - Len(a)]
  BY <1>1, <1>2
<1>5. ASSUME NEW i \in 1 .. Len(b) PROVE i + Len(a) \in 1 .. Len(t) /\ t[i + Len(a)] = b[i]
  <2>1. /\ i + Len(a) \in 1 .. Len(t) /\ i + Len(a) \in 1 .. Len(a) + Len(b)
        /\ ~(i + Len(a) <= Len(a)) /\ (i + Len(a)) - Len(a) = i
    BY <1>1, <1>2
  <2> QED BY <1>2, <2>1
(* A lock held in a place of t is held by the part the place is in.         *)
<1>6. ASSUME NEW l \in Locks, NEW k \in 1 .. Len(a), HeldAt(t, k, l) PROVE HeldAt(a, k, l)
  <2>1. PICK j \in k .. Len(t) : t[j] = Unlock(l) /\ \A i \in k .. j - 1 : t[i] # Lock(l)
    BY <1>6 DEF HeldAt
  <2>2. CASE j \in 1 .. Len(a)
    <3>1. j \in k .. Len(a) /\ a[j] = Unlock(l)
      BY <1>3, <2>1, <2>2
    <3>2. ASSUME NEW i \in k .. j - 1 PROVE a[i] # Lock(l)
      <4>1. i \in 1 .. Len(a)
        BY <1>1, <2>2
      <4> QED BY <1>3, <2>1, <4>1
    <3> QED BY <3>1, <3>2 DEF HeldAt
  <2>3. CASE j \notin 1 .. Len(a)
    <3>1. j \in 1 .. Len(t)
      BY <1>1
    <3>2. j - Len(a) \in 1 .. Len(b) /\ b[j - Len(a)] = Unlock(l)
      BY <1>4, <2>1, <2>3, <3>1
    <3>3. ASSUME NEW i \in 1 .. (j - Len(a)) - 1 PROVE b[i] # Lock(l)
      <4>1. i \in 1 .. Len(b) /\ i + Len(a) \in k .. j - 1
        BY <1>1, <3>2
      <4> QED BY <1>5, <2>1, <4>1
    <3>4. HeldAt(b, 1, l)
      BY <3>2, <3>3 DEF HeldAt
    <3> QED BY <3>4 DEF Whole
  <2> QED BY <2>2, <2>3
<1>7. ASSUME NEW l \in Locks, NEW k \in 1 .. Len(b), HeldAt(t, k + Len(a), l) PROVE HeldAt(b, k, l)
  <2>1. PICK j \in k + Len(a) .. Len(t) :
          t[j] = Unlock(l) /\ \A i \in k + Len(a) .. j - 1 : t[i] # Lock(l)
    BY <1>7 DEF HeldAt
  <2>2. j \in 1 .. Len(t) /\ j \notin 1 .. Len(a) /\ j - Len(a) \in k .. Len(b)
    BY <1>1, <1>2
  <2>3. b[j - Len(a)] = Unlock(l)
    BY <1>4, <2>1, <2>2
  <2>4. ASSUME NEW i \in k .. (j - Len(a)) - 1 PROVE b[i] # Lock(l)
    <3>1. i \in 1 .. Len(b) /\ i + Len(a) \in k + Len(a) .. j - 1
      BY <1>1, <2>2
    <3> QED BY <1>5, <2>1, <3>1
  <2> QED BY <2>2, <2>3, <2>4 DEF HeldAt
<1>8. ASSUME NEW l \in Locks, NEW k \in 1 .. Len(a) + 1, HeldAt(a, k, l) PROVE HeldAt(t, k, l)
  <2>1. PICK j \in k .. Len(a) : a[j] = Unlock(l) /\ \A i \in k .. j - 1 : a[i] # Lock(l)
    BY <1>8 DEF HeldAt
  <2>2. j \in k .. Len(t) /\ t[j] = Unlock(l)
    BY <1>1, <1>2, <1>3, <2>1
  <2>3. ASSUME NEW i \in k .. j - 1 PROVE t[i] # Lock(l)
    <3>1. i \in 1 .. Len(a)
      BY <1>1
    <3> QED BY <1>3, <2>1, <3>1
  <2> QED BY <2>2, <2>3 DEF HeldAt
<1>9. ASSUME NEW l \in Locks, NEW k \in 1 .. Len(b) + 1, HeldAt(b, k, l) PROVE HeldAt(t, k + Len(a), l)
  <2>1. PICK j \in k .. Len(b) : b[j] = Unlock(l) /\ \A i \in k .. j - 1 : b[i] # Lock(l)
    BY <1>9 DEF HeldAt
  <2>2. j \in 1 .. Len(b)
    BY <1>1
  <2>3. j + Len(a) \in k + Len(a) .. Len(t) /\ t[j + Len(a)] = Unlock(l)
    BY <1>1, <1>2, <1>5, <2>1, <2>2
  <2>4. ASSUME NEW i \in k + Len(a) .. (j + Len(a)) - 1 PROVE t[i] # Lock(l)
    <3>1. i \in 1 .. Len(t) /\ i \notin 1 .. Len(a) /\ i - Len(a) \in k .. j - 1
      BY <1>1, <1>2, <2>2
    <3> QED BY <1>4, <2>1, <3>1
  <2> QED BY <2>3, <2>4 DEF HeldAt
<1>10. \A l \in Locks : ~HeldAt(t, 1, l)
  <2> SUFFICES ASSUME NEW l \in Locks, HeldAt(t, 1, l) PROVE FALSE
    OBVIOUS
  <2>1. CASE Len(a) = 0
    <3>1. PICK j \in 1 .. Len(t) : TRUE
      BY DEF HeldAt
    <3>2. 1 \in 1 .. Len(b) /\ 1 + Len(a) = 1
      BY <1>1, <1>2, <2>1, <3>1
    <3> QED BY <1>7, <3>2 DEF Whole
  <2>2. CASE Len(a) # 0
    <3>1. 1 \in 1 .. Len(a)
      BY <1>1, <2>2
    <3> QED BY <1>6, <3>1 DEF Whole
  <2> QED BY <2>1, <2>2
<1>11. Paired(t)
  <2> SUFFICES ASSUME NEW l \in Locks, NEW k \in 1 .. Len(t), t[k] = Lock(l) PROVE HeldAt(t, k + 1, l)
    BY DEF Paired
  <2>1. CASE k \in 1 .. Len(a)
    <3>1. HeldAt(a, k + 1, l)
      BY <1>3, <2>1 DEF Whole, Good, Paired
    <3>2. k + 1 \in 1 .. Len(a) + 1
      BY <1>1, <2>1
    <3> QED BY <1>8, <3>1, <3>2
  <2>2. CASE k \notin 1 .. Len(a)
    <3>1. k - Len(a) \in 1 .. Len(b) /\ b[k - Len(a)] = Lock(l)
      BY <1>4, <2>2
    <3>2. HeldAt(b, (k - Len(a)) + 1, l)
      BY <3>1 DEF Whole, Good, Paired
    <3>3. (k - Len(a)) + 1 \in 1 .. Len(b) + 1 /\ ((k - Len(a)) + 1) + Len(a) = k + 1
      BY <1>1, <3>1
    <3> QED BY <1>9, <3>2, <3>3
  <2> QED BY <2>1, <2>2
<1>12. Rising(t)
  <2> SUFFICES ASSUME NEW l \in Locks, NEW k \in 1 .. Len(t), HeldAt(t, k, l)
               PROVE  /\ \A m \in Locks : t[k] = Lock(m) => Rank(l) < Rank(m)
                      /\ t[k] = Send => Rank(l) < ChannelRank
    BY DEF Rising
  <2>1. CASE k \in 1 .. Len(a)
    <3>1. HeldAt(a, k, l) /\ t[k] = a[k]
      BY <1>3, <1>6, <2>1
    <3> QED BY <2>1, <3>1 DEF Whole, Good, Rising
  <2>2. CASE k \notin 1 .. Len(a)
    <3>1. k - Len(a) \in 1 .. Len(b) /\ t[k] = b[k - Len(a)] /\ (k - Len(a)) + Len(a) = k
      BY <1>1, <1>4, <2>2
    <3>2. HeldAt(b, k - Len(a), l)
      BY <1>7, <3>1
    <3> QED BY <3>1, <3>2 DEF Whole, Good, Rising
  <2> QED BY <2>1, <2>2
<1>13. Above(t, n)
  <2> SUFFICES ASSUME NEW k \in 1 .. Len(t)
               PROVE  /\ \A m \in Locks : t[k] = Lock(m) => n < Rank(m)
                      /\ t[k] = Send => n < ChannelRank
    BY DEF Above
  <2> QED BY <1>3, <1>4 DEF Above
<1>14. Single(t)
  <2> SUFFICES ASSUME NEW l \in Locks, NEW k \in 1 .. Len(t), t[k] = Unlock(l), HeldAt(t, k + 1, l)
               PROVE  FALSE
    BY DEF Single
  <2>1. k # Len(t)
    <3>1. k = Len(t) => k + 1 .. Len(t) = {}
      BY <1>1, <1>2
    <3> QED BY <3>1, NothingHeldAtEnd
  <2>2. CASE k + 1 \in 1 .. Len(a)
    <3>1. k \in 1 .. Len(a) /\ a[k] = Unlock(l)
      BY <1>1, <1>3, <2>2
    <3>2. HeldAt(a, k + 1, l)
      BY <1>6, <2>2
    <3> QED BY <3>1, <3>2 DEF Whole, Good, Single
  <2>3. CASE k = Len(a)
    <3>1. 1 \in 1 .. Len(b) /\ k + 1 = 1 + Len(a)
      BY <1>1, <1>2, <2>1, <2>3
    <3>2. HeldAt(b, 1, l)
      BY <1>7, <3>1
    <3> QED BY <3>2 DEF Whole
  <2>4. CASE k \notin 1 .. Len(a)
    <3>1. k - Len(a) \in 1 .. Len(b) /\ b[k - Len(a)] = Unlock(l)
      BY <1>4, <2>4
    <3>2. (k - Len(a)) + 1 \in 1 .. Len(b) /\ ((k - Len(a)) + 1) + Len(a) = k + 1
      BY <1>1, <1>2, <2>1, <3>1
    <3>3. HeldAt(b, (k - Len(a)) + 1, l)
      BY <1>7, <3>2
    <3> QED BY <3>1, <3>3 DEF Whole, Good, Single
  <2>5. k + 1 \in 1 .. Len(a) \/ k = Len(a) \/ k \notin 1 .. Len(a)
    BY <1>1
  <2> QED BY <2>2, <2>3, <2>4, <2>5
<1> QED BY <1>2, <1>10, <1>11, <1>12, <1>13, <1>14 DEF Whole, Good, t

LEMMA BracketIs ==
  ASSUME NEW l \in Locks
  PROVE  Whole(With(l, <<>>)) /\ \A n \in Nat : n < Rank(l) => Above(With(l, <<>>), n)
BY EmptyIsWhole, WithIsWhole

LEMMA SnapshotIsWhole == \A c \in Snapshot : Whole(c)
<1> SUFFICES ASSUME NEW gauges \in {GetMyHealth \o GetPeerHealth, GetPeerHealth \o GetMyHealth}
             PROVE  Whole(With("hm", With("gm", With("cm", gauges))))
  BY DEF Snapshot
<1>1. \A l \in {"hm", "gm", "cm", "peerHealthLock", "myHealthLock"} : l \in Locks
  BY LocksAre
<1>2. /\ Whole(GetMyHealth) /\ Whole(GetPeerHealth)
      /\ Above(GetMyHealth, 3) /\ Above(GetPeerHealth, 3)
  BY <1>1, BracketIs, RankType DEF GetMyHealth, GetPeerHealth
<1>3. Whole(gauges) /\ Above(gauges, 3)
  BY <1>2, ConcatIsWhole
<1>4. Whole(With("cm", gauges)) /\ Above(With("cm", gauges), 2)
  BY <1>1, <1>3, WithIsWhole, RankType
<1>5. Whole(With("gm", With("cm", gauges))) /\ Above(With("gm", With("cm", gauges)), 1)
  BY <1>1, <1>4, WithIsWhole, RankType
<1> QED BY <1>1, <1>5, WithIsWhole, RankType

LEMMA OthersAreWhole ==
  /\ Whole(CounterAddN) /\ Whole(GaugeSet) /\ Whole(CounterSetBatchFunc) /\ Whole(Reset)
  /\ \A c \in SetPeerHealth : Whole(c)
  /\ \A c \in HandleMessage : Whole(c) /\ Above(c, ChannelRank)
  /\ Whole(<<Send>>)
<1>1. \A l \in {"hm", "gm", "cm", "peerHealthLock", "myHealthLock"} : l \in Locks
  BY LocksAre
<1>2. /\ Whole(CounterAddN) /\ Above(CounterAddN, 2)
      /\ Whole(GaugeSet)
  BY <1>1, BracketIs, RankType DEF CounterAddN, GaugeSet
<1>3. Whole(CounterSetBatchFunc) /\ Above(CounterSetBatchFunc, 1)
  BY <1>1, <1>2, WithIsWhole, RankType DEF CounterSetBatchFunc, CounterAddN
<1>4. Whole(Reset)
  BY <1>1, <1>3, WithIsWhole, RankType DEF Reset, CounterSetBatchFunc
<1>5. Whole(<<Send>>) /\ Above(<<Send>>, 4)
  BY SendIsWhole DEF ChannelRank
<1>6. \A c \in SetPeerHealth : Whole(c)
  BY <1>1, <1>5, BracketIs, WithIsWhole, RankType DEF SetPeerHealth
<1>7. \A c \in HandleMessage : Whole(c) /\ Above(c, ChannelRank)
  BY <1>1, BracketIs, EmptyIsWhole, RankType DEF HandleMessage, ChannelRank
<1> QED BY <1>2, <1>3, <1>4, <1>5, <1>6, <1>7

LEMMA CallsAreWhole ==
  ASSUME NEW g \in Goroutines, NEW c \in Calls(g)
  PROVE  Whole(c) /\ g # Monitor
<1>1. CASE g = Gatherer
  BY <1>1, SnapshotIsWhole, OthersAreWhole, GoroutinesDistinct DEF Calls
<1>2. CASE g = Health
  BY <1>2, OthersAreWhole, GoroutinesDistinct DEF Calls
<1>3. CASE g = Monitor
  BY <1>3, GoroutinesDistinct DEF Calls
<1>4. CASE g \in Callers
  <2>1. g \notin {Gatherer, Health, Monitor}
    BY <1>4, GoroutinesDistinct
  <2> QED BY <2>1, OthersAreWhole DEF Calls
<1> QED BY <1>1, <1>2, <1>3, <1>4 DEF Goroutines

-----------------------------------------------------------------------------
(* Taking a step of a call.                                                *)

LEMMA TailIs ==
  ASSUME NEW t, Good(t), t # <<>>
  PROVE  /\ Good(Tail(t))
         /\ \A l \in Locks : HeldAt(t, 2, l) <=> HeldAt(Tail(t), 1, l)
         /\ \A n : Above(t, n) => Above(Tail(t), n)
         /\ Len(t) \in Nat \ {0} /\ Head(t) = t[1]
<1>1. /\ t \in Seq(Steps) /\ Len(t) \in Nat \ {0} /\ Head(t) = t[1]
      /\ Tail(t) \in Seq(Steps) /\ Len(Tail(t)) = Len(t) - 1
      /\ \A k \in 1 .. Len(t) - 1 : Tail(t)[k] = t[k + 1]
  BY DEF Good
<1>2. ASSUME NEW l \in Locks, NEW k \in 1 .. Len(t), HeldAt(t, k + 1, l)
      PROVE  HeldAt(Tail(t), k, l)
  <2>1. PICK j \in k + 1 .. Len(t) : t[j] = Unlock(l) /\ \A i \in k + 1 .. j - 1 : t[i] # Lock(l)
    BY <1>2 DEF HeldAt
  <2>2. j - 1 \in k .. Len(Tail(t)) /\ j - 1 \in 1 .. Len(t) - 1 /\ (j - 1) + 1 = j
    BY <1>1
  <2>3. Tail(t)[j - 1] = Unlock(l)
    BY <1>1, <2>1, <2>2
  <2>4. ASSUME NEW i \in k .. (j - 1) - 1 PROVE Tail(t)[i] # Lock(l)
    <3>1. i \in 1 .. Len(t) - 1 /\ i + 1 \in k + 1 .. j - 1
      BY <1>1
    <3> QED BY <1>1, <2>1, <3>1
  <2> QED BY <2>2, <2>3, <2>4 DEF HeldAt
<1>3. ASSUME NEW l \in Locks, NEW k \in 1 .. Len(Tail(t)), HeldAt(Tail(t), k, l)
      PROVE  HeldAt(t, k + 1, l)
  <2>1. PICK j \in k .. Len(Tail(t)) : Tail(t)[j] = Unlock(l) /\ \A i \in k .. j - 1 : Tail(t)[i] # Lock(l)
    BY <1>3 DEF HeldAt
  <2>2. j + 1 \in k + 1 .. Len(t) /\ t[j + 1] = Unlock(l)
    BY <1>1, <2>1
  <2>3. ASSUME NEW i \in k + 1 .. (j + 1) - 1 PROVE t[i] # Lock(l)
    <3>1. i - 1 \in k .. j - 1 /\ i - 1 \in 1 .. Len(t) - 1 /\ (i - 1) + 1 = i
      BY <1>1
    <3> QED BY <1>1, <2>1, <3>1
  <2> QED BY <2>2, <2>3 DEF HeldAt
<1>4. Paired(Tail(t))
  <2> SUFFICES ASSUME NEW l \in Locks, NEW k \in 1 .. Len(Tail(t)), Tail(t)[k] = Lock(l)
               PROVE  HeldAt(Tail(t), k + 1, l)
    BY DEF Paired
  <2>1. k + 1 \in 1 .. Len(t) /\ t[k + 1] = Lock(l)
    BY <1>1
  <2>2. HeldAt(t, (k + 1) + 1, l)
    BY <2>1 DEF Good, Paired
  <2> QED BY <1>2, <2>1, <2>2
<1>5. Rising(Tail(t))
  <2> SUFFICES ASSUME NEW l \in Locks, NEW k \in 1 .. Len(Tail(t)), HeldAt(Tail(t), k, l)
               PROVE  /\ \A m \in Locks : Tail(t)[k] = Lock(m) => Rank(l) < Rank(m)
                      /\ Tail(t)[k] = Send => Rank(l) < ChannelRank
    BY DEF Rising
  <2>1. k + 1 \in 1 .. Len(t) /\ t[k + 1] = Tail(t)[k]
    BY <1>1
  <2>2. HeldAt(t, k + 1, l)
    BY <1>3
  <2> QED BY <2>1, <2>2 DEF Good, Rising
<1>6. ASSUME NEW n, Above(t, n) PROVE Above(Tail(t), n)
  <2>1. ASSUME NEW k \in 1 .. Len(Tail(t)) PROVE k + 1 \in 1 .. Len(t) /\ t[k + 1] = Tail(t)[k]
    BY <1>1
  <2> QED BY <1>6, <2>1 DEF Above
<1>7. ASSUME NEW l \in Locks, HeldAt(t, 2, l) PROVE HeldAt(Tail(t), 1, l)
  <2>1. 1 \in 1 .. Len(t) /\ 1 + 1 = 2
    BY <1>1
  <2> QED BY <1>2, <1>7, <2>1
<1>8. ASSUME NEW l \in Locks, HeldAt(Tail(t), 1, l) PROVE HeldAt(t, 2, l)
  <2>1. 1 .. Len(Tail(t)) # {}
    BY <1>8 DEF HeldAt
  <2>2. 1 \in 1 .. Len(Tail(t)) /\ 1 + 1 = 2
    BY <1>1, <2>1
  <2> QED BY <1>3, <1>8, <2>2
<1>9. Single(Tail(t))
  <2> SUFFICES ASSUME NEW l \in Locks, NEW k \in 1 .. Len(Tail(t)), Tail(t)[k] = Unlock(l),
                      HeldAt(Tail(t), k + 1, l)
               PROVE  FALSE
    BY DEF Single
  <2>1. k + 1 .. Len(Tail(t)) # {}
    BY NothingHeldAtEnd
  <2>2. k + 1 \in 1 .. Len(Tail(t)) /\ k + 1 \in 1 .. Len(t) /\ t[k + 1] = Unlock(l)
    BY <1>1, <2>1
  <2>3. HeldAt(t, (k + 1) + 1, l)
    BY <1>3, <2>2
  <2> QED BY <2>2, <2>3 DEF Good, Single
<1> QED BY <1>1, <1>4, <1>5, <1>6, <1>7, <1>8, <1>9 DEF Good

LEMMA HeadIs ==
  ASSUME NEW t, Good(t), t # <<>>, NEW l \in Locks
  PROVE  /\ Head(t) = Lock(l) => HeldAt(t, 2, l)
         /\ HeldAt(t, 1, l) /\ Head(t) # Unlock(l) => HeldAt(t, 2, l)
         /\ HeldAt(t, 2, l) => Head(t) # Unlock(l)
         /\ HeldAt(t, 2, l) /\ Head(t) # Lock(l) => HeldAt(t, 1, l)
         /\ Head(t) = Unlock(l) => HeldAt(t, 1, l)
         /\ \A m \in Locks : HeldAt(t, 1, l) /\ Head(t) = Lock(m) => Rank(l) < Rank(m)
         /\ HeldAt(t, 1, l) /\ Head(t) = Send => Rank(l) < ChannelRank
<1>1. Len(t) \in Nat \ {0} /\ Head(t) = t[1] /\ 1 \in 1 .. Len(t) /\ 1 + 1 = 2
  BY TailIs
<1>2. t[1] = Lock(l) => HeldAt(t, 2, l)
  <2>1. t[1] = Lock(l) => HeldAt(t, 1 + 1, l)
    BY <1>1 DEF Good, Paired
  <2> QED BY <1>1, <2>1
<1>3. ASSUME HeldAt(t, 1, l), t[1] # Unlock(l) PROVE HeldAt(t, 2, l)
  <2>1. PICK j \in 1 .. Len(t) : t[j] = Unlock(l) /\ \A i \in 1 .. j - 1 : t[i] # Lock(l)
    BY <1>3 DEF HeldAt
  <2>2. j \in 2 .. Len(t)
    BY <1>1, <1>3, <2>1
  <2> QED BY <2>1, <2>2 DEF HeldAt
<1>4. ASSUME HeldAt(t, 2, l) PROVE t[1] # Unlock(l)
  <2>1. HeldAt(t, 1 + 1, l)
    BY <1>1, <1>4
  <2> QED BY <1>1, <2>1 DEF Good, Single
<1>5. ASSUME HeldAt(t, 2, l), t[1] # Lock(l) PROVE HeldAt(t, 1, l)
  <2>1. PICK j \in 2 .. Len(t) : t[j] = Unlock(l) /\ \A i \in 2 .. j - 1 : t[i] # Lock(l)
    BY <1>5 DEF HeldAt
  <2>2. j \in 1 .. Len(t) /\ \A i \in 1 .. j - 1 : i = 1 \/ i \in 2 .. j - 1
    BY <1>1
  <2>3. \A i \in 1 .. j - 1 : t[i] # Lock(l)
    BY <1>5, <2>1, <2>2
  <2> QED BY <2>1, <2>2, <2>3 DEF HeldAt
<1>6. ASSUME t[1] = Unlock(l) PROVE HeldAt(t, 1, l)
  <2>1. 1 .. 1 - 1 = {}
    OBVIOUS
  <2> QED BY <1>1, <1>6, <2>1 DEF HeldAt
<1> QED BY <1>1, <1>2, <1>3, <1>4, <1>5, <1>6 DEF Good, Rising

-----------------------------------------------------------------------------
LEMMA InvInit == Init => Inv
<1> SUFFICES ASSUME Init PROVE Inv
  OBVIOUS
<1>1. /\ todo = [g \in Goroutines |-> <<>>] /\ Monitor \in Goroutines
      /\ holder = [l \in Locks |-> {}]
  BY DEF Init, Goroutines
<1>2. \A g \in Goroutines : Good(todo[g]) /\ todo[g] \in Seq(Steps)
  BY <1>1, EmptyIsWhole DEF Whole, Good
<1>3. MonitorOK
  BY <1>1, EmptyIsWhole DEF MonitorOK
<1>4. \A l \in Locks : \A g \in Goroutines : ~HeldAt(todo[g], 1, l)
  BY <1>1, EmptyIsWhole DEF Whole
<1> QED BY <1>1, <1>2, <1>3, <1>4 DEF Inv, TypeOK, HoldersOK, OwnersOK

LEMMA CallKeeps == ASSUME Inv, NEW g \in Goroutines, Call(g) PROVE Inv'
<1>1. PICK c \in Calls(g) : todo' = [todo EXCEPT ![g] = c]
  BY DEF Call
<1>2. todo[g] = <<>> /\ holder' = holder /\ Whole(c) /\ g # Monitor
  BY CallsAreWhole DEF Call
<1>3. \A h \in Goroutines : todo'[h] = IF h = g THEN c ELSE todo[h]
  BY <1>1 DEF Inv, TypeOK
<1>4. c \in Seq(Steps) /\ \A h \in Goroutines : Good(todo'[h])
  BY <1>2, <1>3 DEF Inv, Whole, Good
<1>5. TypeOK'
  BY <1>1, <1>2, <1>4 DEF Inv, TypeOK
<1>6. ASSUME NEW l \in Locks, NEW h \in holder[l] PROVE HeldAt(todo'[h], 1, l) 
  <2>1. HeldAt(todo[h], 1, l) /\ h \in Goroutines
    BY DEF Inv, HoldersOK, TypeOK
  <2>2. h # g
    <3>1. Len(<<>>) = 0
      OBVIOUS
    <3> QED BY <1>2, <2>1, <3>1 DEF HeldAt
  <2> QED BY <1>3, <2>1, <2>2
<1>7. MonitorOK'
  BY <1>2, <1>3 DEF Inv, MonitorOK, Goroutines
<1>8. ASSUME NEW l \in Locks, NEW h \in Goroutines, HeldAt(todo'[h], 1, l) PROVE h \in holder[l]
  <2>1. h # g
    BY <1>2, <1>3, <1>8 DEF Whole
  <2> QED BY <1>3, <1>8, <2>1 DEF Inv, OwnersOK
<1> QED BY <1>2, <1>4, <1>5, <1>6, <1>7, <1>8 DEF Inv, HoldersOK, OwnersOK

LEMMA StepFacts ==
  ASSUME Inv, NEW g \in Goroutines, todo[g] # <<>>
  PROVE  /\ TypeOK /\ HoldersOK /\ OwnersOK /\ MonitorOK /\ Good(todo[g])
         /\ Tail(todo[g]) \in Seq(Steps) /\ Good(Tail(todo[g]))
BY TailIs DEF Inv, Good

(* g takes the first step of its call and everybody else stays.             *)
LEMMA TakeKeeps ==
  ASSUME Inv, NEW g \in Goroutines, todo[g] # <<>>, todo' = [todo EXCEPT ![g] = Tail(todo[g])],
         holder' \in [Locks -> {{}} \cup {{h} : h \in Goroutines}],
         \A l \in Locks : \A h \in holder'[l] :
           IF h = g THEN HeldAt(todo[g], 2, l) ELSE h \in holder[l],
         \A l \in Locks :
           /\ HeldAt(todo[g], 2, l) => g \in holder'[l]
           /\ \A h \in holder[l] : h # g => h \in holder'[l]
  PROVE  Inv'
<1>1. /\ TypeOK /\ HoldersOK /\ OwnersOK /\ MonitorOK /\ Good(todo[g])
      /\ Tail(todo[g]) \in Seq(Steps) /\ Good(Tail(todo[g]))
  BY StepFacts
<1>2. \A h \in Goroutines : todo'[h] = IF h = g THEN Tail(todo[g]) ELSE todo[h]
  BY <1>1 DEF TypeOK
<1>3. TypeOK'
  BY <1>1 DEF TypeOK
<1>4. \A h \in Goroutines : Good(todo'[h])
  BY <1>1, <1>2 DEF Inv
<1>5. HoldersOK'
  <2> SUFFICES ASSUME NEW l \in Locks, NEW h \in holder'[l] PROVE HeldAt(todo'[h], 1, l)
    BY DEF HoldersOK
  <2>1. h \in Goroutines
    OBVIOUS
  <2>2. CASE h = g
    <3>1. HeldAt(todo[g], 2, l)
      BY <2>2
    <3>2. HeldAt(Tail(todo[g]), 1, l)
      BY <1>1, <3>1, TailIs
    <3> QED BY <1>2, <2>1, <2>2, <3>2, Zenon
  <2>3. CASE h # g
    BY <1>1, <1>2, <2>1, <2>3 DEF HoldersOK
  <2> QED BY <2>2, <2>3
<1>6. MonitorOK'
  <2>1. Monitor \in Goroutines
    BY DEF Goroutines
  <2>2. CASE g = Monitor
    BY <1>1, <1>2, <2>1, <2>2, TailIs DEF MonitorOK
  <2>3. CASE g # Monitor
    BY <1>1, <1>2, <2>1, <2>3 DEF MonitorOK
  <2> QED BY <2>2, <2>3
<1>7. OwnersOK'
  <2> SUFFICES ASSUME NEW l \in Locks, NEW h \in Goroutines, HeldAt(todo'[h], 1, l)
               PROVE  h \in holder'[l]
    BY DEF OwnersOK
  <2>1. CASE h = g
    <3>1. HeldAt(Tail(todo[g]), 1, l)
      BY <1>2, <2>1
    <3>2. HeldAt(todo[g], 2, l)
      BY <1>1, <3>1, TailIs
    <3> QED BY <2>1, <3>2
  <2>2. CASE h # g
    <3>1. h \in holder[l]
      BY <1>1, <1>2, <2>2 DEF OwnersOK
    <3> QED BY <2>2, <3>1
  <2> QED BY <2>1, <2>2
<1> QED BY <1>3, <1>4, <1>5, <1>6, <1>7 DEF Inv

LEMMA AcquireKeeps == ASSUME Inv, NEW g \in Goroutines, NEW l \in Locks, Acquire(g, l) PROVE Inv'
<1>1. /\ todo[g] # <<>> /\ Head(todo[g]) = Lock(l) /\ holder[l] = {}
      /\ holder' = [holder EXCEPT ![l] = holder[l] \cup {g}]
      /\ todo' = [todo EXCEPT ![g] = Tail(todo[g])]
  BY Zenon DEF Acquire, IsNext
<1>2. TypeOK /\ HoldersOK /\ OwnersOK /\ Good(todo[g])
  BY <1>1, StepFacts
<1>3. \A m \in Locks : holder'[m] = IF m = l THEN {g} ELSE holder[m]
  BY <1>1, <1>2 DEF TypeOK
<1>4. holder' \in [Locks -> {{}} \cup {{h} : h \in Goroutines}]
  <2>1. holder[l] \cup {g} = {g}
    BY <1>1
  <2> QED BY <1>1, <1>2, <2>1 DEF TypeOK
<1>5. ASSUME NEW m \in Locks, NEW h \in holder'[m]
      PROVE  IF h = g THEN HeldAt(todo[g], 2, m) ELSE h \in holder[m]
  <2>1. CASE m = l
    BY <1>1, <1>2, <1>3, <2>1, HeadIs
  <2>2. CASE m # l
    <3>1. h \in holder[m] /\ HeldAt(todo[h], 1, m)
      BY <1>2, <1>3, <2>2 DEF HoldersOK
    <3>2. Head(todo[g]) # Unlock(m)
      BY <1>1, StepsDiffer
    <3> QED BY <1>1, <1>2, <3>1, <3>2, HeadIs
  <2> QED BY <2>1, <2>2
<1>6. ASSUME NEW m \in Locks
      PROVE  /\ HeldAt(todo[g], 2, m) => g \in holder'[m]
             /\ \A h \in holder[m] : h # g => h \in holder'[m]
  <2>1. CASE m = l
    BY <1>1, <1>3, <2>1
  <2>2. CASE m # l
    <3>1. Head(todo[g]) # Lock(m)
      BY <1>1, <2>2, StepsDiffer
    <3>2. HeldAt(todo[g], 2, m) => HeldAt(todo[g], 1, m)
      BY <1>1, <1>2, <3>1, HeadIs
    <3> QED BY <1>2, <1>3, <2>2, <3>2 DEF OwnersOK
  <2> QED BY <2>1, <2>2
<1> QED BY <1>1, <1>4, <1>5, <1>6, TakeKeeps

(* A lock that is unlocked next is held by the goroutine that does it.      *)
LEMMA UnlockerHolds ==
  ASSUME Inv, NEW g \in Goroutines, NEW l \in Locks, IsNext(g, Unlock(l))
  PROVE  holder[l] = {g}
<1>1. todo[g] # <<>> /\ Head(todo[g]) = Unlock(l)
  BY DEF IsNext
<1>2. TypeOK /\ OwnersOK /\ Good(todo[g])
  BY <1>1, StepFacts
<1>3. HeldAt(todo[g], 1, l)
  BY <1>1, <1>2, HeadIs
<1> QED BY <1>2, <1>3 DEF TypeOK, OwnersOK

LEMMA ReleaseKeeps == ASSUME Inv, NEW g \in Goroutines, NEW l \in Locks, Release(g, l) PROVE Inv'
<1>1. /\ todo[g] # <<>> /\ Head(todo[g]) = Unlock(l)
      /\ holder' = [holder EXCEPT ![l] = {}]
      /\ todo' = [todo EXCEPT ![g] = Tail(todo[g])]
  BY Zenon DEF Release, IsNext
<1>2. TypeOK /\ HoldersOK /\ Good(todo[g])
  BY <1>1, StepFacts
<1>3. \A m \in Locks : holder'[m] = IF m = l THEN {} ELSE holder[m]
  BY <1>1, <1>2 DEF TypeOK
<1>4. holder' \in [Locks -> {{}} \cup {{h} : h \in Goroutines}]
  BY <1>1, <1>2 DEF TypeOK
<1>5. ASSUME NEW m \in Locks, NEW h \in holder'[m]
      PROVE  IF h = g THEN HeldAt(todo[g], 2, m) ELSE h \in holder[m]
  <2>1. m # l /\ h \in holder[m] /\ HeldAt(todo[h], 1, m)
    BY <1>2, <1>3 DEF HoldersOK
  <2>2. Head(todo[g]) # Unlock(m)
    BY <1>1, <2>1, StepsDiffer
  <2> QED BY <1>1, <1>2, <2>1, <2>2, HeadIs
<1>6. ASSUME NEW m \in Locks
      PROVE  /\ HeldAt(todo[g], 2, m) => g \in holder'[m]
             /\ \A h \in holder[m] : h # g => h \in holder'[m]
  <2>1. CASE m = l
    <3>1. holder[l] = {g}
      BY <1>1, UnlockerHolds DEF IsNext
    <3>2. ~HeldAt(todo[g], 2, l)
      BY <1>1, <1>2, HeadIs
    <3> QED BY <2>1, <3>1, <3>2
  <2>2. CASE m # l
    <3>1. Head(todo[g]) # Lock(m)
      BY <1>1, StepsDiffer
    <3>2. HeldAt(todo[g], 2, m) => HeldAt(todo[g], 1, m)
      BY <1>1, <1>2, <3>1, HeadIs
    <3>3. OwnersOK
      BY <1>1, StepFacts
    <3> QED BY <1>3, <2>2, <3>2, <3>3 DEF OwnersOK
  <2> QED BY <2>1, <2>2
<1> QED BY <1>1, <1>4, <1>5, <1>6, TakeKeeps

LEMMA ReceiveKeeps == ASSUME Inv, NEW g \in Goroutines, Receive(g) PROVE Inv'
<1>1. PICK handler \in HandleMessage :
        todo' = [todo EXCEPT ![g] = Tail(todo[g]), ![Monitor] = handler]
  BY DEF Receive
<1>2. /\ todo[g] # <<>> /\ Head(todo[g]) = Send /\ todo[Monitor] = <<>> /\ holder' = holder
      /\ g # Monitor /\ Monitor \in Goroutines
  BY DEF Receive, IsNext, Goroutines
<1>3. /\ TypeOK /\ HoldersOK /\ OwnersOK /\ Good(todo[g])
      /\ Tail(todo[g]) \in Seq(Steps) /\ Good(Tail(todo[g]))
  BY <1>2, StepFacts
<1>4. /\ Good(handler) /\ handler \in Seq(Steps) /\ Above(handler, ChannelRank)
      /\ \A l \in Locks : ~HeldAt(handler, 1, l)
  BY OthersAreWhole DEF Whole, Good
<1>5. /\ todo' \in [Goroutines -> Seq(Steps)]
      /\ todo'[g] = Tail(todo[g]) /\ todo'[Monitor] = handler
      /\ \A h \in Goroutines \ {g, Monitor} : todo'[h] = todo[h]
  BY <1>1, <1>2, <1>3, <1>4 DEF TypeOK
<1>6. \A h \in Goroutines : Good(todo'[h])
  BY <1>3, <1>4, <1>5 DEF Inv
<1>7. ASSUME NEW l \in Locks, NEW h \in holder[l] PROVE HeldAt(todo'[h], 1, l)
  <2>1. HeldAt(todo[h], 1, l) /\ h \in Goroutines
    BY <1>3 DEF HoldersOK, TypeOK
  <2>2. CASE h = g
    <3>1. Head(todo[g]) # Unlock(l)
      BY <1>2, StepsDiffer
    <3>2. HeldAt(todo[g], 2, l)
      BY <1>2, <1>3, <2>1, <2>2, <3>1, HeadIs
    <3>3. HeldAt(Tail(todo[g]), 1, l)
      BY <1>2, <1>3, <3>2, TailIs
    <3> QED BY <1>5, <2>2, <3>3, Zenon
  <2>3. CASE h = Monitor
    <3>1. Len(<<>>) = 0
      OBVIOUS
    <3> QED BY <1>2, <2>1, <2>3, <3>1 DEF HeldAt
  <2>4. CASE h \notin {g, Monitor}
    BY <1>5, <2>1, <2>4
  <2> QED BY <2>2, <2>3, <2>4
<1>8. TypeOK' /\ MonitorOK'
  BY <1>2, <1>3, <1>4, <1>5 DEF TypeOK, MonitorOK
<1>9. ASSUME NEW l \in Locks, NEW h \in Goroutines, HeldAt(todo'[h], 1, l) PROVE h \in holder[l]
  <2>1. CASE h = g
    <3>1. HeldAt(Tail(todo[g]), 1, l)
      BY <1>5, <1>9, <2>1
    <3>2. HeldAt(todo[g], 2, l)
      BY <1>2, <1>3, <3>1, TailIs
    <3>3. Head(todo[g]) # Lock(l)
      BY <1>2, StepsDiffer
    <3>4. HeldAt(todo[g], 1, l)
      BY <1>2, <1>3, <3>2, <3>3, HeadIs
    <3> QED BY <1>3, <2>1, <3>4 DEF OwnersOK
  <2>2. h # Monitor
    BY <1>4, <1>5, <1>9
  <2>3. CASE h \notin {g, Monitor}
    BY <1>3, <1>5, <1>9, <2>3 DEF OwnersOK
  <2> QED BY <2>1, <2>2, <2>3
<1> QED BY <1>2, <1>6, <1>7, <1>8, <1>9 DEF Inv, HoldersOK, OwnersOK

LEMMA InvStep == Inv /\ [Next]_vars => Inv'
<1> SUFFICES ASSUME Inv, [Next]_vars PROVE Inv'
  OBVIOUS
<1>1. CASE UNCHANGED vars
  BY <1>1 DEF vars, Inv, TypeOK, HoldersOK, OwnersOK, MonitorOK
<1>2. ASSUME NEW g \in Goroutines, Call(g) \/ Step(g) PROVE Inv'
  BY <1>2, CallKeeps, AcquireKeeps, ReleaseKeeps, ReceiveKeeps DEF Step
<1> QED BY <1>1, <1>2 DEF Next

LEMMA InvHolds == Spec => []Inv
BY InvInit, InvStep, PTL DEF Spec

-----------------------------------------------------------------------------
(* What g waits for has rank n at least.                                    *)
AtLeast(g, n) ==
  /\ \A l \in Locks : IsNext(g, Lock(l)) => n <= Rank(l)
  /\ IsNext(g, Send) => n <= ChannelRank

(* Whoever is waited for waits for something higher, if for anything.       *)
LEMMA Upwards ==
  ASSUME Inv, NEW g \in Goroutines, NEW n \in Nat, AtLeast(g, n), NEW h \in WaitsFor(g)
  PROVE  h \in Goroutines /\ AtLeast(h, n + 1)
<1>0. TypeOK /\ HoldersOK /\ MonitorOK /\ \A x \in Goroutines : Good(todo[x])
  BY DEF Inv
<1>1. CASE \E l \in Locks : IsNext(g, Lock(l)) /\ h \in holder[l]
  <2>1. PICK l \in Locks : IsNext(g, Lock(l)) /\ h \in holder[l]
    BY <1>1
  <2>2. n <= Rank(l) /\ Rank(l) \in Nat
    BY <2>1, RankType DEF AtLeast
  <2>3. h \in Goroutines /\ HeldAt(todo[h], 1, l) /\ Good(todo[h])
    BY <1>0, <2>1 DEF TypeOK, HoldersOK
  <2>4. ASSUME NEW m \in Locks, IsNext(h, Lock(m)) PROVE n + 1 <= Rank(m)
    <3>1. Rank(l) < Rank(m)
      BY <2>3, <2>4, HeadIs DEF IsNext
    <3> QED BY <2>2, <3>1, RankType
  <2>5. ASSUME IsNext(h, Send) PROVE n + 1 <= ChannelRank
    <3>1. Rank(l) < ChannelRank
      BY <2>3, <2>5, HeadIs DEF IsNext
    <3> QED BY <2>2, <3>1 DEF ChannelRank
  <2> QED BY <2>3, <2>4, <2>5 DEF AtLeast
<1>2. CASE h = Monitor /\ IsNext(g, Send)
  <2>1. n <= ChannelRank /\ h \in Goroutines
    BY <1>2 DEF AtLeast, Goroutines
  <2>2. ASSUME todo[h] # <<>>
        PROVE  /\ \A m \in Locks : Head(todo[h]) = Lock(m) => ChannelRank < Rank(m)
               /\ Head(todo[h]) # Send
    <3>1. Head(todo[h]) = todo[h][1] /\ 1 \in 1 .. Len(todo[h])
      BY <1>0, <2>1, <2>2, TailIs
    <3> QED BY <1>0, <1>2, <3>1 DEF MonitorOK, Above, ChannelRank
  <2> QED BY <2>1, <2>2, RankType DEF AtLeast, IsNext, ChannelRank
<1> QED BY <1>1, <1>2 DEF WaitsFor

LEMMA NoCircle == Inv => NoCircularWait
<1> SUFFICES ASSUME Inv, NEW S \in SUBSET Goroutines, S # {},
                    \A g \in S : WaitsFor(g) \cap S # {}
             PROVE  FALSE
  BY DEF NoCircularWait
<1>1. ASSUME NEW n \in Nat, \E g \in S : AtLeast(g, n) PROVE \E g \in S : AtLeast(g, n + 1)
  <2>1. PICK g \in S : AtLeast(g, n)
    BY <1>1
  <2>2. PICK h \in S : h \in WaitsFor(g)
    OBVIOUS
  <2> QED BY <2>1, <2>2, Upwards
<1>2. \E g \in S : AtLeast(g, 0)
  BY RankType DEF AtLeast, ChannelRank
<1>3. \E g \in S : AtLeast(g, 3)
  <2>1. \E g \in S : AtLeast(g, 1)
    BY <1>1, <1>2
  <2>2. \E g \in S : AtLeast(g, 2)
    BY <1>1, <2>1
  <2> QED BY <1>1, <2>2
<1>4. \E g \in S : AtLeast(g, 6)
  <2>1. \E g \in S : AtLeast(g, 4)
    BY <1>1, <1>3
  <2>2. \E g \in S : AtLeast(g, 5)
    BY <1>1, <2>1
  <2> QED BY <1>1, <2>2
<1>5. PICK g \in S : AtLeast(g, 7)
  BY <1>1, <1>4
<1>6. WaitsFor(g) = {}
  BY <1>5, RankType DEF AtLeast, WaitsFor, ChannelRank
<1> QED BY <1>6

-----------------------------------------------------------------------------
(* Calls and holders are type correct, for any number of callers            *)
(* (metrics.go:40-66, health.go:66-86).                                     *)
THEOREM TypeCorrect == Spec => []TypeOK
<1>1. Inv => TypeOK
  BY DEF Inv
<1> QED BY <1>1, InvHolds, PTL

(* Goroutines never wait for each other in a circle, for any number of      *)
(* callers of the registry (metrics.go:288-289, health.go:322-351).         *)
THEOREM NoDeadlock == Spec => []NoCircularWait
BY NoCircle, InvHolds, PTL

-----------------------------------------------------------------------------
(* Go ends the process when a mutex is unlocked that is not locked: every   *)
(* unlock finds the lock held, and by the goroutine that releases it.       *)
UnlocksItsOwn ==
  \A g \in Goroutines, l \in Locks : IsNext(g, Unlock(l)) => holder[l] = {g}

(* No mutex of the registry or of the health task is ever unlocked by a     *)
(* goroutine that does not hold it (metrics.go:240-296, health.go:285-351). *)
THEOREM OnlyHoldersUnlock == Spec => []UnlocksItsOwn
<1>1. Inv => UnlocksItsOwn
  BY UnlockerHolds DEF UnlocksItsOwn
<1> QED BY <1>1, InvHolds, PTL

(* A goroutine that is in a call and is kept by nobody from its next step.  *)
CanStep(g) ==
  \/ \E l \in Locks : IsNext(g, Lock(l)) /\ holder[l] = {}
  \/ \E l \in Locks : IsNext(g, Unlock(l))
  \/ IsNext(g, Send) /\ todo[Monitor] = <<>>

(* Of goroutines that wait for nobody but each other, one can go on; all    *)
(* the goroutines in a call are such a set, and so are those one of them    *)
(* waits for, directly or not.                                              *)
SomeoneCanStep ==
  \A S \in SUBSET Goroutines :
    S # {} /\ (\A g \in S : todo[g] # <<>> /\ WaitsFor(g) \subseteq S)
      => \E g \in S : CanStep(g)

(* What keeps a goroutine from its next step is somebody it waits for.      *)
LEMMA BlockedWaits ==
  ASSUME Inv, NEW g \in Goroutines, todo[g] # <<>>, ~CanStep(g)
  PROVE  WaitsFor(g) # {}
<1>1. TypeOK /\ todo[g] \in Seq(Steps)
  BY DEF Inv, TypeOK
<1>2. Head(todo[g]) \in Steps
  BY <1>1
<1>3. CASE Head(todo[g]) = Send
  <2>1. IsNext(g, Send) /\ todo[Monitor] # <<>>
    BY <1>3 DEF IsNext, CanStep
  <2> QED BY <2>1 DEF WaitsFor
<1>4. CASE Head(todo[g]) # Send
  <2>1. PICK l \in Locks : Head(todo[g]) = Lock(l) \/ Head(todo[g]) = Unlock(l)
    BY <1>2, <1>4 DEF Steps, Lock, Unlock
  <2>2. IsNext(g, Lock(l)) /\ holder[l] # {}
    BY <2>1 DEF IsNext, CanStep
  <2> QED BY <2>2 DEF WaitsFor
<1> QED BY <1>3, <1>4

(* Whoever is waited for is in a call.                                      *)
LEMMA WaitedForIsBusy ==
  ASSUME Inv, NEW g \in Goroutines, NEW h \in WaitsFor(g)
  PROVE  h \in Goroutines /\ todo[h] # <<>>
<1>1. CASE \E l \in Locks : h \in holder[l]
  <2>1. PICK l \in Locks : h \in holder[l]
    BY <1>1
  <2>2. h \in Goroutines /\ HeldAt(todo[h], 1, l)
    BY <2>1 DEF Inv, TypeOK, HoldersOK
  <2>3. todo[h] = <<>> => 1 .. Len(todo[h]) = {}
    OBVIOUS
  <2> QED BY <2>2, <2>3, NothingHeldAtEnd
<1>2. CASE h = Monitor /\ todo[h] # <<>>
  BY <1>2 DEF Goroutines
<1> QED BY <1>1, <1>2 DEF WaitsFor

(* No deadlock, of all the goroutines or of some: whichever of them depend   *)
(* on each other, one can take its next step (metrics.go:288-289,           *)
(* health.go:322-351, publisher.go:196-210).                                *)
THEOREM NobodyIsStuck == Spec => []SomeoneCanStep
<1>1. Inv => SomeoneCanStep
  <2> SUFFICES ASSUME Inv, NEW S \in SUBSET Goroutines, S # {},
                      \A g \in S : todo[g] # <<>> /\ WaitsFor(g) \subseteq S
               PROVE  \E g \in S : CanStep(g)
    BY DEF SomeoneCanStep
  <2>1. PICK g \in S : WaitsFor(g) \cap S = {}
    BY NoCircle DEF NoCircularWait
  <2>2. WaitsFor(g) = {} /\ todo[g] # <<>>
    BY <2>1
  <2> QED BY <2>2, BlockedWaits
<1> QED BY <1>1, InvHolds, PTL

(* In particular, while any goroutine is in a call some goroutine that is    *)
(* in one can go on.                                                        *)
COROLLARY NoGlobalDeadlock ==
  Spec => []((\E g \in Goroutines : todo[g] # <<>>) => \E g \in Goroutines : CanStep(g))
<1>1. Inv /\ SomeoneCanStep =>
        ((\E g \in Goroutines : todo[g] # <<>>) => \E g \in Goroutines : CanStep(g))
  <2> SUFFICES ASSUME Inv, SomeoneCanStep, NEW g0 \in Goroutines, todo[g0] # <<>>
               PROVE  \E g \in Goroutines : CanStep(g)
    OBVIOUS
  <2> DEFINE Busy == {g \in Goroutines : todo[g] # <<>>}
  <2>1. \A g \in Busy : todo[g] # <<>> /\ WaitsFor(g) \subseteq Busy
    BY WaitedForIsBusy
  <2>2. Busy \in SUBSET Goroutines /\ Busy # {}
    OBVIOUS
  <2> HIDE DEF Busy
  <2>3. \E g \in Busy : CanStep(g)
    BY <2>1, <2>2 DEF SomeoneCanStep
  <2> QED BY <2>2, <2>3
<1> QED BY <1>1, InvHolds, NobodyIsStuck, PTL
=============================================================================
