-------------------------- MODULE PanelStaffProofs --------------------------
(***************************************************************************)
(* Proofs about LoginThrottle and PanelStaff: the limits of the login, for *)
(* all windows, limits and sizes of its table; and the panel's sessions,   *)
(* accounts and hashing slots, for any number of administrators, browsers  *)
(* and slots.                                                              *)
(***************************************************************************)
EXTENDS PanelStaff, LoginThrottle, ProofLemmas, FiniteSetTheorems

-----------------------------------------------------------------------------
\* The front that has expired ends at the first attempt that has not.
LEMMA ExpiredFront ==
    ASSUME NEW ages \in Seq(Nat)
    PROVE  /\ Expired(ages) \in 0..Len(ages)
           /\ \A i \in 1..Expired(ages) : ages[i] > Window
           /\ Expired(ages) < Len(ages) => ages[Expired(ages) + 1] <= Window
<1>. DEFINE Young == {i \in 1..Len(ages) : ages[i] <= Window}
            Front(n) == /\ \A i \in 1..n : ages[i] > Window
                        /\ n < Len(ages) => ages[n + 1] <= Window
<1>1. \E n \in 0..Len(ages) : Front(n)
  <2>1. CASE Young = {}
    <3>1. Front(Len(ages))
      BY <2>1, ThrottleAssumption
    <3>. QED BY <3>1
  <2>2. CASE Young # {}
    <3>1. PICK i \in Young : \A j \in Young : i <= j
      <4>. HIDE DEF Young
      <4>1. Young \in SUBSET Nat
        BY DEF Young
      <4>. QED BY <4>1, <2>2, LeastExists
    <3>2. i - 1 \in 0..Len(ages) /\ Front(i - 1)
      BY <3>1, ThrottleAssumption
    <3>. QED BY <3>2
  <2>. QED BY <2>1, <2>2
<1>. QED BY <1>1 DEF Expired

\* What is left of a deque, counted from its front.
LEMMA DroppedSeq ==
    ASSUME NEW T, NEW seq \in Seq(T), NEW n \in 0..Len(seq)
    PROVE  /\ Dropped(n, seq) \in Seq(T)
           /\ Len(Dropped(n, seq)) = Len(seq) - n
           /\ \A i \in 1..(Len(seq) - n) : Dropped(n, seq)[i] = seq[i + n]
BY DEF Dropped

-----------------------------------------------------------------------------
(* The throttle's inductive invariant.                                     *)

Records == [source : Source, age : Nat]

\* Types; ages count from the attempt.
ThrottleTypes ==
    /\ attempts \in [Source -> Seq(Nat) \cup {NoEntry}]
    /\ recent \in Seq(Nat)
    /\ admitted \in Seq(Records)
    /\ cleared \in BOOLEAN

\* The history is in order and within the window.
InWindow ==
    /\ \A i \in 1..Len(admitted) : admitted[i].age <= Window
    /\ \A i, j \in 1..Len(admitted) : i <= j => admitted[j].age <= admitted[i].age

\* The attempts let through are the last of global_attempts.
AllRecent ==
    /\ Len(admitted) <= Len(recent)
    /\ \A i \in 1..Len(admitted) :
         recent[i + (Len(recent) - Len(admitted))] = admitted[i].age

\* Those of an address have each a place of their own in its deque, with the
\* same age.
Of(s) == {i \in DOMAIN admitted : admitted[i].source = s}
Places(s) == {f \in [Of(s) -> 1..Len(attempts[s])] :
                 /\ \A i, j \in Of(s) : f[i] = f[j] => i = j
                 /\ \A i \in Of(s) : attempts[s][f[i]] = admitted[i].age}
Remembered ==
    \A s \in Source : IF attempts[s] = NoEntry THEN Of(s) = {} ELSE Places(s) # {}

\* The inductive invariant.  It says nothing of the table of addresses once that was
\* emptied.
ThrottleInv ==
    ThrottleTypes /\ InWindow /\ AllRecent /\ (~cleared => Remembered) /\ ThrottleHolds

\* The parts of the history.
LEMMA RecordsTyped ==
    ASSUME ThrottleTypes
    PROVE  /\ admitted \in Seq(Records) /\ Len(admitted) \in Nat
           /\ \A i \in 1..Len(admitted) : /\ admitted[i] \in Records
                                         /\ admitted[i].age \in Nat
                                         /\ admitted[i].source \in Source
<1>1. \A i \in 1..Len(admitted) : admitted[i] \in Records
  BY DEF ThrottleTypes
<1>2. \A r \in Records : r.age \in Nat /\ r.source \in Source
  BY DEF Records
<1>. QED BY <1>1, <1>2 DEF ThrottleTypes

\* The invariant holds at the start.
LEMMA ThrottleInitInv == ThrottleInit => ThrottleInv
<1>. SUFFICES ASSUME ThrottleInit PROVE ThrottleInv
  OBVIOUS
<1>1. ThrottleTypes
  <2>1. attempts \in [Source -> {NoEntry}] /\ cleared \in BOOLEAN
    BY DEF ThrottleInit
  <2>2. << >> \in Seq(Nat) /\ << >> \in Seq(Records)
    OBVIOUS
  <2>. QED BY <2>1, <2>2 DEF ThrottleInit, ThrottleTypes
<1>2. InWindow /\ AllRecent /\ Remembered
  BY DEF ThrottleInit, InWindow, AllRecent, Remembered, Of
<1>3. ThrottleHolds
  <2>1. \A s \in Source : {i \in DOMAIN admitted : admitted[i].source = s} = {}
    BY DEF ThrottleInit
  <2>. QED BY <2>1, FS_EmptySet, ThrottleAssumption DEF ThrottleInit, ThrottleHolds
<1>. QED BY <1>1, <1>2, <1>3 DEF ThrottleInv

\* A deque that is looked at holds the attempts of its address in its new
\* places, in front of which the expired ones have gone.
LEMMA PurgedSeq ==
    ASSUME NEW ages \in Seq(Nat)
    PROVE  /\ Purged(ages) \in Seq(Nat)
           /\ Len(Purged(ages)) = Len(ages) - Expired(ages)
           /\ Expired(ages) \in 0..Len(ages)
           /\ \A i \in 1..Len(Purged(ages)) : Purged(ages)[i] = ages[i + Expired(ages)]
BY ExpiredFront, DroppedSeq DEF Purged

\* Nothing that was let through in the window is forgotten by the purge.
LEMMA GlobalKept ==
    ASSUME ThrottleTypes, InWindow, AllRecent
    PROVE  /\ Len(admitted) <= Len(Purged(recent))
           /\ \A i \in 1..Len(admitted) :
                Purged(recent)[i + (Len(Purged(recent)) - Len(admitted))] = admitted[i].age
<1>. DEFINE d == Len(recent) - Len(admitted)
            n == Expired(recent)
<1>1. /\ recent \in Seq(Nat) /\ Len(admitted) \in Nat /\ Len(recent) \in Nat
      /\ \A i \in 1..Len(admitted) : admitted[i].age \in Nat
  BY RecordsTyped DEF ThrottleTypes
<1>2. n <= d
  <2>1. CASE Len(admitted) = 0
    BY <1>1, <2>1, ExpiredFront
  <2>2. CASE Len(admitted) > 0
    <3>1. recent[1 + d] <= Window
      BY <1>1, <2>2 DEF AllRecent, InWindow
    <3>2. 1 + d \notin 1..n
      BY <1>1, <3>1, ExpiredFront, ThrottleAssumption
    <3>. QED BY <1>1, <3>2, ExpiredFront DEF AllRecent
  <2>. QED BY <1>1, <2>1, <2>2
<1>3. Len(Purged(recent)) = Len(recent) - n /\ n \in Nat
  BY <1>1, PurgedSeq
<1>4. ASSUME NEW i \in 1..Len(admitted)
      PROVE  Purged(recent)[i + (Len(Purged(recent)) - Len(admitted))] = admitted[i].age
  <2>1. i + (d - n) \in 1..Len(Purged(recent))
    BY <1>1, <1>2, <1>3
  <2>2. Purged(recent)[i + (d - n)] = recent[(i + (d - n)) + n]
    BY <1>1, <2>1, PurgedSeq
  <2>3. (i + (d - n)) + n = i + d
    BY <1>1, <1>3
  <2>4. recent[i + d] = admitted[i].age
    BY DEF AllRecent
  <2>. QED BY <1>1, <1>3, <2>2, <2>3, <2>4
<1>. QED BY <1>1, <1>2, <1>3, <1>4

\* The places of an address in its deque outlive the purge.
LEMMA OwnKept ==
    ASSUME ThrottleTypes, InWindow, Remembered, ~Overfull, NEW s \in Source
    PROVE  \E f \in [Of(s) -> 1..Len(Own(s))] :
              /\ \A i, j \in Of(s) : f[i] = f[j] => i = j
              /\ \A i \in Of(s) : Own(s)[f[i]] = admitted[i].age
<1>1. CASE attempts[s] = NoEntry
  <2>1. Of(s) = {}
    BY <1>1 DEF Remembered
  <2>2. [i \in Of(s) |-> 1] \in [Of(s) -> 1..Len(Own(s))]
    BY <2>1
  <2>. QED BY <2>1, <2>2
<1>2. CASE attempts[s] # NoEntry
  <2>. DEFINE ages == attempts[s]
              n == Expired(ages)
  <2>1. ages \in Seq(Nat)
    BY <1>2 DEF ThrottleTypes
  <2>2. PICK f \in Places(s) : TRUE
    BY <1>2 DEF Remembered
  <2>3. /\ f \in [Of(s) -> 1..Len(ages)]
        /\ \A i, j \in Of(s) : f[i] = f[j] => i = j
        /\ \A i \in Of(s) : ages[f[i]] = admitted[i].age
    BY <2>2 DEF Places
  <2>4. Own(s) = Purged(ages)
    BY <1>2 DEF Own
  <2>. HIDE DEF ages
  <2>5. ASSUME NEW i \in Of(s) PROVE f[i] > n /\ f[i] \in 1..Len(ages)
    <3>1. ages[f[i]] <= Window /\ f[i] \in 1..Len(ages)
      BY <2>3 DEF Of, InWindow
    <3>2. admitted[i].age \in Nat
      BY RecordsTyped DEF Of
    <3>3. f[i] \notin 1..n
      BY <2>1, <2>3, <3>1, <3>2, ExpiredFront, ThrottleAssumption
    <3>. QED BY <2>1, <3>1, <3>3, ExpiredFront
  <2>6. n \in Nat /\ Len(Own(s)) = Len(ages) - n /\ Len(ages) \in Nat
    BY <2>1, <2>4, PurgedSeq
  <2>. DEFINE g == [i \in Of(s) |-> f[i] - n]
  <2>7. g \in [Of(s) -> 1..Len(Own(s))]
    BY <2>5, <2>6
  <2>8. \A i, j \in Of(s) : g[i] = g[j] => i = j
    BY <2>3, <2>5, <2>6
  <2>9. ASSUME NEW i \in Of(s) PROVE Own(s)[g[i]] = admitted[i].age
    <3>1. g[i] \in 1..Len(Purged(ages)) /\ g[i] + n = f[i]
      BY <2>4, <2>5, <2>6, <2>7
    <3>2. Own(s)[g[i]] = ages[g[i] + n]
      BY <2>1, <2>4, <3>1, PurgedSeq
    <3>. QED BY <2>3, <3>1, <3>2
  <2>. QED BY <2>7, <2>8, <2>9
<1>. QED BY <1>1, <1>2

-----------------------------------------------------------------------------
(* An attempt.                                                             *)

\* The tables are sequences of ages, whatever was looked at.
LEMMA OwnTyped ==
    ASSUME ThrottleTypes, NEW s \in Source
    PROVE  Own(s) \in Seq(Nat)
BY PurgedSeq DEF Own, ThrottleTypes

\* What an attempt leaves are tables.
LEMMA LookedTypes ==
    ASSUME ThrottleTypes, NEW s \in Source, NEW new \in Seq(Nat), Looked(s, new),
           admitted' \in Seq(Records)
    PROVE  ThrottleTypes'
<1>1. Own(s) \o new \in Seq(Nat) /\ Purged(recent) \o new \in Seq(Nat)
  BY OwnTyped, PurgedSeq DEF ThrottleTypes
<1>2. attempts' \in [Source -> Seq(Nat) \cup {NoEntry}]
  BY <1>1 DEF Looked, ThrottleTypes
<1>. QED BY <1>1, <1>2 DEF Looked, ThrottleTypes

\* The address that is looked at has an entry afterwards; the others are as
\* they were or forgotten with all of them.
LEMMA LookedTables ==
    ASSUME ThrottleTypes, NEW s \in Source, NEW new \in Seq(Nat), Looked(s, new), ~cleared'
    PROVE  /\ ~Overfull /\ ~cleared
           /\ attempts'[s] = Own(s) \o new
           /\ attempts'[s] # NoEntry
           /\ \A t \in Source \ {s} : attempts'[t] = attempts[t]
<1>1. ~Overfull /\ ~cleared
  BY DEF Looked, ThrottleTypes
<1>2. Own(s) \o new \in Seq(Nat)
  BY OwnTyped
<1>. QED BY <1>1, <1>2, ThrottleAssumption DEF Looked

\* A refused attempt only purges.
LEMMA RefusedStep ==
    ASSUME ThrottleInv, NEW s \in Source, Looked(s, << >>), UNCHANGED admitted
    PROVE  ThrottleInv'
<1>. USE DEF ThrottleInv
<1>1. ThrottleTypes' /\ InWindow' /\ ThrottleHolds'
  <2>1. << >> \in Seq(Nat)
    OBVIOUS
  <2>2. ThrottleTypes'
    BY <2>1, LookedTypes DEF ThrottleTypes
  <2>. QED BY <2>2 DEF InWindow, ThrottleHolds, Looked
<1>2. AllRecent'
  <2>1. recent' = Purged(recent)
    BY PurgedSeq DEF Looked, ThrottleTypes
  <2>. QED BY <2>1, GlobalKept DEF AllRecent
<1>3. ASSUME ~cleared' PROVE Remembered'
  <2>1. /\ ~Overfull /\ ~cleared
        /\ attempts'[s] = Own(s) \o << >>
        /\ attempts'[s] # NoEntry
        /\ \A t \in Source \ {s} : attempts'[t] = attempts[t]
    <3>1. << >> \in Seq(Nat)
      OBVIOUS
    <3>. QED BY <1>3, <3>1, LookedTables
  <2>2. attempts'[s] = Own(s)
    BY <2>1, OwnTyped
  <2>3. \A t \in Source : Of(t)' = Of(t)
    BY DEF Of
  <2>4. ASSUME NEW t \in Source
        PROVE  IF attempts'[t] = NoEntry THEN Of(t)' = {} ELSE Places(t)' # {}
    <3>1. CASE t = s
      BY <2>1, <2>2, <2>3, <3>1, OwnKept DEF Places
    <3>2. CASE t # s
      BY <2>1, <2>3, <3>2 DEF Remembered, Places
    <3>. QED BY <3>1, <3>2
  <2>. QED BY <2>4 DEF Remembered
<1>. QED BY <1>1, <1>2, <1>3

\* Who have each a place of their own are no more than the places.
LEMMA Crowd ==
    ASSUME NEW S \in SUBSET Nat, NEW n \in Nat, NEW f \in [S -> 1..n],
           \A i, j \in S : f[i] = f[j] => i = j
    PROVE  IsFiniteSet(S) /\ Cardinality(S) <= n
<1>1. f \in Injection(S, 1..n)
  BY DEF Injection, IsInjective
<1>2. IsFiniteSet(1..n) /\ Cardinality(1..n) = n
  BY FS_Interval
<1>. QED BY <1>1, <1>2, FS_Injection

\* An attempt that is let through is written down in both tables.
LEMMA AdmittedStep ==
    ASSUME ThrottleInv, NEW s \in Source, ~TooMany(s), Looked(s, << 0 >>),
           admitted' = Append(admitted, [source |-> s, age |-> 0])
    PROVE  ThrottleInv'
<1>. USE DEF ThrottleInv
<1>. DEFINE L == Len(admitted)
<1>1. /\ [source |-> s, age |-> 0] \in Records
      /\ <<0>> \in Seq(Nat) /\ Len(<<0>>) = 1 /\ <<0>>[1] = 0
  BY DEF Records
<1>2. /\ admitted' \in Seq(Records) /\ L \in Nat /\ Len(admitted') = L + 1
      /\ \A i \in 1..L : admitted'[i] = admitted[i]
      /\ admitted'[L + 1] = [source |-> s, age |-> 0]
  BY <1>1, RecordsTyped
<1>3. ThrottleTypes'
  BY <1>1, <1>2, LookedTypes
<1>4. InWindow'
  BY <1>2, RecordsTyped, ThrottleAssumption DEF InWindow
<1>5. AllRecent' /\ Len(admitted') <= Global
  <2>. DEFINE P == Purged(recent)
  <2>1. P \in Seq(Nat) /\ Len(P) \in Nat
    BY PurgedSeq DEF ThrottleTypes
  <2>2. /\ Len(recent') = Len(P) + 1
        /\ \A i \in 1..Len(P) : recent'[i] = P[i]
        /\ recent'[Len(P) + 1] = 0
    BY <2>1 DEF Looked
  <2>3. L <= Len(P) /\ \A i \in 1..L : P[i + (Len(P) - L)] = admitted[i].age
    BY GlobalKept
  <2>4. Len(P) < Global
    BY <2>1, ThrottleAssumption DEF TooMany
  <2>. HIDE DEF P
  <2>5. ASSUME NEW i \in 1..Len(admitted')
        PROVE  recent'[i + (Len(recent') - Len(admitted'))] = admitted'[i].age
    <3>1. i + (Len(recent') - Len(admitted')) = i + (Len(P) - L)
      BY <1>2, <2>1, <2>2
    <3>2. CASE i = L + 1
      <4>1. i + (Len(P) - L) = Len(P) + 1
        BY <1>2, <2>1, <3>2
      <4>. QED BY <1>2, <2>2, <3>1, <3>2, <4>1
    <3>3. CASE i # L + 1
      <4>1. i \in 1..L /\ i + (Len(P) - L) \in 1..Len(P)
        BY <1>2, <2>1, <2>3, <3>3
      <4>. QED BY <1>2, <2>2, <2>3, <3>1, <4>1
    <3>. QED BY <3>2, <3>3
  <2>6. Len(admitted') <= Global /\ Len(admitted') <= Len(recent')
    BY <1>2, <2>1, <2>2, <2>3, <2>4, ThrottleAssumption
  <2>. QED BY <2>5, <2>6 DEF AllRecent
<1>6. Of(s)' = Of(s) \cup {L + 1} /\ \A t \in Source \ {s} : Of(t)' = Of(t)
  <2>3. ASSUME NEW t \in Source, NEW i
        PROVE  i \in Of(t)' <=> i \in Of(t) \/ (t = s /\ i = L + 1)
    <3>1. admitted'[L + 1].source = s /\ L + 1 \notin 1..L
      BY <1>2
    <3>2. i \in 1..(L + 1) <=> i \in 1..L \/ i = L + 1
      BY <1>2
    <3>3. i \in 1..L => admitted'[i] = admitted[i]
      BY <1>2
    <3>4. Of(t)' = {k \in 1..(L + 1) : admitted'[k].source = t}
      BY <1>2 DEF Of
    <3>5. Of(t) = {k \in 1..L : admitted[k].source = t}
      BY RecordsTyped DEF Of
    <3>. HIDE DEF L
    <3>. QED BY <3>1, <3>2, <3>3, <3>4, <3>5
  <2>. QED BY <2>3
<1>7. ASSUME ~cleared' PROVE Remembered' /\ \A t \in Source : Cardinality(Of(t)') <= PerSource
  <2>1. /\ ~Overfull /\ ~cleared
        /\ attempts'[s] = Own(s) \o <<0>>
        /\ attempts'[s] # NoEntry
        /\ \A t \in Source \ {s} : attempts'[t] = attempts[t]
    BY <1>1, <1>7, LookedTables
  <2>2. PICK f \in [Of(s) -> 1..Len(Own(s))] :
              /\ \A i, j \in Of(s) : f[i] = f[j] => i = j
              /\ \A i \in Of(s) : Own(s)[f[i]] = admitted[i].age
    BY <2>1, OwnKept
  <2>3. /\ Own(s) \in Seq(Nat) /\ Len(Own(s)) \in Nat /\ Len(Own(s)) < PerSource
    BY OwnTyped, ThrottleAssumption DEF TooMany
  <2>4. /\ Len(attempts'[s]) = Len(Own(s)) + 1
        /\ \A i \in 1..Len(Own(s)) : attempts'[s][i] = Own(s)[i]
        /\ attempts'[s][Len(Own(s)) + 1] = 0
    BY <2>1, <2>3
  <2>. DEFINE n == Len(Own(s))
              g == [i \in Of(s)' |-> IF i = L + 1 THEN n + 1 ELSE f[i]]
  <2>5. \A i \in Of(s) : i \in 1..L
    BY <1>2, RecordsTyped DEF Of
  <2>6. g \in [Of(s)' -> 1..(n + 1)]
    BY <1>6, <2>2, <2>3
  <2>7. \A i, j \in Of(s)' : g[i] = g[j] => i = j
    BY <1>6, <2>2, <2>3
  <2>8. ASSUME NEW i \in Of(s)' PROVE attempts'[s][g[i]] = admitted'[i].age
    <3>1. CASE i = L + 1
      BY <1>2, <2>4, <3>1
    <3>2. CASE i # L + 1
      BY <1>2, <1>6, <2>2, <2>4, <2>5, <3>2
    <3>. QED BY <3>1, <3>2
  <2>9. Places(s)' # {}
    BY <2>4, <2>6, <2>7, <2>8 DEF Places
  <2>10. Remembered'
    <3>1. ASSUME NEW t \in Source \ {s}
          PROVE  IF attempts'[t] = NoEntry THEN Of(t)' = {} ELSE Places(t)' # {}
      <4>1. \A i \in Of(t) : admitted'[i] = admitted[i]
        BY <1>2, RecordsTyped DEF Of
      <4>2. Of(t)' = Of(t) /\ attempts'[t] = attempts[t]
        BY <1>6, <2>1
      <4>3. ASSUME NEW h \in Places(t) PROVE h \in Places(t)'
        BY <4>1, <4>2 DEF Places
      <4>. QED BY <2>1, <4>2, <4>3 DEF Remembered
    <3>. QED BY <2>1, <2>9, <3>1 DEF Remembered
  <2>11. Cardinality(Of(s)') <= PerSource
    <3>. HIDE DEF g, n
    <3>1. Of(s)' \in SUBSET Nat /\ n + 1 \in Nat /\ n + 1 <= PerSource
      BY <1>2, <1>6, <2>3, <2>5, ThrottleAssumption DEF n
    <3>2. IsFiniteSet(Of(s)') /\ Cardinality(Of(s)') <= n + 1
      BY <2>6, <2>7, <3>1, Crowd
    <3>. QED BY <3>1, <3>2, FS_CardinalityType, ThrottleAssumption
  <2>12. \A t \in Source \ {s} : Cardinality(Of(t)') <= PerSource
    BY <1>6, <2>1 DEF ThrottleHolds, Of
  <2>. QED BY <2>10, <2>11, <2>12
<1>8. ThrottleHolds'
  BY <1>5, <1>7 DEF ThrottleHolds, Of
<1>. QED BY <1>3, <1>4, <1>5, <1>7, <1>8

-----------------------------------------------------------------------------
(* A tick.                                                                 *)

\* A deque whose attempts are a tick older.
LEMMA OlderSeq ==
    ASSUME NEW ages \in Seq(Nat), NEW older, older = [i \in DOMAIN ages |-> Older(ages[i])]
    PROVE  /\ older \in Seq(Nat) /\ Len(older) = Len(ages)
           /\ \A i \in 1..Len(ages) : older[i] = Older(ages[i])
<1>1. \A i \in 1..Len(ages) : Older(ages[i]) \in Nat
  BY DEF Older
<1>2. older = [i \in 1..Len(ages) |-> Older(ages[i])] /\ Len(ages) \in Nat
  OBVIOUS
<1>3. \A i \in 1..Len(ages) : older[i] = Older(ages[i])
  BY <1>2
<1>4. older \in [1..Len(ages) -> Nat]
  BY <1>1, <1>2
<1>. QED BY <1>2, <1>3, <1>4

\* Time passes: everything grows older together, and the history forgets what
\* is no longer in the window.
LEMMA TickStep ==
    ASSUME ThrottleInv, ThrottleTick
    PROVE  ThrottleInv'
<1>. USE DEF ThrottleInv
<1>. DEFINE L == Len(admitted)
            aged == [i \in DOMAIN admitted |-> [admitted[i] EXCEPT !.age = @ + 1]]
            ages == [i \in DOMAIN aged |-> aged[i].age]
            d == Expired(ages)
<1>1. /\ L \in Nat /\ aged \in Seq(Records) /\ Len(aged) = L
      /\ \A i \in 1..L : /\ aged[i].age = admitted[i].age + 1
                         /\ aged[i].source = admitted[i].source
  <2>1. DOMAIN admitted = 1..L /\ L \in Nat
    BY RecordsTyped
  <2>2. ASSUME NEW i \in 1..L
        PROVE  /\ aged[i] \in Records
               /\ aged[i].age = admitted[i].age + 1
               /\ aged[i].source = admitted[i].source
    <3>1. admitted[i] \in Records
      BY RecordsTyped
    <3>. QED BY <2>1, <3>1 DEF Records
  <2>3. aged = [i \in 1..L |-> aged[i]]
    BY <2>1
  <2>. HIDE DEF aged
  <2>. QED BY <2>1, <2>2, <2>3
<1>2. /\ ages \in Seq(Nat) /\ Len(ages) = L
      /\ \A i \in 1..L : ages[i] = admitted[i].age + 1
  <2>. HIDE DEF aged
  <2>1. DOMAIN aged = 1..L
    BY <1>1
  <2>2. ages = [i \in 1..L |-> admitted[i].age + 1]
    BY <1>1, <2>1
  <2>3. \A i \in 1..L : admitted[i].age + 1 \in Nat
    BY RecordsTyped
  <2>. HIDE DEF ages
  <2>. QED BY <1>1, <2>2, <2>3
<1>3. /\ d \in 0..L
      /\ \A i \in 1..d : ages[i] > Window
      /\ d < L => ages[d + 1] <= Window
  <2>. HIDE DEF ages
  <2>. QED BY <1>2, ExpiredFront
<1>4. admitted' = Dropped(d, aged)
  BY DEF ThrottleTick
<1>. HIDE DEF d, ages, aged
<1>5. /\ admitted' \in Seq(Records) /\ Len(admitted') = L - d
      /\ \A i \in 1..(L - d) : /\ admitted'[i].age = admitted[i + d].age + 1
                               /\ admitted'[i].source = admitted[i + d].source
                               /\ i + d \in 1..L
  <2>1. \A i \in 1..(L - d) : i + d \in 1..L
    BY <1>1, <1>3
  <2>2. d \in 0..Len(aged)
    BY <1>1, <1>3
  <2>3. /\ admitted' \in Seq(Records) /\ Len(admitted') = Len(aged) - d
        /\ \A i \in 1..(Len(aged) - d) : admitted'[i] = aged[i + d]
    BY <1>1, <1>4, <2>2, DroppedSeq
  <2>. QED BY <1>1, <2>1, <2>3
<1>6. \A i \in 1..L : admitted[i].age \in Nat /\ admitted[i].age <= Window
  BY RecordsTyped DEF InWindow
<1>7. ThrottleTypes'
  <2>2. recent' \in Seq(Nat)
    BY OlderSeq DEF ThrottleTick, ThrottleTypes
  <2>3. attempts' \in [Source -> Seq(Nat) \cup {NoEntry}]
    <3>1. ASSUME NEW s \in Source, attempts[s] # NoEntry
          PROVE  [i \in DOMAIN attempts[s] |-> Older(attempts[s][i])] \in Seq(Nat)
      BY <3>1, OlderSeq DEF ThrottleTypes
    <3>. QED BY <3>1 DEF ThrottleTick
  <2>. QED BY <1>5, <2>2, <2>3 DEF ThrottleTick, ThrottleTypes
<1>8. InWindow'
  <2>1. ASSUME NEW i \in 1..(L - d), NEW j \in 1..(L - d), i <= j
        PROVE  admitted'[j].age <= admitted'[i].age
    <3>1. i + d \in 1..L /\ j + d \in 1..L /\ i + d <= j + d
      BY <1>1, <1>3, <2>1
    <3>2. admitted[j + d].age <= admitted[i + d].age
      BY <3>1 DEF InWindow
    <3>. QED BY <1>5, <1>6, <3>1, <3>2
  <2>2. ASSUME NEW i \in 1..(L - d) PROVE admitted'[i].age <= Window
    <3>1. 1 \in 1..(L - d) /\ d < L /\ d + 1 \in 1..L /\ i + d \in 1..L /\ 1 + d = d + 1
      BY <1>1, <1>3
    <3>2. admitted'[1].age <= Window
      BY <1>2, <1>3, <1>5, <3>1
    <3>3. admitted'[i].age <= admitted'[1].age
      BY <2>1, <3>1
    <3>4. /\ admitted'[i].age = admitted[i + d].age + 1
          /\ admitted'[1].age = admitted[1 + d].age + 1
      BY <1>5, <3>1
    <3>5. admitted[i + d].age \in Nat /\ admitted[1 + d].age \in Nat
      BY <1>6, <3>1
    <3>. QED BY <3>2, <3>3, <3>4, <3>5, ThrottleAssumption
  <2>. QED BY <1>5, <2>1, <2>2 DEF InWindow
<1>9. AllRecent'
  <2>. DEFINE R == Len(recent)
  <2>1. R \in Nat /\ L <= R /\ recent \in Seq(Nat)
    BY DEF AllRecent, ThrottleTypes
  <2>2. Len(recent') = R /\ \A i \in 1..R : recent'[i] = Older(recent[i])
    BY <2>1, OlderSeq DEF ThrottleTick
  <2>3. ASSUME NEW i \in 1..(L - d)
        PROVE  recent'[i + (R - (L - d))] = admitted'[i].age
    <3>1. i + d \in 1..L /\ i + (R - (L - d)) = (i + d) + (R - L)
      BY <1>1, <1>3, <2>1
    <3>2. (i + d) + (R - L) \in 1..R
      BY <1>1, <2>1, <3>1
    <3>3. recent[(i + d) + (R - L)] = admitted[i + d].age
      BY <3>1 DEF AllRecent
    <3>4. Older(admitted[i + d].age) = admitted[i + d].age + 1
      BY <1>6, <3>1, ThrottleAssumption DEF Older
    <3>. QED BY <1>5, <2>2, <3>1, <3>2, <3>3, <3>4
  <2>. QED BY <1>1, <1>3, <1>5, <2>1, <2>2, <2>3 DEF AllRecent
<1>10. ASSUME NEW s \in Source
       PROVE  /\ Of(s)' \in SUBSET Nat
              /\ \A i \in Of(s)' : i + d \in Of(s) /\ admitted'[i].age = admitted[i + d].age + 1
  <2>1. Of(s)' = {i \in 1..(L - d) : admitted'[i].source = s}
    BY <1>1, <1>3, <1>5 DEF Of
  <2>2. Of(s) = {i \in 1..L : admitted[i].source = s}
    BY RecordsTyped DEF Of
  <2>. QED BY <1>5, <2>1, <2>2
<1>11. ASSUME ~cleared PROVE Remembered'
  <2>1. ASSUME NEW s \in Source, attempts[s] = NoEntry PROVE attempts'[s] = NoEntry /\ Of(s)' = {}
    BY <1>10, <1>11, <2>1 DEF Remembered, ThrottleTick
  <2>2. ASSUME NEW s \in Source, attempts[s] # NoEntry PROVE attempts'[s] # NoEntry /\ Places(s)' # {}
    <3>. DEFINE own == attempts[s]
    <3>1. own \in Seq(Nat)
      BY <2>2 DEF ThrottleTypes
    <3>2. attempts'[s] = [i \in DOMAIN own |-> Older(own[i])]
      BY <2>2 DEF ThrottleTick
    <3>3. /\ attempts'[s] \in Seq(Nat) /\ Len(attempts'[s]) = Len(own)
          /\ \A i \in 1..Len(own) : attempts'[s][i] = Older(own[i])
      BY <3>1, <3>2, OlderSeq
    <3>6. PICK f \in Places(s) : TRUE
      BY <1>11, <2>2 DEF Remembered
    <3>7. /\ f \in [Of(s) -> 1..Len(own)]
          /\ \A i, j \in Of(s) : f[i] = f[j] => i = j
          /\ \A i \in Of(s) : own[f[i]] = admitted[i].age
      BY <3>6 DEF Places
    <3>. HIDE DEF own
    <3>. DEFINE g == [i \in Of(s)' |-> f[i + d]]
    <3>8. g \in [Of(s)' -> 1..Len(attempts'[s])]
      BY <1>10, <3>3, <3>7
    <3>9. \A i, j \in Of(s)' : g[i] = g[j] => i = j
      BY <1>1, <1>3, <1>10, <3>7
    <3>10. ASSUME NEW i \in Of(s)' PROVE attempts'[s][g[i]] = admitted'[i].age
      <4>1. i + d \in Of(s) /\ admitted'[i].age = admitted[i + d].age + 1
        BY <1>10
      <4>2. i + d \in 1..L
        BY <4>1, RecordsTyped DEF Of
      <4>3. attempts'[s][g[i]] = Older(own[f[i + d]])
        BY <3>3, <3>7, <4>1
      <4>. QED BY <1>6, <3>7, <4>1, <4>2, <4>3, ThrottleAssumption DEF Older
    <3>. QED BY <3>3, <3>8, <3>9, <3>10, ThrottleAssumption DEF Places
  <2>. QED BY <2>1, <2>2 DEF Remembered
<1>12. ThrottleHolds'
  <2>1. Len(admitted') <= Global
    BY <1>1, <1>3, <1>5, ThrottleAssumption DEF ThrottleHolds
  <2>2. ASSUME ~cleared, NEW s \in Source PROVE Cardinality(Of(s)') <= PerSource
    <3>1. IsFiniteSet(Of(s)) /\ Cardinality(Of(s)) <= PerSource /\ Of(s) \in SUBSET Nat
      <4>1. Of(s) \in SUBSET (1..L) /\ IsFiniteSet(1..L)
        BY <1>1, RecordsTyped, FS_Interval DEF Of
      <4>. QED BY <1>1, <2>2, <4>1, FS_Subset DEF Of, ThrottleHolds
    <3>. DEFINE g == [i \in Of(s)' |-> i + d]
    <3>2. g \in Injection(Of(s)', Of(s))
      BY <1>1, <1>3, <1>10 DEF Injection, IsInjective
    <3>3. IsFiniteSet(Of(s)') /\ Cardinality(Of(s)') <= Cardinality(Of(s))
      <4>. HIDE DEF g
      <4>. QED BY <3>1, <3>2, FS_Injection
    <3>. QED BY <3>1, <3>3, FS_CardinalityType, ThrottleAssumption
  <2>. QED BY <2>1, <2>2 DEF ThrottleHolds, ThrottleTick, Of
<1>. QED BY <1>7, <1>8, <1>9, <1>11, <1>12 DEF ThrottleTick

\* However many addresses attempt to log in, and whenever the table is emptied:
\* of all addresses together at most Global are let through in a window, and of
\* one address at most PerSource until then.  (login in control/app.py.)
THEOREM LimitsHold == ThrottleSpec => []ThrottleHolds
<1>1. ThrottleInv /\ [ThrottleNext]_throttleVars => ThrottleInv'
  <2>. SUFFICES ASSUME ThrottleInv, [ThrottleNext]_throttleVars PROVE ThrottleInv'
    OBVIOUS
  <2>1. ASSUME NEW s \in Source, Attempt(s) PROVE ThrottleInv'
    BY <2>1, RefusedStep, AdmittedStep DEF Attempt
  <2>2. CASE UNCHANGED throttleVars
    <3>1. UNCHANGED <<attempts, recent, admitted, cleared>>
      BY <2>2 DEF throttleVars
    <3>2. \A s \in Source : Of(s)' = Of(s) /\ Places(s)' = Places(s)
      BY <3>1 DEF Of, Places
    <3>3. (~cleared => Remembered)'
      BY <3>1, <3>2 DEF ThrottleInv, Remembered
    <3>4. ThrottleTypes' /\ InWindow' /\ AllRecent' /\ ThrottleHolds'
      BY <3>1 DEF ThrottleInv, ThrottleTypes, InWindow, AllRecent, ThrottleHolds
    <3>. QED BY <3>3, <3>4 DEF ThrottleInv
  <2>. QED BY <2>1, <2>2, TickStep DEF ThrottleNext
<1>2. ThrottleInv => ThrottleHolds
  BY DEF ThrottleInv
<1>. QED BY <1>1, <1>2, ThrottleInitInv, PTL DEF ThrottleSpec

-----------------------------------------------------------------------------
(* PanelStaff.                                                             *)

USE StaffAssumption

-----------------------------------------------------------------------------
(* The inductive invariant.                                                *)

\* Those in line wait, each once: the place is handed to one who waits.
LineWaits ==
    /\ \A i \in 1..Len(line) : phase[line[i]].at = "waiting"
    /\ \A i, j \in 1..Len(line) : line[i] = line[j] => i = j

\* Passwords are counted, and whoever awaits a body was an owner.
Counted ==
    /\ \A n \in Name : Exists(n) => admins[n].pw <= passwords
    /\ \A b \in Browser : phase[b].at = "body" => passwords > 0

\* What a handler saw before its write still holds, unless a reset raced it.
SeenHolds ==
    between # None /\ ~raced =>
        /\ between.op = "login" =>
             Exists(between.user) /\ admins[between.user].pw = between.pw
        /\ between.op = "delete" =>
             /\ sessions[between.by] # None
             /\ sessions[between.by].user \in Owners \ {between.user}

\* Every place is free or in use.
Hashers == {b \in Browser : phase[b].at = "hashing"}
SlotsCounted ==
    /\ IsFiniteSet(Hashers)
    /\ slots + Cardinality(Hashers) = Slots

Types == TypeOK /\ LineWaits /\ SlotsCounted
IInv  == Types /\ Counted /\ SessionsCurrent /\ OwnerRemains /\ SeenHolds

\* The null value is none of the others.
LEMMA Distinct ==
    /\ \A a \in Account : a # None
    /\ \A s \in Session : s # None
    /\ \A h \in Handler : h # None
BY NoneAssumption

LEMMA InitInv == Init => IInv
<1>. SUFFICES ASSUME Init PROVE IInv
  OBVIOUS
<1>1. TypeOK
  <2>1. phase \in [Browser -> Phases]
    BY DEF Init, Phases
  <2>2. slots \in 0..Slots /\ line \in Seq(Browser)
    BY DEF Init
  <2>3. admins \in [Name -> {None}] /\ sessions \in [Browser -> {None}]
    BY DEF Init
  <2>4. passwords \in 0..MaxPasswords /\ raced = FALSE /\ between = None
    BY DEF Init
  <2>5. keys \in [Key -> {"none", "enabled", "revoked"}]
    BY DEF Init
  <2>. QED BY <2>1, <2>2, <2>3, <2>4, <2>5 DEF TypeOK
<1>2. LineWaits
  BY DEF Init, LineWaits
<1>3. Counted
  BY DEF Init, Counted, Exists, Idle
<1>5. SlotsCounted
  <2>1. Hashers = {}
    BY DEF Init, Hashers, Idle
  <2>. QED BY <2>1, FS_EmptySet DEF Init, SlotsCounted
<1>4. SessionsCurrent /\ OwnerRemains /\ SeenHolds
  BY DEF Init, SessionsCurrent, OwnerRemains, SeenHolds
<1>. QED BY <1>1, <1>2, <1>3, <1>4, <1>5 DEF IInv, Types

-----------------------------------------------------------------------------
(* Types and the line.                                                     *)

\* A browser that is neither in line nor at a check, nor gets there, leaves
\* line and places alone.
LEMMA LineKept ==
    ASSUME Types, NEW b \in Browser, NEW p \in Phases,
           phase[b].at \notin {"waiting", "hashing"}, p.at # "hashing",
           phase' = [phase EXCEPT ![b] = p], UNCHANGED checks
    PROVE  /\ phase' \in [Browser -> Phases] /\ LineWaits' /\ SlotsCounted'
           /\ slots' \in 0..Slots /\ line' \in Seq(Browser)
<1>1. phase' \in [Browser -> Phases]
  BY DEF Types, TypeOK
<1>2. /\ \A i \in 1..Len(line) : line[i] \in Browser
      /\ line' = line /\ slots' = slots
  BY DEF Types, TypeOK, checks
<1>3. \A x \in Browser : phase'[x] = IF x = b THEN p ELSE phase[x]
  BY DEF Types, TypeOK
<1>4. LineWaits'
  BY <1>2, <1>3 DEF Types, LineWaits
<1>5. Hashers' = Hashers
  BY <1>3 DEF Hashers
<1>6. SlotsCounted'
  BY <1>2, <1>5 DEF Types, SlotsCounted
<1>. QED BY <1>1, <1>2, <1>4, <1>6 DEF Types, TypeOK

\* Nothing happens to requests.
LEMMA RequestsKept ==
    ASSUME Types, UNCHANGED <<phase, checks>>
    PROVE  /\ phase' \in [Browser -> Phases] /\ LineWaits' /\ SlotsCounted'
           /\ slots' \in 0..Slots /\ line' \in Seq(Browser)
BY DEF Types, TypeOK, LineWaits, SlotsCounted, Hashers, checks

\* A request in line becomes one with a place.
LEMMA HashingTyped ==
    ASSUME NEW p \in Phases, p.at = "waiting"
    PROVE  Hashing(p) \in Phases /\ Hashing(p).at = "hashing"
<1>1. p \in [at : {"waiting", "hashing"}, user : Name, row : 0..MaxPasswords]
  BY DEF Phases, Idle, BodyOps
<1>2. /\ Hashing(p) \in [at : {"waiting", "hashing"}, user : Name, row : 0..MaxPasswords]
      /\ Hashing(p).at = "hashing"
  BY <1>1 DEF Hashing
<1>. QED BY <1>2 DEF Phases

\* Handing a place on keeps the line in order and loses no place.
LEMMA HandOn ==
    ASSUME Types, NEW b \in Browser, phase[b].at = "hashing", SlotHandedOn(b)
    PROVE  /\ phase' \in [Browser -> Phases] /\ LineWaits' /\ SlotsCounted'
           /\ slots' \in 0..Slots /\ line' \in Seq(Browser)
           /\ \A x \in Browser : phase'[x].at = "body" => phase[x].at = "body"
<1>1. Idle \in Phases /\ Idle.at = "idle"
  BY DEF Phases, Idle
<1>2. /\ b \in Hashers /\ IsFiniteSet(Hashers) /\ Cardinality(Hashers) \in Nat
      /\ IsFiniteSet(Hashers \ {b})
      /\ Cardinality(Hashers \ {b}) = Cardinality(Hashers) - 1
      /\ Cardinality(Hashers \ {b}) \in Nat
  <2>1. b \in Hashers /\ IsFiniteSet(Hashers)
    BY DEF Hashers, Types, SlotsCounted
  <2>. QED BY <2>1, FS_RemoveElement, FS_CardinalityType
<1>3. CASE line = << >>
  <2>1. /\ phase' = [phase EXCEPT ![b] = Idle]
        /\ slots' = slots + 1 /\ line' = line
    BY <1>3 DEF SlotHandedOn
  <2>2. phase' \in [Browser -> Phases]
    BY <1>1, <2>1 DEF Types, TypeOK
  <2>3. \A x \in Browser : phase'[x] = IF x = b THEN Idle ELSE phase[x]
    BY <2>1 DEF Types, TypeOK
  <2>4. Hashers' = Hashers \ {b}
    BY <1>1, <2>3 DEF Hashers
  <2>5. SlotsCounted' /\ slots' \in 0..Slots
    BY <1>2, <2>1, <2>4 DEF Types, TypeOK, SlotsCounted
  <2>6. LineWaits'
    BY <1>3, <2>1 DEF LineWaits
  <2>. QED BY <1>1, <2>1, <2>2, <2>3, <2>5, <2>6 DEF Types, TypeOK
<1>4. CASE line # << >>
  <2>. DEFINE h == Head(line)
  <2>1. /\ line \in Seq(Browser) /\ h \in Browser /\ h = line[1]
        /\ Len(line) \in Nat /\ Len(line) >= 1
    BY <1>4 DEF Types, TypeOK
  <2>2. phase[h].at = "waiting" /\ phase[h] \in Phases
    BY <2>1 DEF Types, TypeOK, LineWaits
  <2>3. h # b
    BY <2>2
  <2>4. phase' = [phase EXCEPT ![b] = Idle, ![h] = Hashing(@)] /\ line' = Tail(line)
        /\ slots' = slots
    BY <1>4 DEF SlotHandedOn
  <2>. HIDE DEF h
  <2>5. Hashing(phase[h]) \in Phases /\ Hashing(phase[h]).at = "hashing"
    BY <2>2, HashingTyped
  <2>6. phase' = [x \in Browser |-> IF x = b THEN Idle
                                    ELSE IF x = h THEN Hashing(phase[h]) ELSE phase[x]]
    BY <2>1, <2>3, <2>4 DEF Types, TypeOK
  <2>7. phase' \in [Browser -> Phases]
    BY <1>1, <2>5, <2>6 DEF Types, TypeOK
  <2>8. /\ line' \in Seq(Browser) /\ Len(line') = Len(line) - 1
        /\ \A i \in 1..Len(line') : line'[i] = line[i + 1] /\ line[i + 1] \in Browser
    BY <1>4, <2>1, <2>4
  <2>9. \A i \in 1..Len(line') : i + 1 \in 1..Len(line)
    BY <2>1, <2>8
  <2>10. \A i \in 1..Len(line') : phase[line'[i]].at = "waiting" /\ line'[i] # h
    BY <2>1, <2>8, <2>9 DEF Types, LineWaits
  <2>11. \A i \in 1..Len(line') : phase'[line'[i]] = phase[line'[i]]
    BY <2>6, <2>8, <2>10
  <2>12. \A i, j \in 1..Len(line') : line'[i] = line'[j] => i = j
    BY <2>1, <2>8, <2>9 DEF Types, LineWaits
  <2>13. Hashers' = (Hashers \ {b}) \cup {h}
    BY <1>1, <2>1, <2>3, <2>5, <2>6 DEF Hashers
  <2>14. h \notin Hashers \ {b}
    BY <2>2 DEF Hashers
  <2>15. IsFiniteSet(Hashers') /\ Cardinality(Hashers') = Cardinality(Hashers \ {b}) + 1
    BY <1>2, <2>13, <2>14, FS_AddElement
  <2>16. SlotsCounted'
    BY <1>2, <2>4, <2>15 DEF Types, TypeOK, SlotsCounted
  <2>17. \A x \in Browser : phase'[x].at = "body" => phase[x].at = "body"
    BY <1>1, <2>5, <2>6
  <2>. QED BY <2>4, <2>7, <2>8, <2>10, <2>11, <2>12, <2>16, <2>17
           DEF Types, TypeOK, LineWaits
<1>. QED BY <1>3, <1>4

\* A browser out of line gets in, or straight to a check.
LEMMA Admitted ==
    ASSUME Types, NEW b \in Browser, NEW n \in Name, LoginAdmitted(b, n)
    PROVE  /\ phase' \in [Browser -> Phases] /\ LineWaits' /\ SlotsCounted'
           /\ slots' \in 0..Slots /\ line' \in Seq(Browser)
           /\ \A x \in Browser : phase'[x].at = "body" => phase[x].at = "body"
<1>1. phase[b].at = "idle"
  BY DEF LoginAdmitted, Idle
<1>2. Password(n) \in 0..MaxPasswords
  BY Distinct DEF Password, Exists, Types, TypeOK, Account
<1>3. CASE slots > 0
  <2>. DEFINE p == [at |-> "hashing", user |-> n, row |-> Password(n)]
  <2>1. p \in Phases
    BY <1>2 DEF Phases
  <2>2. /\ slots' = slots - 1 /\ line' = line
        /\ phase' = [phase EXCEPT ![b] = p]
    BY <1>3 DEF LoginAdmitted
  <2>3. p.at = "hashing"
    OBVIOUS
  <2>. HIDE DEF p
  <2>4. \A x \in Browser : phase'[x] = IF x = b THEN p ELSE phase[x]
    BY <2>2 DEF Types, TypeOK
  <2>5. Hashers' = Hashers \cup {b} /\ b \notin Hashers
    BY <1>1, <2>3, <2>4 DEF Hashers
  <2>6. IsFiniteSet(Hashers') /\ Cardinality(Hashers') = Cardinality(Hashers) + 1
    BY <2>5, FS_AddElement DEF Types, SlotsCounted
  <2>7. Cardinality(Hashers) \in Nat
    BY FS_CardinalityType DEF Types, SlotsCounted
  <2>8. SlotsCounted' /\ slots' \in 0..Slots
    BY <1>3, <2>2, <2>6, <2>7 DEF Types, TypeOK, SlotsCounted
  <2>9. \A i \in 1..Len(line) : line[i] \in Browser
    BY DEF Types, TypeOK
  <2>10. LineWaits'
    BY <1>1, <2>2, <2>4, <2>9 DEF Types, LineWaits
  <2>11. phase' \in [Browser -> Phases] /\ line' \in Seq(Browser)
    BY <2>1, <2>2 DEF Types, TypeOK
  <2>. QED BY <2>3, <2>4, <2>8, <2>10, <2>11
<1>4. CASE ~(slots > 0)
  <2>. DEFINE p == [at |-> "waiting", user |-> n, row |-> Password(n)]
  <2>1. p \in Phases
    BY <1>2 DEF Phases
  <2>2. /\ slots' = slots /\ line' = Append(line, b)
        /\ phase' = [phase EXCEPT ![b] = p]
    BY <1>4 DEF LoginAdmitted
  <2>3. p.at = "waiting"
    OBVIOUS
  <2>. HIDE DEF p
  <2>4. \A x \in Browser : phase'[x] = IF x = b THEN p ELSE phase[x]
    BY <2>2 DEF Types, TypeOK
  <2>5. Hashers' = Hashers
    BY <1>1, <2>3, <2>4 DEF Hashers
  <2>6. SlotsCounted' /\ slots' \in 0..Slots
    BY <2>2, <2>5 DEF Types, TypeOK, SlotsCounted
  <2>7. /\ line \in Seq(Browser) /\ Len(line) \in Nat
        /\ line' \in Seq(Browser) /\ Len(line') = Len(line) + 1
        /\ line'[Len(line) + 1] = b
        /\ \A i \in 1..Len(line) : line'[i] = line[i] /\ line[i] \in Browser
    BY <2>2 DEF Types, TypeOK
  <2>8. \A i \in 1..Len(line) : line[i] # b
    BY <1>1 DEF Types, LineWaits
  <2>9. \A i \in 1..Len(line') : i \in 1..Len(line) \/ i = Len(line) + 1
    BY <2>7
  <2>10. LineWaits'
    BY <2>3, <2>4, <2>7, <2>8, <2>9 DEF Types, LineWaits
  <2>11. phase' \in [Browser -> Phases]
    BY <2>1, <2>2 DEF Types, TypeOK
  <2>. QED BY <2>3, <2>4, <2>6, <2>7, <2>10, <2>11
<1>. QED BY <1>3, <1>4

-----------------------------------------------------------------------------
(* The steps.                                                              *)

\* Steps that leave accounts alone and may only end sessions.
LEMMA AccountsKept ==
    ASSUME IInv, Types', UNCHANGED <<admins, passwords, raced>>,
           \A b \in Browser : sessions'[b] \in {None, sessions[b]},
           \A b \in Browser : phase'[b].at = "body" => passwords > 0,
           SeenHolds'
    PROVE  IInv'
<1>1. Counted'
  BY DEF IInv, Counted, Exists
<1>2. SessionsCurrent'
  BY DEF IInv, SessionsCurrent, Exists
<1>3. OwnerRemains'
  BY DEF IInv, OwnerRemains, Owners, Exists
<1>. QED BY <1>1, <1>2, <1>3 DEF IInv

LEMMA LoginStep ==
    ASSUME IInv, NEW b \in Browser,
           \/ \E n \in Name : LoginAdmitted(b, n)
           \/ WrongPassword(b) \/ RightPassword(b)
    PROVE  IInv'
<1>. USE DEF IInv
<1>1. /\ phase' \in [Browser -> Phases] /\ LineWaits' /\ SlotsCounted'
      /\ slots' \in 0..Slots /\ line' \in Seq(Browser)
      /\ \A x \in Browser : phase'[x].at = "body" => phase[x].at = "body"
  BY Admitted, HandOn DEF WrongPassword, RightPassword
<1>2. UNCHANGED <<staff, raced>> /\ Free
  BY DEF LoginAdmitted, WrongPassword, RightPassword
<1>3. /\ between' \in {None} \cup Handler
      /\ between' # None =>
           /\ between'.op = "login"
           /\ Exists(between'.user) /\ admins[between'.user].pw = between'.pw
  <2>1. CASE ~RightPassword(b)
    BY <1>2, <2>1 DEF LoginAdmitted, WrongPassword, Free
  <2>2. CASE RightPassword(b)
    <3>. DEFINE u == phase[b].user
                r == phase[b].row
    <3>1. phase[b] \in [at : {"waiting", "hashing"}, user : Name, row : 0..MaxPasswords]
      BY <2>2 DEF RightPassword, Types, TypeOK, Phases, Idle
    <3>2. u \in Name /\ r \in 1..MaxPasswords
      BY <2>2, <3>1 DEF RightPassword
    <3>3. between' = IF StillThere(u, r)
                       THEN [op |-> "login", by |-> b, user |-> u, pw |-> r] ELSE None
      BY <2>2 DEF RightPassword
    <3>. HIDE DEF u, r
    <3>. QED BY <3>2, <3>3 DEF StillThere, Handler
  <2>. QED BY <2>1, <2>2
<1>4. TypeOK'
  BY <1>1, <1>2, <1>3 DEF Types, TypeOK, staff
<1>5. SeenHolds'
  BY <1>2, <1>3 DEF SeenHolds, staff, Exists
<1>6. UNCHANGED <<admins, passwords, raced, sessions>>
  BY <1>2 DEF staff
<1>7. \A x \in Browser : phase'[x].at = "body" => passwords > 0
  BY <1>1 DEF Counted
<1>8. Types'
  BY <1>1, <1>4 DEF Types
<1>. QED BY <1>5, <1>6, <1>7, <1>8, AccountsKept

\* A logout and a session that ends by itself.
LEMMA EndStep ==
    ASSUME IInv, NEW b \in Browser, Logout(b) \/ SessionExpires(b)
    PROVE  IInv'
<1>. USE DEF IInv
<1>1. /\ sessions' = [sessions EXCEPT ![b] = None] /\ Free
      /\ UNCHANGED <<admins, passwords, keys, phase, checks, between, raced>>
  BY DEF Logout, SessionExpires
<1>2. Types'
  BY <1>1, RequestsKept DEF Types, TypeOK
<1>3. SeenHolds'
  BY <1>1 DEF SeenHolds, Free
<1>4. \A x \in Browser : sessions'[x] \in {None, sessions[x]}
  BY <1>1 DEF Types, TypeOK
<1>5. \A x \in Browser : phase'[x].at = "body" => passwords > 0
  BY <1>1 DEF Counted
<1>. QED BY <1>1, <1>2, <1>3, <1>4, <1>5, AccountsKept

\* An owner is one of the administrators, so there is a password.
LEMMA OwnerMeansPassword ==
    ASSUME IInv, NEW b \in Browser, IsOwner(b)
    PROVE  passwords > 0
<1>1. PICK n \in Name : Exists(n)
  BY DEF IsOwner, Owners
<1>2. admins[n].pw \in 1..MaxPasswords /\ passwords \in Nat
  BY <1>1 DEF IInv, Types, TypeOK, Account, Exists
<1>3. admins[n].pw <= passwords
  BY <1>1 DEF IInv, Counted
<1>. QED BY <1>2, <1>3

LEMMA RequestStep ==
    ASSUME IInv, NEW b \in Browser,
           \/ \E op \in BodyOps : OwnerAsks(b, op)
           \/ BodyRejected(b)
           \/ \E k \in Key : TokenCreate(b, k) \/ TokenRevoke(b, k)
    PROVE  IInv'
<1>. USE DEF IInv
<1>1. /\ UNCHANGED <<admins, passwords, sessions, checks, between, raced>> /\ Free
      /\ keys' \in [Key -> {"none", "enabled", "revoked"}]
  BY DEF OwnerAsks, BodyRejected, TokenCreate, TokenRevoke, Served, staff, Types, TypeOK
<1>2. \/ UNCHANGED phase
      \/ \E op \in BodyOps : /\ phase' = [phase EXCEPT ![b] = [at |-> "body", op |-> op]]
                             /\ phase[b].at = "idle" /\ passwords > 0
      \/ phase' = [phase EXCEPT ![b] = Idle] /\ phase[b].at = "body"
  <2>1. ASSUME NEW op \in BodyOps, OwnerAsks(b, op)
        PROVE  /\ phase' = [phase EXCEPT ![b] = [at |-> "body", op |-> op]]
               /\ phase[b].at = "idle" /\ passwords > 0
    BY <2>1, OwnerMeansPassword DEF OwnerAsks, Idle
  <2>2. ASSUME NEW op, Served(b, op)
        PROVE  phase' = [phase EXCEPT ![b] = Idle] /\ phase[b].at = "body"
    BY <2>2 DEF Served
  <2>. QED BY <2>1, <2>2 DEF BodyRejected, TokenCreate, TokenRevoke
<1>3. /\ phase' \in [Browser -> Phases] /\ LineWaits' /\ SlotsCounted'
      /\ slots' \in 0..Slots /\ line' \in Seq(Browser)
      /\ \A x \in Browser : phase'[x].at = "body" => passwords > 0
  <2>1. CASE UNCHANGED phase
    BY <1>1, <2>1, RequestsKept DEF Counted
  <2>2. ASSUME NEW p \in Phases, phase' = [phase EXCEPT ![b] = p],
               phase[b].at \notin {"waiting", "hashing"}, p.at # "hashing",
               p.at = "body" => passwords > 0
        PROVE  /\ phase' \in [Browser -> Phases] /\ LineWaits' /\ SlotsCounted'
               /\ slots' \in 0..Slots /\ line' \in Seq(Browser)
               /\ \A x \in Browser : phase'[x].at = "body" => passwords > 0
    <3>1. UNCHANGED checks
      BY <1>1
    <3>2. \A x \in Browser : phase'[x] = IF x = b THEN p ELSE phase[x]
      BY <2>2 DEF Types, TypeOK
    <3>. QED BY <2>2, <3>1, <3>2, LineKept DEF Counted
  <2>3. Idle \in Phases /\ Idle.at = "idle"
    BY DEF Phases, Idle
  <2>4. \A op \in BodyOps : [at |-> "body", op |-> op] \in Phases
    BY DEF Phases
  <2>5. CASE phase' = [phase EXCEPT ![b] = Idle] /\ phase[b].at = "body"
    BY <2>2, <2>3, <2>5
  <2>6. ASSUME NEW op \in BodyOps, phase' = [phase EXCEPT ![b] = [at |-> "body", op |-> op]],
               phase[b].at = "idle", passwords > 0
        PROVE  /\ phase' \in [Browser -> Phases] /\ LineWaits' /\ SlotsCounted'
               /\ slots' \in 0..Slots /\ line' \in Seq(Browser)
               /\ \A x \in Browser : phase'[x].at = "body" => passwords > 0
    BY <2>2, <2>4, <2>6
  <2>. QED BY <1>2, <2>1, <2>5, <2>6
<1>4. Types'
  BY <1>1, <1>3 DEF Types, TypeOK
<1>5. SeenHolds'
  BY <1>1 DEF SeenHolds, Free
<1>. QED BY <1>1, <1>3, <1>4, <1>5, AccountsKept

\* A body has arrived: the browser is idle again.
LEMMA ServedRequests ==
    ASSUME IInv, NEW b \in Browser, NEW op, Served(b, op)
    PROVE  /\ phase' \in [Browser -> Phases] /\ LineWaits' /\ SlotsCounted'
           /\ slots' \in 0..Slots /\ line' \in Seq(Browser)
           /\ \A x \in Browser : phase'[x].at = "body" => phase[x].at = "body"
           /\ passwords > 0
<1>1. /\ phase' = [phase EXCEPT ![b] = Idle] /\ phase[b].at = "body"
      /\ UNCHANGED checks
  BY DEF Served
<1>2. Idle \in Phases /\ Idle.at = "idle"
  BY DEF Phases, Idle
<1>3. \A x \in Browser : phase'[x] = IF x = b THEN Idle ELSE phase[x]
  BY <1>1 DEF IInv, Types, TypeOK
<1>. QED BY <1>1, <1>2, <1>3, LineKept DEF IInv, Counted

\* A new administrator has no session yet; one whose password is changed has
\* none left.
LEMMA AccountStep ==
    ASSUME IInv, NEW b \in Browser, NEW n \in Name, NEW role \in Role,
           AdminCreate(b, n, role) \/ AdminPassword(b, n)
    PROVE  IInv'
<1>. USE DEF IInv
<1>1. PICK r \in Role :
        /\ admins' = [admins EXCEPT ![n] = [role |-> r, pw |-> passwords + 1]]
        /\ Exists(n) => r = admins[n].role
  BY DEF AdminCreate, AdminPassword, SetPassword, Types, TypeOK, Exists, Account
<1>2. /\ passwords < MaxPasswords /\ passwords' = passwords + 1 /\ passwords \in Nat
      /\ UNCHANGED <<keys, raced, between>> /\ Free
  BY DEF AdminCreate, AdminPassword, SetPassword, Served, Types, TypeOK
<1>3. \E op : Served(b, op)
  BY DEF AdminCreate, AdminPassword
<1>4. /\ phase' \in [Browser -> Phases] /\ LineWaits' /\ SlotsCounted'
      /\ slots' \in 0..Slots /\ line' \in Seq(Browser)
      /\ passwords > 0
  BY <1>3, ServedRequests
<1>5. \A x \in Browser : \/ sessions'[x] = None
                         \/ /\ sessions'[x] = sessions[x] /\ sessions[x].user \in Name
                            /\ Exists(n) => sessions[x].user # n
  <2>1. \A x \in Browser : sessions[x] # None => sessions[x].user \in Name
    BY DEF Types, TypeOK, Session
  <2>. QED BY <2>1 DEF AdminCreate, AdminPassword, EndSessionsOf, Exists
<1>6. sessions' \in [Browser -> {None} \cup Session]
  BY DEF AdminCreate, AdminPassword, EndSessionsOf, Types, TypeOK
<1>. DEFINE a == [role |-> r, pw |-> passwords + 1]
<1>7. a \in Account /\ a # None /\ a.role = r /\ a.pw = passwords + 1
  BY <1>2, Distinct DEF Account
<1>8. \A m \in Name : admins'[m] = IF m = n THEN a ELSE admins[m]
  BY <1>1 DEF Types, TypeOK
<1>9. admins' \in [Name -> {None} \cup Account]
  BY <1>1, <1>7 DEF Types, TypeOK
<1>. HIDE DEF a
<1>10. Types'
  BY <1>2, <1>4, <1>6, <1>9 DEF Types, TypeOK
<1>11. \A m \in Name : Exists(m) => admins[m].pw \in Nat /\ admins[m].pw <= passwords
  BY Distinct DEF Types, TypeOK, Account, Counted, Exists
<1>12. Counted'
  BY <1>2, <1>4, <1>7, <1>8, <1>11 DEF Counted, Exists
<1>13. SessionsCurrent'
  BY <1>2, <1>5, <1>8 DEF SessionsCurrent, Exists
<1>14. OwnerRemains'
  BY <1>1, <1>2, <1>4, <1>7, <1>8 DEF OwnerRemains, Owners, Exists
<1>15. SeenHolds'
  BY <1>2 DEF SeenHolds, Free
<1>. QED BY <1>10, <1>12, <1>13, <1>14, <1>15

\* A delete is decided: the owner who asked is not the one who goes.
LEMMA DecideStep ==
    ASSUME IInv, NEW b \in Browser, NEW n \in Name, AdminDelete(b, n)
    PROVE  IInv'
<1>. USE DEF IInv
<1>. DEFINE h == [op |-> "delete", by |-> b, user |-> n]
<1>1. h \in Handler /\ h # None /\ h.op = "delete" /\ h.by = b /\ h.user = n
  BY Distinct DEF Handler
<1>2. /\ between' = h /\ IsOwner(b) /\ n # sessions[b].user
      /\ UNCHANGED <<staff, phase, checks, raced>>
  BY DEF AdminDelete, Deletable
<1>. HIDE DEF h
<1>3. UNCHANGED <<admins, passwords, sessions, keys, phase, checks, raced>>
  BY <1>2 DEF staff
<1>4. Types'
  BY <1>1, <1>2, <1>3, RequestsKept DEF Types, TypeOK
<1>5. SeenHolds'
  BY <1>1, <1>2, <1>3 DEF SeenHolds, IsOwner, LoggedIn, Owners, Exists
<1>6. \A x \in Browser : phase'[x].at = "body" => passwords > 0
  BY <1>3 DEF Counted
<1>. QED BY <1>3, <1>4, <1>5, <1>6, AccountsKept

\* The session of a login is written.
LEMMA WriteStep ==
    ASSUME IInv, SessionWritten
    PROVE  IInv'
<1>. USE DEF IInv
<1>. DEFINE s == [user |-> between.user, pw |-> between.pw]
<1>1. between \in [op : {"login"}, by : Browser, user : Name, pw : 1..MaxPasswords]
  BY DEF SessionWritten, Types, TypeOK, Handler
<1>2. s \in Session /\ s.user = between.user /\ s.pw = between.pw
  BY <1>1 DEF Session
<1>3. /\ sessions' = [sessions EXCEPT ![between.by] = s]
      /\ between' = None /\ between # None /\ between.op = "login"
      /\ UNCHANGED <<admins, passwords, keys, phase, checks, raced>>
  BY DEF SessionWritten
<1>. HIDE DEF s
<1>4. \A x \in Browser : sessions'[x] = IF x = between.by THEN s ELSE sessions[x]
  BY <1>1, <1>3 DEF Types, TypeOK
<1>5. Types'
  BY <1>2, <1>3, RequestsKept DEF Types, TypeOK
<1>6. Counted' /\ OwnerRemains' /\ SeenHolds'
  BY <1>3 DEF Counted, OwnerRemains, SeenHolds, Exists, Owners
<1>7. SessionsCurrent'
  BY <1>2, <1>3, <1>4 DEF SessionsCurrent, SeenHolds, Exists
<1>. QED BY <1>5, <1>6, <1>7

\* An administrator goes, and the owner who had her deleted stays.
LEMMA DeletedStep ==
    ASSUME IInv, AdminDeleted
    PROVE  IInv'
<1>. USE DEF IInv
<1>. DEFINE u == between.user
<1>1. /\ between # None /\ between.op = "delete" /\ between' = None
      /\ admins' = [admins EXCEPT ![u] = None]
      /\ EndSessionsOf(u)
      /\ UNCHANGED <<passwords, keys, phase, checks, raced>>
  BY DEF AdminDeleted
<1>2. u \in Name
  BY <1>1 DEF Types, TypeOK, Handler
<1>3. ~raced => \E o \in Owners : o # u
  BY <1>1 DEF SeenHolds
<1>. HIDE DEF u
<1>4. \A m \in Name : admins'[m] = IF m = u THEN None ELSE admins[m]
  BY <1>1, <1>2 DEF Types, TypeOK
<1>5. \A x \in Browser : sessions'[x] = IF sessions[x] # None /\ sessions[x].user = u
                                          THEN None ELSE sessions[x]
  BY <1>1 DEF EndSessionsOf
<1>6. /\ admins' \in [Name -> {None} \cup Account]
      /\ sessions' \in [Browser -> {None} \cup Session]
  BY <1>1 DEF EndSessionsOf, Types, TypeOK
<1>7. Types'
  BY <1>1, <1>6, RequestsKept DEF Types, TypeOK
<1>8. Counted' /\ SeenHolds'
  BY <1>1, <1>4 DEF Counted, SeenHolds, Exists
<1>9. SessionsCurrent'
  <2>1. \A x \in Browser : sessions[x] # None => sessions[x].user \in Name
    BY DEF Types, TypeOK, Session
  <2>. QED BY <1>1, <1>4, <1>5, <2>1 DEF SessionsCurrent, Exists
<1>10. OwnerRemains'
  BY <1>1, <1>3, <1>4 DEF OwnerRemains, Owners, Exists
<1>. QED BY <1>7, <1>8, <1>9, <1>10

\* The commands at the shell leave one owner more, or that one only, and no
\* session.
LEMMA ShellStep ==
    ASSUME IInv, NEW n \in Name, CliInit(n) \/ CliReset(n)
    PROVE  IInv'
<1>. USE DEF IInv
<1>. DEFINE a == [role |-> "owner", pw |-> passwords + 1]
<1>1. /\ passwords < MaxPasswords /\ passwords' = passwords + 1 /\ passwords \in Nat
      /\ sessions' = [x \in Browser |-> None]
      /\ raced' = (raced \/ ~Free)
      /\ UNCHANGED <<keys, phase, checks, between>>
  BY DEF CliInit, CliReset, SetPassword, Types, TypeOK
<1>2. a \in Account /\ a # None /\ a.role = "owner" /\ a.pw = passwords + 1
  BY <1>1, Distinct DEF Account
<1>3. admins' \in [Name -> {None} \cup Account]
  BY <1>2 DEF CliInit, CliReset, SetPassword, Types, TypeOK
<1>4. \A m \in Name : IF m = n THEN admins'[m] = a
                      ELSE admins'[m] \in {None, admins[m]}
  BY DEF CliInit, CliReset, SetPassword, Types, TypeOK
<1>. HIDE DEF a
<1>5. raced' \in BOOLEAN
  BY <1>1, Zenon DEF Types, TypeOK
<1>6. Types'
  BY <1>1, <1>3, <1>5, RequestsKept DEF Types, TypeOK
<1>7. \A m \in Name : Exists(m) => admins[m].pw \in Nat /\ admins[m].pw <= passwords
  BY Distinct DEF Types, TypeOK, Account, Counted, Exists
<1>8. Counted'
  BY <1>1, <1>2, <1>4, <1>7 DEF Counted, Exists
<1>9. SessionsCurrent'
  BY <1>1 DEF SessionsCurrent
<1>10. OwnerRemains'
  BY <1>2, <1>4 DEF OwnerRemains, Owners, Exists
<1>11. SeenHolds'
  BY <1>1 DEF SeenHolds, Free
<1>. QED BY <1>6, <1>8, <1>9, <1>10, <1>11

LEMMA StutterStep ==
    ASSUME IInv, UNCHANGED vars
    PROVE  IInv'
<1>1. UNCHANGED <<admins, passwords, sessions, keys, phase, checks, between, raced>>
  BY DEF vars, staff
<1>2. Types'
  BY <1>1, RequestsKept DEF IInv, Types, TypeOK
<1>3. SeenHolds' /\ \A x \in Browser : phase'[x].at = "body" => passwords > 0
  BY <1>1 DEF IInv, SeenHolds, Counted, Exists, Owners
<1>. QED BY <1>1, <1>2, <1>3, AccountsKept

-----------------------------------------------------------------------------
(* Theorems.                                                               *)

LEMMA StepInv == IInv /\ [Next]_vars => IInv'
<1>. SUFFICES ASSUME IInv, [Next]_vars PROVE IInv'
  OBVIOUS
<1>1. ASSUME NEW b \in Browser, BrowserStep(b) PROVE IInv'
  <2>1. ASSUME NEW n \in Name, NEW role \in Role,
               AdminCreate(b, n, role) \/ AdminPassword(b, n)
        PROVE  IInv'
    BY <2>1, AccountStep
  <2>2. ASSUME NEW n \in Name, AdminPassword(b, n) PROVE IInv'
    BY <2>1, <2>2
  <2>3. ASSUME NEW n \in Name, AdminDelete(b, n) PROVE IInv'
    BY <2>3, DecideStep
  <2>. QED BY <1>1, <2>1, <2>2, <2>3, LoginStep, EndStep, RequestStep DEF BrowserStep
<1>2. CASE SessionWritten \/ AdminDeleted
  BY <1>2, WriteStep, DeletedStep
<1>3. ASSUME NEW n \in Name, CliInit(n) \/ CliReset(n) PROVE IInv'
  BY <1>3, ShellStep
<1>. QED BY <1>1, <1>2, <1>3, StutterStep DEF Next

\* The inductive invariant holds in every state the staff's panel can reach:
\* besides the properties below, that what a handler has seen before its write
\* still holds, that every browser in line waits there once, and that the
\* places in use and the free ones are Slots together.
THEOREM Invariance == Spec => []IInv
BY InitInv, StepInv, PTL DEF Spec

\* No session outlives the password it was opened with, nor its account.
\* (login, AdminPassword and delete_admin in control/app.py.)
THEOREM CurrentSessions == Spec => []SessionsCurrent
BY Invariance, PTL DEF IInv

\* The panel never loses its last owner.  (delete_admin in control/app.py.)
THEOREM AnOwner == Spec => []OwnerRemains
BY Invariance, PTL DEF IInv

\* Who removes an administrator is an owner at that moment, or the one at the
\* shell.  (delete_admin in control/app.py.)
THEOREM OwnersRemove == Spec => RemovedByOwner
<1>. DEFINE Step == \A n \in Name : Exists(n) /\ admins'[n] = None =>
                      \/ passwords' # passwords
                      \/ raced
                      \/ LET word == sessions[between.by]
                         IN  word # None /\ word.user \in Owners \ {n}
<1>1. IInv /\ [Next]_vars => [Step]_vars
  <2>. SUFFICES ASSUME IInv, Next, NEW n \in Name, Exists(n), admins'[n] = None,
                       passwords' = passwords, ~raced
       PROVE  LET word == sessions[between.by]
              IN  word # None /\ word.user \in Owners \ {n}
    OBVIOUS
  <2>1. AdminDeleted
    <3>1. \A m \in Name : \A role : SetPassword(m, role) => passwords' # passwords
      BY DEF SetPassword, IInv, Types, TypeOK
    <3>2. \A m \in Name : ~CliReset(m) /\ ~CliInit(m)
      BY <3>1 DEF CliReset, CliInit, IInv, Types, TypeOK
    <3>3. \A b \in Browser, m \in Name : /\ ~AdminPassword(b, m)
                                         /\ \A role \in Role : ~AdminCreate(b, m, role)
      BY <3>1 DEF AdminPassword, AdminCreate
    <3>4. UNCHANGED admins \/ AdminDeleted
      BY <3>2, <3>3 DEF Next, BrowserStep, LoginAdmitted, WrongPassword, RightPassword,
         Logout, SessionExpires, OwnerAsks, BodyRejected, TokenCreate, TokenRevoke,
         AdminDelete, SessionWritten, staff
    <3>. QED BY <3>4 DEF Exists
  <2>2. between # None /\ between.op = "delete" /\ between.user = n
    BY <2>1 DEF AdminDeleted, IInv, Types, TypeOK, Exists, Handler
  <2>. QED BY <2>2 DEF IInv, SeenHolds
<1>. QED BY <1>1, Invariance, PTL DEF Spec, RemovedByOwner
=============================================================================
