--------------------------- MODULE ActivityProofs ---------------------------
(***************************************************************************)
(* Proofs about ActivityReport and ActivityObserve, for any users, addresses *)
(* and names, all limits and all times to live.                            *)
(***************************************************************************)
EXTENDS ActivityReport, ActivityObserve, ProofLemmas, FiniteSetTheorems, SequenceTheorems

-----------------------------------------------------------------------------
(* Rows: one for each key.                                                 *)

\* Rows of a table with one row for each key.
Rows == [key : Key, n : Nat, first : Nat, last : Nat]
Distinct(rows) == \A i, j \in 1..Len(rows) : rows[i].key = rows[j].key => i = j

\* The parts of a row, and the keys of a table.
LEMMA RowsTyped ==
    ASSUME NEW rows \in Seq(Rows)
    PROVE  /\ Len(rows) \in Nat /\ DOMAIN rows = 1..Len(rows)
           /\ \A i \in 1..Len(rows) :
                /\ rows[i] \in Rows /\ rows[i].key \in Key /\ rows[i].n \in Nat
                /\ rows[i].first \in Nat /\ rows[i].last \in Nat
           /\ Keys(rows) = {rows[i].key : i \in 1..Len(rows)}
<1>1. \A i \in 1..Len(rows) : rows[i] \in Rows
  OBVIOUS
<1>2. \A r \in Rows : r.key \in Key /\ r.n \in Nat /\ r.first \in Nat /\ r.last \in Nat
  BY DEF Rows
<1>. QED BY <1>1, <1>2 DEF Keys

\* The row of a key is found where it is.
LEMMA PlaceIs ==
    ASSUME NEW rows \in Seq(Rows), Distinct(rows), NEW i \in 1..Len(rows)
    PROVE  /\ rows[i].key \in Keys(rows)
           /\ Place(rows, rows[i].key) = i
           /\ RowOf(rows, rows[i].key) = rows[i]
           /\ Amount(rows, rows[i].key) = rows[i].n
<1>1. rows[i].key \in Keys(rows)
  BY RowsTyped
<1>2. Place(rows, rows[i].key) = i
  BY RowsTyped DEF Place, Distinct
<1>. QED BY <1>1, <1>2 DEF RowOf, Amount

\* The amount of a key is that of its row, and 0 if it has none.
LEMMA AmountTyped ==
    ASSUME NEW rows \in Seq(Rows), Distinct(rows), NEW k
    PROVE  Amount(rows, k) \in Nat /\ (k \notin Keys(rows) => Amount(rows, k) = 0)
<1>1. CASE k \in Keys(rows)
  <2>1. PICK i \in 1..Len(rows) : rows[i].key = k
    BY <1>1, RowsTyped
  <2>. QED BY <1>1, <2>1, PlaceIs, RowsTyped
<1>2. CASE k \notin Keys(rows)
  BY <1>2 DEF Amount
<1>. QED BY <1>1, <1>2

\* What is in both sequences, under whatever index, has the same amount.
LEMMA SameAmount ==
    ASSUME NEW p \in Seq(Rows), Distinct(p), NEW q \in Seq(Rows), Distinct(q), NEW k,
           \A i \in 1..Len(p) : p[i].key = k => \E j \in 1..Len(q) : q[j] = p[i],
           \A j \in 1..Len(q) : q[j].key = k => \E i \in 1..Len(p) : q[j] = p[i]
    PROVE  Amount(p, k) = Amount(q, k)
<1>1. CASE k \in Keys(p)
  <2>1. PICK i \in 1..Len(p) : p[i].key = k
    BY <1>1, RowsTyped
  <2>2. PICK j \in 1..Len(q) : q[j] = p[i]
    BY <2>1
  <2>. QED BY <2>1, <2>2, PlaceIs
<1>2. CASE k \notin Keys(p)
  <2>1. k \notin Keys(q)
    <3>. SUFFICES ASSUME k \in Keys(q) PROVE FALSE
      OBVIOUS
    <3>1. PICK j \in 1..Len(q) : q[j].key = k
      BY RowsTyped
    <3>2. PICK i \in 1..Len(p) : q[j] = p[i]
      BY <3>1
    <3>. QED BY <1>2, <3>1, <3>2, RowsTyped
  <2>. QED BY <1>2, <2>1, AmountTyped
<1>. QED BY <1>1, <1>2

\* A row of a new key is appended.
LEMMA Appended ==
    ASSUME NEW rows \in Seq(Rows), Distinct(rows), NEW r \in Rows, r.key \notin Keys(rows),
           NEW q, q = Append(rows, r)
    PROVE  /\ q \in Seq(Rows) /\ Len(q) = Len(rows) + 1
           /\ \A j \in 1..Len(q) : q[j] = r \/ \E i \in 1..Len(rows) : q[j] = rows[i]
           /\ Distinct(q)
           /\ Keys(q) = Keys(rows) \cup {r.key}
           /\ \A k : Amount(q, k) = IF k = r.key THEN r.n ELSE Amount(rows, k)
<1>1. /\ q \in Seq(Rows) /\ Len(q) = Len(rows) + 1 /\ Len(rows) \in Nat
      /\ \A i \in 1..Len(rows) : q[i] = rows[i] /\ i \in 1..Len(q)
      /\ q[Len(rows) + 1] = r /\ Len(rows) + 1 \in 1..Len(q)
      /\ \A j \in 1..Len(q) : j = Len(rows) + 1 \/ j \in 1..Len(rows)
  OBVIOUS
<1>2. \A i \in 1..Len(rows) : rows[i].key # r.key
  BY RowsTyped
<1>3. Distinct(q)
  BY <1>1, <1>2 DEF Distinct
<1>4. Keys(q) = Keys(rows) \cup {r.key}
  <2>1. Keys(q) = {q[i].key : i \in 1..Len(q)} /\ Keys(rows) = {rows[i].key : i \in 1..Len(rows)}
    BY <1>1, RowsTyped
  <2>. QED BY <1>1, <2>1
<1>5. ASSUME NEW k PROVE Amount(q, k) = IF k = r.key THEN r.n ELSE Amount(rows, k)
  <2>1. CASE k = r.key
    <3>1. Len(rows) + 1 \in 1..Len(q) /\ q[Len(rows) + 1].key = k
      BY <1>1, <2>1
    <3>2. k \in Keys(q) /\ RowOf(q, k) = q[Len(rows) + 1]
      BY <1>1, <1>3, <3>1, PlaceIs
    <3>. QED BY <1>1, <2>1, <3>2 DEF Amount
  <2>2. CASE k # r.key
    <3>1. \A j \in 1..Len(q) : q[j].key = k => \E i \in 1..Len(rows) : q[j] = rows[i]
      BY <1>1, <2>2
    <3>2. \A i \in 1..Len(rows) : rows[i].key = k => \E j \in 1..Len(q) : q[j] = rows[i]
      BY <1>1
    <3>3. Amount(rows, k) = Amount(q, k)
      BY <1>1, <1>3, <3>1, <3>2, SameAmount
    <3>. QED BY <2>2, <3>3
  <2>. QED BY <2>1, <2>2
<1>. QED BY <1>1, <1>3, <1>4, <1>5

\* What is left of a sequence without its i-th element.
LEMMA RemovedSeq ==
    ASSUME NEW T, NEW s \in Seq(T), NEW i \in 1..Len(s)
    PROVE  /\ RemoveAt(s, i) \in Seq(T) /\ Len(RemoveAt(s, i)) = Len(s) - 1
           /\ \A j \in 1..(Len(s) - 1) : RemoveAt(s, i)[j] = s[IF j < i THEN j ELSE j + 1]
<1>. DEFINE a == SubSeq(s, 1, i - 1)
            b == SubSeq(s, i + 1, Len(s))
<1>1. a \in Seq(T) /\ Len(a) = i - 1 /\ \A j \in 1..(i - 1) : a[j] = s[j]
  OBVIOUS
<1>2. b \in Seq(T) /\ Len(b) = Len(s) - i /\ \A j \in 1..(Len(s) - i) : b[j] = s[j + i]
  OBVIOUS
<1>3. RemoveAt(s, i) = a \o b /\ Len(s) \in Nat
  BY DEF RemoveAt
<1>. HIDE DEF a, b
<1>4. a \o b \in Seq(T) /\ Len(a \o b) = Len(s) - 1
  <2>1. a \in Seq(T) /\ b \in Seq(T)
    BY <1>1, <1>2
  <2>2. a \o b \in Seq(T) /\ Len(a \o b) = Len(a) + Len(b)
    BY <2>1, ConcatProperties
  <2>. QED BY <1>1, <1>2, <1>3, <2>2
<1>6. ASSUME NEW j \in 1..(Len(s) - 1)
      PROVE  (a \o b)[j] = IF j < i THEN a[j] ELSE b[j - (i - 1)]
  <2>1. j \in 1..(Len(a) + Len(b)) /\ (j < i <=> j <= Len(a)) /\ Len(a) = i - 1
    BY <1>1, <1>2, <1>3
  <2>2. (a \o b)[j] = IF j <= Len(a) THEN a[j] ELSE b[j - Len(a)]
    BY <1>1, <1>2, <2>1
  <2>. QED BY <2>1, <2>2
<1>5. ASSUME NEW j \in 1..(Len(s) - 1)
      PROVE  (a \o b)[j] = s[IF j < i THEN j ELSE j + 1]
  <2>1. CASE j < i
    BY <1>1, <1>3, <1>6, <2>1
  <2>2. CASE ~(j < i)
    <3>1. j - (i - 1) \in 1..(Len(s) - i) /\ (j - (i - 1)) + i = j + 1
      BY <1>3, <2>2
    <3>. QED BY <1>2, <1>6, <2>2, <3>1
  <2>. QED BY <2>1, <2>2
<1>. QED BY <1>3, <1>4, <1>5

\* A row is taken out.
LEMMA Removed ==
    ASSUME NEW rows \in Seq(Rows), Distinct(rows), NEW i \in 1..Len(rows),
           NEW q, q = RemoveAt(rows, i)
    PROVE  /\ q \in Seq(Rows) /\ Len(q) = Len(rows) - 1
           /\ \A j \in 1..Len(q) : \E m \in 1..Len(rows) : q[j] = rows[m]
           /\ Distinct(q)
           /\ Keys(q) = Keys(rows) \ {rows[i].key}
           /\ \A k : k # rows[i].key => Amount(q, k) = Amount(rows, k)
<1>1. /\ q \in Seq(Rows) /\ Len(q) = Len(rows) - 1 /\ Len(rows) \in Nat
      /\ \A j \in 1..Len(q) : q[j] = rows[IF j < i THEN j ELSE j + 1]
  <2>1. /\ RemoveAt(rows, i) \in Seq(Rows) /\ Len(RemoveAt(rows, i)) = Len(rows) - 1
        /\ \A j \in 1..(Len(rows) - 1) : RemoveAt(rows, i)[j] = rows[IF j < i THEN j ELSE j + 1]
    BY RemovedSeq
  <2>2. Len(rows) \in Nat
    OBVIOUS
  <2>. QED BY <2>1, <2>2
<1>2. \A j \in 1..Len(q) :
         /\ (IF j < i THEN j ELSE j + 1) \in 1..Len(rows)
         /\ (IF j < i THEN j ELSE j + 1) # i
  BY <1>1
<1>3. \A j \in 1..Len(q) : \E m \in 1..Len(rows) : m # i /\ q[j] = rows[m]
  BY <1>1, <1>2
<1>4. ASSUME NEW m \in 1..Len(rows), m # i PROVE \E j \in 1..Len(q) : q[j] = rows[m]
  <2>1. CASE m < i
    BY <1>1, <2>1
  <2>2. CASE m > i
    <3>1. m - 1 \in 1..Len(q) /\ ~(m - 1 < i) /\ (m - 1) + 1 = m
      BY <1>1, <2>2
    <3>. QED BY <1>1, <3>1
  <2>. QED BY <1>1, <1>4, <2>1, <2>2
<1>5. Distinct(q)
  <2>. SUFFICES ASSUME NEW a \in 1..Len(q), NEW b \in 1..Len(q), q[a].key = q[b].key PROVE a = b
    BY DEF Distinct
  <2>1. (IF a < i THEN a ELSE a + 1) = (IF b < i THEN b ELSE b + 1)
    BY <1>1, <1>2 DEF Distinct
  <2>. QED BY <1>1, <2>1
<1>6. Keys(q) = Keys(rows) \ {rows[i].key}
  <2>1. Keys(q) = {q[j].key : j \in 1..Len(q)} /\ Keys(rows) = {rows[j].key : j \in 1..Len(rows)}
    BY <1>1, RowsTyped
  <2>2. \A m \in 1..Len(rows) : m # i => rows[m].key # rows[i].key
    BY DEF Distinct
  <2>3. Keys(q) \subseteq Keys(rows) \ {rows[i].key}
    BY <1>3, <2>1, <2>2
  <2>4. Keys(rows) \ {rows[i].key} \subseteq Keys(q)
    BY <1>4, <2>1
  <2>. QED BY <2>3, <2>4
<1>7. ASSUME NEW k, k # rows[i].key PROVE Amount(q, k) = Amount(rows, k)
  <2>1. \A m \in 1..Len(rows) : rows[m].key = k => \E j \in 1..Len(q) : q[j] = rows[m]
    BY <1>4, <1>7
  <2>2. \A j \in 1..Len(q) : \E m \in 1..Len(rows) : q[j] = rows[m]
    BY <1>3
  <2>. QED BY <1>1, <1>5, <2>1, <2>2, SameAmount
<1>. QED BY <1>1, <1>3, <1>5, <1>6, <1>7

-----------------------------------------------------------------------------
(* The collector's table after _add() and restore().                       *)

\* A row was begun and added to by packets that were seen by now.
InTime(r, seen) == 1 <= r.first /\ r.first <= r.last /\ r.last <= seen[r.key]
\* The table _add() and restore() keep.
Tidy(rows, seen) ==
    /\ rows \in Seq(Rows) /\ Distinct(rows) /\ Len(rows) <= MaxPending
    /\ \A i \in 1..Len(rows) : InTime(rows[i], seen)

\* Part by part what a row adds to the amount of its key.
More(r, k) == IF k = r.key THEN r.n ELSE 0

\* A row of a new key.
LEMMA PutLast ==
    ASSUME NEW seen \in [Key -> Nat], NEW rows, Tidy(rows, seen), Len(rows) < MaxPending,
           NEW r \in Rows, InTime(r, seen), r.key \notin Keys(rows)
    PROVE  /\ Tidy(Append(rows, r), seen)
           /\ \A k : Amount(Append(rows, r), k) = Amount(rows, k) + More(r, k)
<1>. DEFINE q == Append(rows, r)
<1>1. /\ q \in Seq(Rows) /\ Len(q) = Len(rows) + 1
      /\ \A j \in 1..Len(q) : q[j] = r \/ \E i \in 1..Len(rows) : q[j] = rows[i]
      /\ Distinct(q)
      /\ \A k : Amount(q, k) = IF k = r.key THEN r.n ELSE Amount(rows, k)
  BY Appended DEF Tidy
<1>. HIDE DEF q
<1>2. Len(rows) \in Nat /\ Len(q) <= MaxPending
  BY <1>1, ActivityAssumption DEF Tidy
<1>3. Tidy(q, seen)
  BY <1>1, <1>2 DEF Tidy
<1>4. ASSUME NEW k PROVE Amount(q, k) = Amount(rows, k) + More(r, k)
  <2>1. Amount(rows, k) \in Nat /\ (k = r.key => Amount(rows, k) = 0) /\ r.n \in Nat
    BY AmountTyped DEF Tidy, Rows
  <2>. QED BY <1>1, <2>1 DEF More
<1>. QED BY <1>3, <1>4 DEF q

\* The table and the keys given up after one row was added, or given up.
Adds(res, rows, gone, r, seen) ==
    /\ res = [rows |-> res.rows, gone |-> res.gone]
    /\ Tidy(res.rows, seen) /\ gone \subseteq res.gone
    /\ \A k : k \notin res.gone => Amount(res.rows, k) = Amount(rows, k) + More(r, k)

\* Two rows of one key make one.
Joined(old, r) == [old EXCEPT !.n = @ + r.n, !.last = IF @ < r.last THEN r.last ELSE @]

\* Two rows of one key make one row, with the sum of both.
LEMMA SumOfRows ==
    ASSUME NEW seen, NEW old \in Rows, NEW r \in Rows, old.key = r.key,
           InTime(old, seen), InTime(r, seen)
    PROVE  /\ Joined(old, r) \in Rows /\ Joined(old, r).key = r.key
           /\ Joined(old, r).n = old.n + r.n /\ InTime(Joined(old, r), seen)
<1>. DEFINE late == IF old.last < r.last THEN r.last ELSE old.last
<1>1. {old.n, r.n, old.first, old.last, r.last} \subseteq Nat /\ old.n + r.n \in Nat
  BY DEF Rows
<1>2. late \in Nat /\ old.last <= late /\ (late = r.last \/ late = old.last)
  BY <1>1
<1>3. Joined(old, r) = [old EXCEPT !.n = old.n + r.n, !.last = late]
  BY DEF Joined
<1>. HIDE DEF late
<1>4. /\ Joined(old, r) \in Rows
      /\ Joined(old, r).key = old.key /\ Joined(old, r).n = old.n + r.n
      /\ Joined(old, r).first = old.first /\ Joined(old, r).last = late
  BY <1>1, <1>2, <1>3 DEF Rows
<1>5. InTime(Joined(old, r), seen)
  BY <1>1, <1>2, <1>4 DEF InTime
<1>. QED BY <1>4, <1>5

\* _add(): the amounts change by those of the row, or the keys given up are named.
LEMMA AddTidy ==
    ASSUME NEW seen \in [Key -> Nat], NEW rows, Tidy(rows, seen), NEW gone,
           NEW r \in Rows, InTime(r, seen),
           NEW res, res = Add([rows |-> rows, gone |-> gone], r)
    PROVE  Adds(res, rows, gone, r, seen)
<1>1. /\ rows \in Seq(Rows) /\ Distinct(rows) /\ Len(rows) \in Nat /\ Len(rows) <= MaxPending
      /\ MaxPending \in Nat /\ MaxPending > 0
  BY ActivityAssumption DEF Tidy
<1>2. CASE r.key \in Keys(rows)
  <2>1. PICK i \in 1..Len(rows) : rows[i].key = r.key
    BY <1>1, <1>2, RowsTyped
  <2>. DEFINE old == rows[i]
              sum == Joined(old, r)
              rest == RemoveAt(rows, i)
  <2>2. Place(rows, r.key) = i /\ RowOf(rows, r.key) = old
    BY <1>1, <2>1, PlaceIs
  <2>3. res = [rows |-> Append(rest, sum), gone |-> gone]
    BY <1>2, <2>2 DEF Add, Joined
  <2>4. /\ old \in Rows /\ InTime(old, seen) /\ old.key = r.key
    BY <1>1, <2>1 DEF Tidy
  <2>5. /\ sum \in Rows /\ sum.key = r.key /\ sum.n = old.n + r.n /\ InTime(sum, seen)
    BY <2>4, SumOfRows
  <2>. HIDE DEF sum
  <2>6. /\ rest \in Seq(Rows) /\ Len(rest) = Len(rows) - 1
        /\ \A j \in 1..Len(rest) : \E m \in 1..Len(rows) : rest[j] = rows[m]
        /\ Distinct(rest) /\ Keys(rest) = Keys(rows) \ {rows[i].key}
        /\ \A k : k # rows[i].key => Amount(rest, k) = Amount(rows, k)
    BY <1>1, Removed
  <2>7. Amount(rows, r.key) = old.n
    BY <1>1, <2>1, PlaceIs
  <2>. HIDE DEF rest
  <2>8. Tidy(rest, seen) /\ Len(rest) < MaxPending /\ r.key \notin Keys(rest)
    BY <1>1, <2>1, <2>6 DEF Tidy
  <2>9. /\ Tidy(Append(rest, sum), seen)
        /\ \A k : Amount(Append(rest, sum), k) = Amount(rest, k) + More(sum, k)
    BY <2>5, <2>8, PutLast
  <2>10. ASSUME NEW k PROVE Amount(Append(rest, sum), k) = Amount(rows, k) + More(r, k)
    <3>1. old.n \in Nat /\ r.n \in Nat
      BY <2>4 DEF Rows
    <3>2. r.key \notin Keys(rest) => Amount(rest, r.key) = 0
      BY <2>6, AmountTyped
    <3>. QED BY <2>1, <2>5, <2>6, <2>7, <2>8, <2>9, <3>1, <3>2 DEF More
  <2>11. res.rows = Append(rest, sum) /\ res.gone = gone
    BY <2>3
  <2>. QED BY <2>3, <2>9, <2>10, <2>11 DEF Adds
<1>3. CASE r.key \notin Keys(rows) /\ Len(rows) >= MaxPending
  <2>. DEFINE rest == RemoveAt(rows, 1)
  <2>1. Tail(rows) = rest /\ Head(rows) = rows[1] /\ 1 \in 1..Len(rows)
    BY <1>1, <1>3 DEF RemoveAt
  <2>2. res = [rows |-> Append(rest, r), gone |-> gone \cup {rows[1].key}]
    BY <1>3, <2>1 DEF Add
  <2>3. /\ rest \in Seq(Rows) /\ Len(rest) = Len(rows) - 1
        /\ \A j \in 1..Len(rest) : \E m \in 1..Len(rows) : rest[j] = rows[m]
        /\ Distinct(rest) /\ Keys(rest) = Keys(rows) \ {rows[1].key}
        /\ \A k : k # rows[1].key => Amount(rest, k) = Amount(rows, k)
    BY <1>1, <2>1, Removed
  <2>. HIDE DEF rest
  <2>4. Tidy(rest, seen) /\ Len(rest) < MaxPending /\ r.key \notin Keys(rest)
    BY <1>1, <1>3, <2>3 DEF Tidy
  <2>5. /\ Tidy(Append(rest, r), seen)
        /\ \A k : Amount(Append(rest, r), k) = Amount(rest, k) + More(r, k)
    BY <2>4, PutLast
  <2>6. res.rows = Append(rest, r) /\ res.gone = gone \cup {rows[1].key}
    BY <2>2
  <2>. QED BY <2>2, <2>3, <2>5, <2>6 DEF Adds
<1>4. CASE r.key \notin Keys(rows) /\ ~(Len(rows) >= MaxPending)
  <2>1. res = [rows |-> Append(rows, r), gone |-> gone]
    BY <1>4 DEF Add
  <2>2. /\ Tidy(Append(rows, r), seen)
        /\ \A k : Amount(Append(rows, r), k) = Amount(rows, k) + More(r, k)
    BY <1>1, <1>4, PutLast
  <2>3. res.rows = Append(rows, r) /\ res.gone = gone
    BY <2>1
  <2>. QED BY <2>1, <2>2, <2>3 DEF Adds
<1>. QED BY <1>2, <1>3, <1>4

\* A row that comes back is added or given up.
LEMMA AddBackTidy ==
    ASSUME NEW seen \in [Key -> Nat], NEW rows, Tidy(rows, seen), NEW gone,
           NEW r \in Rows, InTime(r, seen),
           NEW res, res = AddBack([rows |-> rows, gone |-> gone], r)
    PROVE  Adds(res, rows, gone, r, seen)
<1>. DEFINE late == [r EXCEPT !.first = r.last]
<1>1. late \in Rows /\ late.key = r.key /\ late.n = r.n /\ InTime(late, seen)
  <2>1. late \in Rows
    BY DEF Rows
  <2>2. late.key = r.key /\ late.n = r.n /\ late.first = r.last /\ late.last = r.last
    BY DEF Rows
  <2>3. r.first \in Nat /\ r.last \in Nat
    BY DEF Rows
  <2>. QED BY <2>1, <2>2, <2>3 DEF InTime
<1>2. CASE Admits(r.key)
  <2>1. res = Add([rows |-> rows, gone |-> gone], late)
    BY <1>2 DEF AddBack
  <2>2. \A k : More(late, k) = More(r, k)
    BY <1>1 DEF More
  <2>. HIDE DEF late
  <2>3. Adds(res, rows, gone, late, seen)
    BY <1>1, <2>1, AddTidy
  <2>. QED BY <2>2, <2>3 DEF Adds
<1>3. CASE ~Admits(r.key)
  <2>1. res = [rows |-> rows, gone |-> gone \cup {r.key}]
    BY <1>3 DEF AddBack
  <2>2. \A k : Amount(rows, k) \in Nat
    BY AmountTyped DEF Tidy
  <2>3. res.rows = rows /\ res.gone = gone \cup {r.key}
    BY <2>1
  <2>. QED BY <2>1, <2>2, <2>3 DEF More, Adds
<1>. QED BY <1>2, <1>3

-----------------------------------------------------------------------------
(* A batch that comes back, row by row.                                    *)

\* What the first i rows add to the amount of a key.
Before(rows, i, k) == IF \E j \in 1..i : rows[j].key = k THEN Amount(rows, k) ELSE 0

\* Each row adds its own.
LEMMA BeforeNext ==
    ASSUME NEW rows \in Seq(Rows), Distinct(rows), NEW i \in 0..(Len(rows) - 1), NEW k
    PROVE  Before(rows, i + 1, k) = Before(rows, i, k) + More(rows[i + 1], k)
<1>1. /\ Len(rows) \in Nat /\ i + 1 \in 1..Len(rows)
      /\ \A j : j \in 1..(i + 1) <=> j \in 1..i \/ j = i + 1
      /\ \A j \in 1..i : j \in 1..Len(rows) /\ j # i + 1
  OBVIOUS
<1>2. rows[i + 1].n \in Nat /\ Amount(rows, k) \in Nat
  BY <1>1, RowsTyped, AmountTyped
<1>3. CASE k = rows[i + 1].key
  <2>1. Amount(rows, k) = rows[i + 1].n
    BY <1>1, <1>3, PlaceIs
  <2>2. \A j \in 1..i : rows[j].key # k
    BY <1>1, <1>3 DEF Distinct
  <2>3. Before(rows, i + 1, k) = Amount(rows, k) /\ Before(rows, i, k) = 0
    BY <1>1, <1>3, <2>2 DEF Before
  <2>. QED BY <1>2, <1>3, <2>1, <2>3 DEF More
<1>4. CASE k # rows[i + 1].key
  <2>1. (\E j \in 1..(i + 1) : rows[j].key = k) <=> (\E j \in 1..i : rows[j].key = k)
    BY <1>1, <1>4
  <2>2. Before(rows, i + 1, k) = Before(rows, i, k) /\ Before(rows, i, k) \in Nat
    BY <1>2, <2>1 DEF Before
  <2>. QED BY <1>4, <2>2 DEF More
<1>. QED BY <1>3, <1>4

\* All of them make the amount of the table.
LEMMA BeforeAll ==
    ASSUME NEW rows \in Seq(Rows), Distinct(rows), NEW k
    PROVE  Before(rows, 0, k) = 0 /\ Before(rows, Len(rows), k) = Amount(rows, k)
<1>1. Keys(rows) = {rows[i].key : i \in 1..Len(rows)} /\ 1..0 = {}
  BY RowsTyped
<1>. QED BY <1>1, AmountTyped DEF Before

\* restore(): row by row, the amounts change by those of the batch.
LEMMA RestoredTidy ==
    ASSUME NEW seen \in [Key -> Nat], Tidy(pending, seen),
           NEW rows \in Seq(Rows), Distinct(rows),
           \A i \in 1..Len(rows) : InTime(rows[i], seen),
           NEW res, res = Restored(rows)
    PROVE  /\ Tidy(res.rows, seen)
           /\ \A k : k \notin res.gone =>
                 Amount(res.rows, k) = Amount(pending, k) + Amount(rows, k)
<1>. DEFINE base == [rows |-> pending, gone |-> {}]
            N == Len(rows)
            Loop(g, n) == g = [i \in 0..n |-> IF i = 0 THEN base
                                              ELSE AddBack(g[i - 1], rows[i])]
            S == {n \in 0..N : \E g : Loop(g, n)}
            after == CHOOSE g : Loop(g, N)
<1>1. N \in Nat
  OBVIOUS
<1>2. 0 \in S
  <2>1. Loop([i \in 0..0 |-> base], 0)
    OBVIOUS
  <2>2. \E g : Loop(g, 0)
    <3>. HIDE DEF Loop
    <3>. QED BY <2>1
  <2>. QED BY <1>1, <2>2
<1>3. ASSUME NEW n \in 0..(N - 1), n \in S PROVE n + 1 \in S
  <2>1. PICK g : Loop(g, n)
    BY <1>3
  <2>. DEFINE h == [i \in 0..(n + 1) |-> IF i \in 0..n THEN g[i] ELSE AddBack(g[n], rows[n + 1])]
  <2>2. ASSUME NEW i \in 0..(n + 1)
        PROVE  h[i] = IF i = 0 THEN base ELSE AddBack(h[i - 1], rows[i])
    <3>1. CASE i = 0
      BY <1>1, <2>1, <3>1
    <3>2. CASE i \in 1..n
      <4>1. i \in 0..n /\ i - 1 \in 0..n /\ i # 0 /\ i - 1 \in 0..(n + 1)
        BY <1>1, <3>2
      <4>. QED BY <2>1, <4>1
    <3>3. CASE i = n + 1
      <4>1. i \notin 0..n /\ i - 1 = n /\ n \in 0..n /\ n \in 0..(n + 1) /\ i # 0
        BY <1>1, <3>3
      <4>. QED BY <3>3, <4>1
    <3>. QED BY <1>1, <3>1, <3>2, <3>3
  <2>3. Loop(h, n + 1)
    <3>1. h = [i \in 0..(n + 1) |-> h[i]]
      OBVIOUS
    <3>. HIDE DEF h
    <3>. QED BY <2>2, <3>1
  <2>. HIDE DEF Loop
  <2>. QED BY <1>1, <2>3
<1>4. N \in S
  <2>. HIDE DEF S
  <2>1. \A i \in 0..N : i \in S
    BY <1>1, <1>2, <1>3, UpTo
  <2>. QED BY <1>1, <2>1
<1>5. Loop(after, N)
  <2>1. \E g : Loop(g, N)
    BY <1>4
  <2>. HIDE DEF Loop
  <2>. QED BY <2>1
<1>6. res = after[N]
  BY DEF Restored
<1>7. /\ after[0] = base
      /\ \A i \in 0..(N - 1) : after[i + 1] = AddBack(after[i], rows[i + 1])
  <2>1. ASSUME NEW i \in 0..(N - 1)
        PROVE  i + 1 \in 0..N /\ i + 1 # 0 /\ (i + 1) - 1 = i
    BY <1>1
  <2>. HIDE DEF after
  <2>2. 0 \in 0..N
    BY <1>1
  <2>. QED BY <1>5, <2>1, <2>2
<1>. HIDE DEF after, S
<1>. DEFINE Kept(i) == /\ after[i] = [rows |-> after[i].rows, gone |-> after[i].gone]
                       /\ Tidy(after[i].rows, seen)
                       /\ \A k : k \notin after[i].gone =>
                             Amount(after[i].rows, k) = Amount(pending, k) + Before(rows, i, k)
            T == {i \in 0..N : Kept(i)}
<1>8. 0 \in T
  <2>1. after[0].rows = pending /\ after[0].gone = {}
    BY <1>7
  <2>2. \A k : Amount(pending, k) \in Nat /\ Before(rows, 0, k) = 0
    BY AmountTyped, BeforeAll DEF Tidy
  <2>. QED BY <1>1, <1>7, <2>1, <2>2
<1>9. ASSUME NEW i \in 0..(N - 1), i \in T PROVE i + 1 \in T
  <2>. DEFINE acc == after[i]
              r == rows[i + 1]
              next == after[i + 1]
  <2>1. r \in Rows /\ InTime(r, seen) /\ i + 1 \in 0..N
    BY <1>1
  <2>2. acc = [rows |-> acc.rows, gone |-> acc.gone] /\ Tidy(acc.rows, seen)
    BY <1>9
  <2>3. next = AddBack([rows |-> acc.rows, gone |-> acc.gone], r)
    BY <1>7, <2>2
  <2>4. \A k : k \notin acc.gone =>
           Amount(acc.rows, k) = Amount(pending, k) + Before(rows, i, k)
    BY <1>9
  <2>5. \A k : Before(rows, i + 1, k) = Before(rows, i, k) + More(r, k)
    BY BeforeNext
  <2>6. \A k : Amount(pending, k) \in Nat /\ Before(rows, i, k) \in Nat /\ More(r, k) \in Nat
    BY <2>1, AmountTyped DEF Tidy, Before, More, Rows
  <2>. HIDE DEF acc, r, next
  <2>7. Adds(next, acc.rows, acc.gone, r, seen)
    BY <2>1, <2>2, <2>3, AddBackTidy
  <2>8. /\ next = [rows |-> next.rows, gone |-> next.gone]
        /\ Tidy(next.rows, seen)
        /\ \A k : k \notin next.gone =>
              Amount(next.rows, k) = Amount(pending, k) + Before(rows, i + 1, k)
    BY <2>4, <2>5, <2>6, <2>7 DEF Adds
  <2>. QED BY <2>1, <2>8 DEF next
<1>10. N \in T
  <2>. HIDE DEF T
  <2>1. \A i \in 0..N : i \in T
    BY <1>1, <1>8, <1>9, UpTo
  <2>. QED BY <1>1, <2>1
<1>11. \A k : Before(rows, N, k) = Amount(rows, k)
  BY BeforeAll
<1>. QED BY <1>6, <1>10, <1>11

-----------------------------------------------------------------------------
(* The invariant.                                                          *)

Message == [rows : Seq(Rows), live : BOOLEAN]

\* Types; each report was made of rows with different keys.
ReportTypes ==
    /\ enabled \in BOOLEAN /\ config.on \in BOOLEAN /\ panelOn \in BOOLEAN
    /\ step \in {"idle", "configuring", "status", "reporting"}
    /\ answer \in {None, "ok", "rejected"}
    /\ observed \in [Key -> Nat] /\ saved \in [Key -> [n : Nat, first : Nat]]
    /\ wire \in Seq(Message) /\ \A i \in 1..Len(wire) : Distinct(wire[i].rows)

\* A batch has the form of what was in the collector.
BatchTidy ==
    /\ batch \in Seq(Rows) /\ Distinct(batch) /\ Len(batch) <= BatchLimit
    /\ \A i \in 1..Len(batch) : InTime(batch[i], observed)

\* There is a batch while it is reported, and its request is the last until it is answered.
Unanswered == step = "reporting" /\ answer = None
OneReport ==
    /\ IF step = "reporting" THEN batch # <<>> ELSE batch = <<>> /\ answer = None
    /\ Unanswered => wire # <<>> /\ wire[Len(wire)].live /\ wire[Len(wire)].rows = batch
    /\ \A i \in 1..Len(wire) : wire[i].live => Unanswered /\ i = Len(wire)

\* What a request holds that was given up is lost, or its batch came back.
GivenUp ==
    ~repeated => \A i \in 1..Len(wire) : ~wire[i].live => Keys(wire[i].rows) \subseteq lost

\* What the batch holds and the panel does not.
Due(k) == IF answer = "ok" THEN 0 ELSE Amount(batch, k)
Held(k) == Amount(pending, k) + Due(k) + saved[k].n
Balance ==
    \A k \in Key \ lost :
        observed[k] <= Held(k) /\ (~repeated => observed[k] = Held(k))

\* The inductive invariant: the balance of each key needs the form of the tables and
\* the place of the one report that may be under way.
ReportInv ==
    /\ ReportTypes
    /\ Tidy(pending, observed)
    /\ BatchTidy
    /\ OneReport
    /\ GivenUp
    /\ Balance
    /\ DisabledHoldsNothing

-----------------------------------------------------------------------------
(* The invariant holds at the start and after each step.                   *)

\* An empty table.
LEMMA EmptyRows ==
    /\ <<>> \in Seq(Rows) /\ Distinct(<<>>) /\ Keys(<<>>) = {} /\ Len(<<>>) = 0
    /\ \A k : Amount(<<>>, k) = 0
    /\ \A seen : Tidy(<<>>, seen)
<1>1. <<>> \in Seq(Rows) /\ Len(<<>>) = 0 /\ DOMAIN <<>> = {} /\ 1..0 = {}
  OBVIOUS
<1>2. Distinct(<<>>) /\ Keys(<<>>) = {}
  BY <1>1 DEF Distinct, Keys
<1>3. \A k : Amount(<<>>, k) = 0
  BY <1>2 DEF Amount
<1>. QED BY <1>1, <1>2, <1>3, ActivityAssumption DEF Tidy

\* Keys of rows are keys.
LEMMA KeysTyped ==
    ASSUME NEW rows \in Seq(Rows) PROVE Keys(rows) \subseteq Key
BY RowsTyped

\* The invariant holds at the start.
LEMMA InitReport == Init => ReportInv
<1>. SUFFICES ASSUME Init PROVE ReportInv
  OBVIOUS
<1>. USE DEF Init
<1>1. ReportTypes
  <2>1. <<>> \in Seq(Message) /\ 1..Len(<<>>) = {}
    OBVIOUS
  <2>. QED BY <2>1 DEF ReportTypes
<1>2. Tidy(pending, observed) /\ BatchTidy
  BY EmptyRows, ActivityAssumption DEF BatchTidy
<1>3. OneReport /\ GivenUp /\ DisabledHoldsNothing
  <2>1. 1..Len(<<>>) = {}
    OBVIOUS
  <2>. QED BY <2>1 DEF OneReport, Unanswered, GivenUp, DisabledHoldsNothing
<1>4. Balance
  <2>1. \A k \in Key : observed[k] = 0 /\ saved[k].n = 0 /\ Amount(pending, k) = 0
    BY EmptyRows
  <2>2. \A k \in Key : Due(k) = 0
    BY EmptyRows DEF Due
  <2>. QED BY <2>1, <2>2 DEF Balance, Held
<1>. QED BY <1>1, <1>2, <1>3, <1>4 DEF ReportInv

\* Amounts are naturals.
LEMMA Amounts ==
    ASSUME ReportInv
    PROVE  \A k \in Key : /\ observed[k] \in Nat /\ saved[k].n \in Nat
                          /\ Amount(pending, k) \in Nat /\ Amount(batch, k) \in Nat
                          /\ Due(k) \in Nat
<1>1. \A k : Amount(pending, k) \in Nat /\ Amount(batch, k) \in Nat
  BY AmountTyped DEF ReportInv, Tidy, BatchTidy
<1>2. \A k \in Key : observed[k] \in Nat /\ saved[k].n \in Nat
  BY DEF ReportInv, ReportTypes
<1>. QED BY <1>1, <1>2 DEF Due

\* A packet is counted: one more seen, one more pending.
LEMMA ObserveKeeps ==
    ASSUME ReportInv, NEW k \in Key, Observe(k) PROVE ReportInv'
<1>. DEFINE t   == observed[k] + 1
            r   == [key |-> k, n |-> 1, first |-> t, last |-> t]
            acc == Add([rows |-> pending, gone |-> {}], r)
<1>. USE DEF ReportInv
<1>1. /\ observed' = [observed EXCEPT ![k] = t] /\ pending' = acc.rows
      /\ lost' = lost \cup acc.gone /\ enabled
      /\ UNCHANGED <<enabled, batch, step, config, wire, answer, panelOn, saved, repeated>>
  BY DEF Observe, Admits, link, panelSwitches
<1>2. /\ observed \in [Key -> Nat] /\ t \in Nat /\ observed' \in [Key -> Nat]
      /\ \A j \in Key : observed'[j] = (observed[j] + IF j = k THEN 1 ELSE 0)
  <2>1. observed \in [Key -> Nat]
    BY DEF ReportTypes
  <2>2. t \in Nat /\ \A j \in Key : observed[j] \in Nat
    BY <2>1
  <2>. HIDE DEF t
  <2>3. \A j \in Key : observed'[j] = IF j = k THEN t ELSE observed[j]
    BY <1>1, <2>1
  <2>. QED BY <1>1, <2>1, <2>2, <2>3 DEF t
<1>3. \A j \in Key : observed[j] <= observed'[j] /\ observed[j] \in Nat /\ observed'[j] \in Nat
  BY <1>2
<1>4. ASSUME NEW row \in Rows, InTime(row, observed) PROVE InTime(row, observed')
  BY <1>3, <1>4 DEF InTime, Rows
<1>5. Tidy(pending, observed')
  BY <1>4 DEF Tidy
<1>6. r \in Rows /\ r.key = k /\ r.n = 1 /\ InTime(r, observed')
  <2>1. observed'[k] = t /\ 1 <= t
    BY <1>2
  <2>. HIDE DEF t
  <2>. QED BY <1>2, <2>1 DEF Rows, InTime
<1>. HIDE DEF r
<1>7. Adds(acc, pending, {}, r, observed')
  BY <1>2, <1>5, <1>6, AddTidy
<1>. HIDE DEF acc
<1>8. /\ Tidy(pending, observed)'
      /\ \A j \in Key \ lost' : Amount(pending', j) = (Amount(pending, j) + IF j = k THEN 1 ELSE 0)
  BY <1>1, <1>6, <1>7 DEF Adds, More
<1>9. ReportTypes'
  BY <1>1, <1>2 DEF ReportTypes
<1>10. BatchTidy'
  <2>1. \A i \in 1..Len(batch) : batch[i] \in Rows /\ InTime(batch[i], observed)
    BY DEF BatchTidy
  <2>2. \A i \in 1..Len(batch) : InTime(batch[i], observed')
    BY <1>4, <2>1
  <2>. QED BY <1>1, <2>2 DEF BatchTidy
<1>11. OneReport' /\ DisabledHoldsNothing'
  BY <1>1 DEF OneReport, Unanswered, DisabledHoldsNothing
<1>12. GivenUp'
  BY <1>1 DEF GivenUp
<1>13. Balance'
  <2>. SUFFICES ASSUME NEW j \in Key \ lost'
               PROVE  (observed[j] <= Held(j) /\ (~repeated => observed[j] = Held(j)))'
    BY DEF Balance
  <2>1. observed[j] <= Held(j) /\ (~repeated => observed[j] = Held(j)) /\ j \in Key
    BY <1>1 DEF Balance
  <2>2. Held(j)' = Amount(pending', j) + Due(j) + saved[j].n
    BY <1>1 DEF Held, Due
  <2>3. Amount(pending, j) \in Nat /\ Due(j) \in Nat /\ saved[j].n \in Nat
    BY <2>1, Amounts
  <2>. QED BY <1>1, <1>2, <1>3, <1>8, <2>1, <2>2, <2>3 DEF Held
<1>. QED BY <1>8, <1>9, <1>10, <1>11, <1>12, <1>13

\* Steps that leave the rows where they are, or are not about them.
LEMMA SteadyKeeps ==
    ASSUME ReportInv,
           UNCHANGED <<pending, batch, wire, answer, saved, observed, lost, repeated>>,
           ReportTypes', OneReport', DisabledHoldsNothing'
    PROVE  ReportInv'
<1>1. Tidy(pending, observed)' /\ BatchTidy' /\ GivenUp'
  BY DEF ReportInv, BatchTidy, GivenUp
<1>2. Balance'
  <2>1. \A k : Held(k)' = Held(k)
    BY DEF Held, Due
  <2>. QED BY <2>1 DEF ReportInv, Balance
<1>. QED BY <1>1, <1>2 DEF ReportInv

\* A config is asked for, or cannot be got.
LEMMA SyncKeeps ==
    ASSUME ReportInv, Ask \/ SyncFails \/ \E on, ips \in BOOLEAN : SetPanel(on, ips)
    PROVE  ReportInv'
<1>1. /\ UNCHANGED <<pending, batch, wire, answer, saved, observed, lost, repeated, enabled>>
      /\ \/ step' = step
         \/ step # "reporting" /\ step' \in {"idle", "configuring"}
  BY DEF Ask, SyncFails, SetPanel, node, link
<1>2. config.on' \in BOOLEAN /\ panelOn' \in BOOLEAN
  <2>1. config.on \in BOOLEAN /\ panelOn \in BOOLEAN
    BY DEF ReportInv, ReportTypes
  <2>2. CASE Ask
    <3>1. config' = [on |-> panelOn, ips |-> panelIps] /\ panelOn' = panelOn
      BY <2>2 DEF Ask, panelSwitches
    <3>. QED BY <2>1, <3>1
  <2>3. CASE SyncFails
    BY <2>1, <2>3 DEF SyncFails, panelSwitches
  <2>4. CASE \E on, ips \in BOOLEAN : SetPanel(on, ips)
    BY <2>1, <2>4 DEF SetPanel
  <2>. QED BY <2>2, <2>3, <2>4
<1>3. ReportTypes'
  BY <1>1, <1>2 DEF ReportInv, ReportTypes
<1>4. OneReport' /\ DisabledHoldsNothing'
  BY <1>1 DEF ReportInv, OneReport, Unanswered, DisabledHoldsNothing
<1>. QED BY <1>1, <1>3, <1>4, SteadyKeeps

\* A config is applied; when it switches collection off, nothing is kept.
LEMMA ConfigureKeepsInv ==
    ASSUME ReportInv, Configure PROVE ReportInv'
<1>. USE DEF ReportInv
<1>1. /\ step = "configuring" /\ step' = "status" /\ enabled' = config.on
      /\ UNCHANGED <<batch, config, wire, answer, panelOn, saved, observed, repeated>>
      /\ IF config.on THEN UNCHANGED <<pending, lost>>
                      ELSE pending' = <<>> /\ lost' = lost \cup Keys(pending)
  BY DEF Configure, link, panelSwitches
<1>2. config.on \in BOOLEAN /\ batch = <<>> /\ answer = None
  BY <1>1 DEF ReportTypes, OneReport
<1>3. ReportTypes'
  BY <1>1 DEF ReportTypes
<1>4. Tidy(pending, observed)'
  BY <1>1, <1>2, EmptyRows
<1>5. BatchTidy'
  BY <1>1 DEF BatchTidy
<1>6. OneReport' /\ DisabledHoldsNothing'
  BY <1>1, <1>2 DEF OneReport, Unanswered, DisabledHoldsNothing
<1>7. lost \subseteq lost'
  BY <1>1, <1>2
<1>8. GivenUp'
  BY <1>1, <1>7 DEF GivenUp
<1>9. Balance'
  <2>1. \A k \in Key \ lost' : k \in Key \ lost /\ Amount(pending', k) = Amount(pending, k)
    BY <1>1, <1>2, <1>7, EmptyRows DEF Amount
  <2>2. \A k \in Key \ lost' : Held(k)' = Held(k)
    BY <1>1, <2>1 DEF Held, Due
  <2>. QED BY <1>1, <2>1, <2>2 DEF Balance
<1>. QED BY <1>3, <1>4, <1>5, <1>6, <1>8, <1>9

\* The rows of a sequence are those of its first n and of the rest.
LEMMA Divided ==
    ASSUME NEW rows, NEW seen, Tidy(rows, seen), NEW n \in 0..Len(rows)
    PROVE  /\ Tidy(SubSeq(rows, 1, n), seen) /\ Len(SubSeq(rows, 1, n)) = n
           /\ Tidy(SubSeq(rows, n + 1, Len(rows)), seen)
           /\ \A k : Amount(rows, k) = Amount(SubSeq(rows, 1, n), k)
                                       + Amount(SubSeq(rows, n + 1, Len(rows)), k)
<1>. DEFINE p == SubSeq(rows, 1, n)
            q == SubSeq(rows, n + 1, Len(rows))
<1>1. /\ rows \in Seq(Rows) /\ Distinct(rows) /\ Len(rows) \in Nat /\ Len(rows) <= MaxPending
      /\ MaxPending \in Nat
      /\ \A i \in 1..Len(rows) : InTime(rows[i], seen) /\ rows[i] \in Rows
  BY ActivityAssumption DEF Tidy
<1>2. p \in Seq(Rows) /\ Len(p) = n /\ \A i \in 1..n : p[i] = rows[i] /\ i \in 1..Len(rows)
  BY <1>1
<1>3. /\ q \in Seq(Rows) /\ Len(q) = Len(rows) - n
      /\ \A i \in 1..Len(q) : q[i] = rows[i + n] /\ i + n \in 1..Len(rows)
  BY <1>1
<1>. HIDE DEF p, q
<1>4. Distinct(p) /\ Tidy(p, seen)
  BY <1>1, <1>2 DEF Tidy, Distinct
<1>5. Distinct(q) /\ Tidy(q, seen)
  <2>1. Distinct(q)
    <3>. SUFFICES ASSUME NEW i \in 1..Len(q), NEW j \in 1..Len(q), q[i].key = q[j].key
                 PROVE  i = j
      BY DEF Distinct
    <3>1. i + n = j + n
      BY <1>1, <1>3 DEF Distinct
    <3>. QED BY <1>3, <3>1
  <2>2. Len(q) <= MaxPending
    BY <1>1, <1>3
  <2>3. \A i \in 1..Len(q) : InTime(q[i], seen)
    BY <1>1, <1>3
  <2>. QED BY <1>3, <2>1, <2>2, <2>3 DEF Tidy
<1>6. /\ Keys(rows) = {rows[i].key : i \in 1..Len(rows)}
      /\ Keys(p) = {p[i].key : i \in 1..Len(p)} /\ Keys(q) = {q[i].key : i \in 1..Len(q)}
  BY <1>1, <1>2, <1>3, RowsTyped
<1>7. ASSUME NEW k
      PROVE  /\ {Amount(rows, k), Amount(p, k), Amount(q, k)} \subseteq Nat
             /\ k \notin Keys(p) => Amount(p, k) = 0
             /\ k \notin Keys(q) => Amount(q, k) = 0
             /\ k \notin Keys(rows) => Amount(rows, k) = 0
  BY <1>1, <1>2, <1>3, <1>4, <1>5, AmountTyped
<1>8. ASSUME NEW k PROVE Amount(rows, k) = Amount(p, k) + Amount(q, k)
  <2>1. CASE k \notin Keys(rows)
    <3>1. k \notin Keys(p) /\ k \notin Keys(q)
      BY <1>2, <1>3, <1>6, <2>1
    <3>. QED BY <1>7, <2>1, <3>1
  <2>2. CASE k \in Keys(rows)
    <3>1. PICK i \in 1..Len(rows) : rows[i].key = k
      BY <1>6, <2>2
    <3>2. Amount(rows, k) = rows[i].n /\ \A j \in 1..Len(rows) : rows[j].key = k => j = i
      BY <1>1, <3>1, PlaceIs DEF Distinct
    <3>3. CASE i <= n
      <4>1. i \in 1..Len(p) /\ p[i] = rows[i]
        BY <1>2, <3>3
      <4>2. Amount(p, k) = rows[i].n
        BY <1>2, <1>4, <3>1, <4>1, PlaceIs
      <4>3. ASSUME NEW j \in 1..Len(q) PROVE q[j].key # k
        <5>1. j + n \in 1..Len(rows) /\ q[j] = rows[j + n]
          BY <1>3
        <5>2. j + n # i
          BY <1>1, <1>3, <3>3
        <5>. QED BY <3>2, <5>1, <5>2
      <4>4. k \notin Keys(q)
        BY <1>6, <4>3
      <4>. QED BY <1>7, <3>2, <4>2, <4>4
    <3>4. CASE i > n
      <4>1. i - n \in 1..Len(q) /\ (i - n) + n = i
        BY <1>1, <1>3, <3>4
      <4>2. q[i - n] = rows[i]
        BY <1>3, <4>1
      <4>3. Amount(q, k) = rows[i].n
        BY <1>3, <1>5, <3>1, <4>1, <4>2, PlaceIs
      <4>4. \A j \in 1..Len(p) : p[j].key # k
        BY <1>2, <3>2, <3>4
      <4>5. k \notin Keys(p)
        BY <1>6, <4>4
      <4>. QED BY <1>7, <3>2, <4>3, <4>5
    <3>. QED BY <1>1, <3>3, <3>4
  <2>. QED BY <2>1, <2>2
<1>. QED BY <1>2, <1>4, <1>5, <1>8 DEF p, q

\* take(): rows move from the table to the batch, and their report goes out.
LEMMA SendKeeps ==
    ASSUME ReportInv, Send PROVE ReportInv'
<1>. DEFINE n == IF Len(pending) < BatchLimit THEN Len(pending) ELSE BatchLimit
<1>. USE DEF ReportInv
<1>1. /\ step = "status" /\ batch' = SubSeq(pending, 1, n)
      /\ pending' = SubSeq(pending, n + 1, Len(pending))
      /\ IF n = 0 THEN step' = "idle" /\ UNCHANGED wire
         ELSE step' = "reporting" /\ wire' = Append(wire, [rows |-> batch', live |-> TRUE])
      /\ UNCHANGED <<enabled, config, answer, panelOn, saved, observed, lost, repeated>>
  BY DEF Send, panelSwitches
<1>2. n \in 0..Len(pending) /\ n <= BatchLimit /\ (n > 0 => Len(pending) > 0)
  BY ActivityAssumption DEF Tidy
<1>3. batch = <<>> /\ answer = None
  BY <1>1 DEF OneReport
<1>. HIDE DEF n
<1>4. /\ Tidy(batch', observed) /\ Tidy(pending', observed) /\ Len(batch') = n
      /\ \A k : Amount(pending, k) = Amount(batch', k) + Amount(pending', k)
  <2>1. Tidy(pending, observed)
    OBVIOUS
  <2>2. /\ Tidy(SubSeq(pending, 1, n), observed) /\ Len(SubSeq(pending, 1, n)) = n
        /\ Tidy(SubSeq(pending, n + 1, Len(pending)), observed)
        /\ \A k : Amount(pending, k) = Amount(SubSeq(pending, 1, n), k)
                                       + Amount(SubSeq(pending, n + 1, Len(pending)), k)
    BY <1>2, <2>1, Divided
  <2>. QED BY <1>1, <2>2
<1>5. wire \in Seq(Message) /\ Len(wire) \in Nat /\ \A i \in 1..Len(wire) : wire[i] \in Message
  BY DEF ReportTypes
<1>6. \A i \in 1..Len(wire) : ~wire[i].live
  BY <1>1 DEF OneReport, Unanswered
<1>7. ASSUME n = 0 PROVE ReportTypes' /\ OneReport' /\ GivenUp'
  <2>1. batch' = <<>>
    BY <1>4, <1>7, EmptySeq DEF Tidy
  <2>2. ReportTypes' /\ OneReport' /\ GivenUp'
    BY <1>1, <1>3, <1>5, <1>6, <1>7, <2>1
       DEF ReportTypes, OneReport, Unanswered, GivenUp
  <2>. QED BY <2>2
<1>8. ASSUME n # 0 PROVE ReportTypes' /\ OneReport' /\ GivenUp'
  <2>. DEFINE m == [rows |-> batch', live |-> TRUE]
  <2>1. m \in Message /\ m.rows = batch' /\ m.live = TRUE
    BY <1>4 DEF Tidy, Message
  <2>2. step' = "reporting" /\ wire' = Append(wire, m)
    BY <1>1, <1>8
  <2>. HIDE DEF m
  <2>3. /\ wire' \in Seq(Message) /\ Len(wire') = Len(wire) + 1
        /\ wire'[Len(wire')] = m /\ Len(wire') \in 1..Len(wire') /\ wire' # <<>>
        /\ \A i \in 1..Len(wire') : i = Len(wire') \/ (i \in 1..Len(wire) /\ wire'[i] = wire[i])
    BY <1>5, <2>1, <2>2
  <2>4. batch' # <<>>
    BY <1>2, <1>4, <1>8
  <2>5. ReportTypes'
    <3>1. \A i \in 1..Len(wire') : Distinct(wire'[i].rows)
      BY <1>4, <2>1, <2>3 DEF Tidy, ReportTypes
    <3>. QED BY <1>1, <2>2, <2>3, <3>1 DEF ReportTypes
  <2>6. OneReport'
    BY <1>1, <1>3, <1>6, <2>1, <2>2, <2>3, <2>4 DEF OneReport, Unanswered
  <2>7. GivenUp'
    BY <1>1, <1>6, <2>1, <2>3 DEF GivenUp
  <2>. QED BY <2>5, <2>6, <2>7
<1>9. Tidy(pending, observed)'
  BY <1>1, <1>4
<1>10. BatchTidy'
  BY <1>1, <1>2, <1>4 DEF BatchTidy, Tidy
<1>11. DisabledHoldsNothing'
  <2>1. CASE enabled
    BY <1>1, <2>1 DEF DisabledHoldsNothing
  <2>2. CASE ~enabled
    <3>1. pending = <<>> /\ Len(pending) = 0 /\ n = 0
      BY <1>2, <2>2 DEF DisabledHoldsNothing
    <3>2. batch' = <<>> /\ pending' = <<>>
      BY <1>1, <3>1
    <3>. QED BY <3>2 DEF DisabledHoldsNothing
  <2>. QED BY <2>1, <2>2
<1>12. Balance'
  <2>1. \A k \in Key : Held(k)' = Held(k)
    <3>. TAKE k \in Key
    <3>1. Due(k) = 0 /\ Due(k)' = Amount(batch', k)
      BY <1>1, <1>3, EmptyRows, ActivityAssumption DEF Due
    <3>2. {Amount(pending', k), Amount(batch', k), saved[k].n} \subseteq Nat
      BY <1>4, AmountTyped DEF ReportTypes, Tidy
    <3>. QED BY <1>1, <1>4, <3>1, <3>2 DEF Held
  <2>. QED BY <1>1, <2>1 DEF Balance
<1>. QED BY <1>7, <1>8, <1>9, <1>10, <1>11, <1>12

\* The panel has the batch.
LEMMA AcceptedKeeps ==
    ASSUME ReportInv, ReportAccepted PROVE ReportInv'
<1>. USE DEF ReportInv
<1>1. /\ step = "reporting" /\ step' = "idle" /\ answer = "ok" /\ answer' = None /\ batch' = <<>>
      /\ UNCHANGED <<enabled, pending, config, wire, panelOn, saved, observed, lost, repeated>>
  BY DEF ReportAccepted, panelSwitches
<1>2. ReportTypes'
  BY <1>1 DEF ReportTypes
<1>3. Tidy(pending, observed)' /\ BatchTidy'
  BY <1>1, EmptyRows, ActivityAssumption DEF BatchTidy
<1>4. OneReport' /\ DisabledHoldsNothing'
  BY <1>1, ActivityAssumption DEF OneReport, Unanswered, DisabledHoldsNothing
<1>5. GivenUp'
  BY <1>1 DEF GivenUp
<1>6. Balance'
  <2>1. \A k : Due(k) = 0 /\ Due(k)' = 0
    BY <1>1, EmptyRows DEF Due
  <2>2. \A k : Held(k)' = Held(k)
    BY <1>1, <2>1 DEF Held
  <2>. QED BY <1>1, <2>2 DEF Balance
<1>. QED BY <1>2, <1>3, <1>4, <1>5, <1>6

\* What a report that failed leaves: the batch is in the collector again.
LEMMA PutBackKeeps ==
    ASSUME ReportInv, step = "reporting", PutBack
    PROVE  /\ Tidy(pending', observed) /\ lost \subseteq lost'
           /\ \A k \in Key \ lost' : Amount(pending', k) = Amount(pending, k) + Amount(batch, k)
           /\ lost' \subseteq lost' /\ batch' = <<>> /\ answer' = None /\ step' = "idle"
<1>. DEFINE acc == Restored(batch)
<1>1. /\ pending' = acc.rows /\ lost' = lost \cup acc.gone
      /\ batch' = <<>> /\ answer' = None /\ step' = "idle"
  BY DEF PutBack
<1>2. /\ observed \in [Key -> Nat] /\ Tidy(pending, observed)
      /\ batch \in Seq(Rows) /\ Distinct(batch)
      /\ \A i \in 1..Len(batch) : InTime(batch[i], observed)
  BY DEF ReportInv, ReportTypes, BatchTidy
<1>3. acc = Restored(batch)
  OBVIOUS
<1>. HIDE DEF acc
<1>4. /\ Tidy(acc.rows, observed)
      /\ \A k : k \notin acc.gone =>
            Amount(acc.rows, k) = Amount(pending, k) + Amount(batch, k)
  BY <1>2, <1>3, RestoredTidy
<1>. QED BY <1>1, <1>4

\* What a report that was not accepted leaves behind: its batch comes back.
LEMMA ReportFailsKeeps ==
    ASSUME ReportInv, step = "reporting", PutBack,
           UNCHANGED <<enabled, config, panelOn, saved, observed>>,
           wire' \in Seq(Message),
           \A i \in 1..Len(wire') : \E j \in 1..Len(wire) : wire'[i].rows = wire[j].rows,
           \A i \in 1..Len(wire') : ~wire'[i].live,
           repeated => repeated',
           ~repeated' => /\ answer # "ok"
                         /\ \A i \in 1..Len(wire') : \E j \in 1..Len(wire) :
                               wire'[i] = wire[j] /\ ~wire[j].live
    PROVE  ReportInv'
<1>. USE DEF ReportInv
<1>1. /\ Tidy(pending', observed) /\ lost \subseteq lost'
      /\ \A k \in Key \ lost' : Amount(pending', k) = Amount(pending, k) + Amount(batch, k)
      /\ batch' = <<>> /\ answer' = None /\ step' = "idle"
  BY PutBackKeeps
<1>2. ReportTypes'
  BY <1>1 DEF ReportTypes
<1>3. Tidy(pending, observed)' /\ BatchTidy'
  BY <1>1, EmptyRows, ActivityAssumption DEF BatchTidy
<1>4. OneReport' /\ DisabledHoldsNothing'
  BY <1>1 DEF OneReport, Unanswered, DisabledHoldsNothing
<1>5. GivenUp'
  BY <1>1 DEF GivenUp
<1>6. Balance'
  <2>. SUFFICES ASSUME NEW k \in Key \ lost'
               PROVE  (observed[k] <= Held(k) /\ (~repeated => observed[k] = Held(k)))'
    BY DEF Balance
  <2>1. observed[k] <= Held(k) /\ (~repeated => observed[k] = Held(k))
    BY <1>1 DEF Balance
  <2>2. Held(k)' = Amount(pending, k) + Amount(batch, k) + saved[k].n
    <3>1. Due(k)' = 0
      BY <1>1, EmptyRows DEF Due
    <3>2. saved[k].n \in Nat /\ Amount(pending, k) \in Nat /\ Amount(batch, k) \in Nat
      BY Amounts
    <3>. QED BY <1>1, <3>1, <3>2 DEF Held
  <2>3. /\ {observed[k], Amount(pending, k), Amount(batch, k), saved[k].n, Due(k)} \subseteq Nat
        /\ Due(k) = IF answer = "ok" THEN 0 ELSE Amount(batch, k)
    BY Amounts DEF Due
  <2>4. Held(k) <= Held(k)' /\ (answer # "ok" => Held(k) = Held(k)')
    BY <2>2, <2>3 DEF Held
  <2>5. Held(k) \in Nat /\ Held(k)' \in Nat
    BY <2>2, <2>3 DEF Held
  <2>6. observed[k] <= Held(k)' /\ (~repeated' => observed[k] = Held(k)')
    BY <2>1, <2>3, <2>4, <2>5
  <2>. QED BY <2>6
<1>. QED BY <1>2, <1>3, <1>4, <1>5, <1>6

\* The panel has answered with an error.
LEMMA RejectedKeeps ==
    ASSUME ReportInv, ReportRejected PROVE ReportInv'
<1>1. /\ step = "reporting" /\ answer = "rejected" /\ PutBack
      /\ UNCHANGED <<enabled, config, wire, panelOn, saved, observed, repeated>>
  BY DEF ReportRejected, panelSwitches
<1>2. wire \in Seq(Message) /\ \A i \in 1..Len(wire) : ~wire[i].live
  BY <1>1, ActivityAssumption DEF ReportInv, ReportTypes, OneReport, Unanswered
<1>. QED BY <1>1, <1>2, ReportFailsKeeps

\* A message that is given up.
LEMMA GivenUpMessages ==
    ASSUME wire \in Seq(Message), NEW w, w = [i \in DOMAIN wire |-> [wire[i] EXCEPT !.live = FALSE]]
    PROVE  /\ w \in Seq(Message) /\ Len(w) = Len(wire)
           /\ \A i \in 1..Len(wire) : w[i].rows = wire[i].rows /\ ~w[i].live
<1>1. Len(wire) \in Nat /\ DOMAIN wire = 1..Len(wire) /\ \A i \in 1..Len(wire) : wire[i] \in Message
  OBVIOUS
<1>2. \A i \in 1..Len(wire) : /\ [wire[i] EXCEPT !.live = FALSE] \in Message
                              /\ [wire[i] EXCEPT !.live = FALSE].rows = wire[i].rows
                              /\ [wire[i] EXCEPT !.live = FALSE].live = FALSE
  BY <1>1 DEF Message
<1>3. w \in [1..Len(wire) -> Message]
  BY <1>1, <1>2
<1>4. w \in Seq(Message) /\ Len(w) = Len(wire)
  BY <1>1, <1>3
<1>. QED BY <1>1, <1>2, <1>4

\* No answer came: the batch comes back, though the panel may have it or get it.
LEMMA LostKeeps ==
    ASSUME ReportInv, ReportLost PROVE ReportInv'
<1>1. /\ step = "reporting" /\ answer # "rejected" /\ PutBack
      /\ UNCHANGED <<enabled, config, panelOn, saved, observed>>
  BY DEF ReportLost, panelSwitches
<1>2. /\ wire \in Seq(Message) /\ Len(wire) \in Nat
      /\ \A i \in 1..Len(wire) : wire[i] \in Message /\ wire[i].live \in BOOLEAN
      /\ \A i \in 1..Len(wire) : wire[i].live => answer = None /\ i = Len(wire)
  <2>1. wire \in Seq(Message)
    BY DEF ReportInv, ReportTypes
  <2>2. Len(wire) \in Nat /\ \A i \in 1..Len(wire) : wire[i] \in Message
    BY <2>1
  <2>3. \A m \in Message : m.live \in BOOLEAN
    BY DEF Message
  <2>4. \A i \in 1..Len(wire) : wire[i].live => answer = None /\ i = Len(wire)
    BY DEF ReportInv, OneReport, Unanswered
  <2>. QED BY <2>1, <2>2, <2>3, <2>4
<1>3. CASE /\ wire' = IF wire # <<>> /\ Last(wire).live THEN Front(wire) ELSE wire
           /\ repeated' = (repeated \/ answer = "ok")
  <2>1. CASE wire # <<>> /\ Last(wire).live
    <3>1. Len(wire) \in 1..Len(wire) /\ wire[Len(wire)].live /\ wire' = SubSeq(wire, 1, Len(wire) - 1)
      BY <1>2, <1>3, <2>1 DEF Last, Front
    <3>2. /\ wire' \in Seq(Message) /\ Len(wire') = Len(wire) - 1
          /\ \A i \in 1..Len(wire') : wire'[i] = wire[i] /\ i \in 1..Len(wire) /\ i # Len(wire)
      <4>1. Len(wire) - 1 \in 0..Len(wire)
        BY <1>2, <3>1
      <4>2. /\ SubSeq(wire, 1, Len(wire) - 1) \in Seq(Message)
            /\ Len(SubSeq(wire, 1, Len(wire) - 1)) = Len(wire) - 1
            /\ \A i \in 1..(Len(wire) - 1) : SubSeq(wire, 1, Len(wire) - 1)[i] = wire[i]
        BY <1>2, <4>1, FirstOf
      <4>. QED BY <1>2, <3>1, <4>2
    <3>3. answer = None
      BY <1>2, <3>1
    <3>. QED BY <1>1, <1>2, <1>3, <3>2, <3>3, ActivityAssumption, ReportFailsKeeps
  <2>2. CASE ~(wire # <<>> /\ Last(wire).live)
    <3>1. wire' = wire
      BY <1>3, <2>2
    <3>2. \A i \in 1..Len(wire) : ~wire[i].live
      <4>1. ASSUME NEW i \in 1..Len(wire), wire[i].live PROVE FALSE
        <5>1. i = Len(wire) /\ wire # <<>>
          BY <1>2, <4>1
        <5>. QED BY <2>2, <4>1, <5>1 DEF Last
      <4>. QED BY <4>1
    <3>. QED BY <1>1, <1>2, <1>3, <3>1, <3>2, ReportFailsKeeps
  <2>. QED BY <2>1, <2>2
<1>4. CASE /\ wire' = [i \in DOMAIN wire |-> [wire[i] EXCEPT !.live = FALSE]]
           /\ repeated' = TRUE
  <2>1. /\ wire' \in Seq(Message) /\ Len(wire') = Len(wire)
        /\ \A i \in 1..Len(wire) : wire'[i].rows = wire[i].rows /\ ~wire'[i].live
    BY <1>2, <1>4, GivenUpMessages
  <2>. QED BY <1>1, <1>4, <2>1, ReportFailsKeeps
<1>. QED BY <1>3, <1>4 DEF ReportLost

\* The node starts anew: all it held is gone.
LEMMA RestartKeeps ==
    ASSUME ReportInv, Restart PROVE ReportInv'
<1>. USE DEF ReportInv
<1>1. /\ enabled' = FALSE /\ pending' = <<>> /\ batch' = <<>> /\ answer' = None /\ step' = "idle"
      /\ lost' = lost \cup Keys(pending) \cup Keys(batch)
      /\ wire' = [i \in DOMAIN wire |-> [wire[i] EXCEPT !.live = FALSE]]
      /\ UNCHANGED <<config, panelOn, saved, observed, repeated>>
  BY DEF Restart, panelSwitches
<1>2. wire \in Seq(Message)
  BY DEF ReportTypes
<1>3. /\ wire' \in Seq(Message) /\ Len(wire') = Len(wire)
      /\ \A i \in 1..Len(wire) : wire'[i].rows = wire[i].rows /\ ~wire'[i].live
  BY <1>1, <1>2, GivenUpMessages
<1>4. /\ pending \in Seq(Rows) /\ batch \in Seq(Rows)
      /\ Distinct(pending) /\ Distinct(batch)
  BY DEF Tidy, BatchTidy
<1>5. ReportTypes'
  BY <1>1, <1>3 DEF ReportTypes
<1>6. Tidy(pending, observed)' /\ BatchTidy'
  BY <1>1, EmptyRows, ActivityAssumption DEF BatchTidy
<1>7. OneReport' /\ DisabledHoldsNothing'
  BY <1>1, <1>3 DEF OneReport, Unanswered, DisabledHoldsNothing
<1>8. GivenUp'
  <2>. SUFFICES ASSUME ~repeated, NEW i \in 1..Len(wire), ~wire'[i].live
               PROVE  Keys(wire'[i].rows) \subseteq lost'
    BY <1>1, <1>3 DEF GivenUp
  <2>1. CASE wire[i].live
    <3>1. wire[i].rows = batch
      BY <2>1 DEF OneReport
    <3>. QED BY <1>1, <1>3, <3>1
  <2>2. CASE ~wire[i].live
    BY <1>1, <1>3, <2>2 DEF GivenUp
  <2>. QED BY <2>1, <2>2
<1>9. Balance'
  <2>. SUFFICES ASSUME NEW k \in Key \ lost'
               PROVE  (observed[k] <= Held(k) /\ (~repeated => observed[k] = Held(k)))'
    BY DEF Balance
  <2>1. observed[k] <= Held(k) /\ (~repeated => observed[k] = Held(k))
    BY <1>1 DEF Balance
  <2>2. Amount(pending, k) = 0 /\ Amount(batch, k) = 0
    BY <1>1, <1>4, AmountTyped
  <2>3. Held(k)' = Held(k)
    BY <1>1, <2>2, EmptyRows, ActivityAssumption DEF Held, Due
  <2>. QED BY <1>1, <2>1, <2>3
<1>. QED BY <1>5, <1>6, <1>7, <1>8, <1>9

\* The panel handles a report, the one awaited or one given up.
LEMMA HandleKeeps ==
    ASSUME ReportInv, NEW i \in DOMAIN wire, Handle(i) PROVE ReportInv'
<1>. DEFINE rows    == wire[i].rows
            rejects == panelOn /\ Invalid(rows)
            stored  == IF panelOn /\ ~rejects THEN Keys(rows) \ Unassigned ELSE {}
<1>. USE DEF ReportInv
<1>1. /\ saved' = [k \in Key |->
                      IF k \in stored THEN Upsert(saved[k], RowOf(rows, k)) ELSE saved[k]]
      /\ lost' = IF rejects THEN lost ELSE lost \cup (Keys(rows) \ stored)
      /\ answer' = IF ~wire[i].live THEN answer ELSE IF rejects THEN "rejected" ELSE "ok"
      /\ wire' = RemoveAt(wire, i)
      /\ UNCHANGED <<enabled, config, panelOn, pending, batch, step, observed, repeated>>
  BY DEF Handle, node, panelSwitches
<1>2. /\ wire \in Seq(Message) /\ Len(wire) \in Nat /\ i \in 1..Len(wire)
      /\ \A j \in 1..Len(wire) : wire[j] \in Message
      /\ rows \in Seq(Rows) /\ Distinct(rows)
      /\ \A j \in 1..Len(wire) : wire[j].live => Unanswered /\ j = Len(wire)
  <2>1. wire \in Seq(Message) /\ \A j \in 1..Len(wire) : Distinct(wire[j].rows)
    BY DEF ReportTypes
  <2>2. Len(wire) \in Nat /\ i \in 1..Len(wire) /\ \A j \in 1..Len(wire) : wire[j] \in Message
    BY <2>1
  <2>3. \A m \in Message : m.rows \in Seq(Rows)
    BY DEF Message
  <2>4. \A j \in 1..Len(wire) : wire[j].live => Unanswered /\ j = Len(wire)
    BY DEF OneReport
  <2>. QED BY <2>1, <2>2, <2>3, <2>4
<1>3. /\ wire' \in Seq(Message) /\ Len(wire') = Len(wire) - 1
      /\ \A j \in 1..Len(wire') : wire'[j] = wire[IF j < i THEN j ELSE j + 1]
  BY <1>1, <1>2, RemovedSeq
<1>4. \A j \in 1..Len(wire') : \E m \in 1..Len(wire) : m # i /\ wire'[j] = wire[m]
  <2>. TAKE j \in 1..Len(wire')
  <2>1. /\ (IF j < i THEN j ELSE j + 1) \in 1..Len(wire)
        /\ (IF j < i THEN j ELSE j + 1) # i
    BY <1>2, <1>3
  <2>. QED BY <1>3, <2>1
<1>5. wire[i].live => \A j \in 1..Len(wire') : ~wire'[j].live
  BY <1>2, <1>4
<1>6. lost \subseteq lost'
  BY <1>1
<1>7. wire[i].live => answer = None /\ step = "reporting" /\ rows = batch
  BY <1>2 DEF OneReport, Unanswered
<1>. HIDE DEF stored, rejects, rows
<1>8. /\ saved' \in [Key -> [n : Nat, first : Nat]]
      /\ \A k \in Key : saved'[k].n = IF k \in stored THEN saved[k].n + Amount(rows, k)
                                                      ELSE saved[k].n
  <2>1. saved \in [Key -> [n : Nat, first : Nat]]
    BY DEF ReportTypes
  <2>2. stored \subseteq Keys(rows)
    BY DEF stored
  <2>3. ASSUME NEW k \in Key, k \in stored
        PROVE  /\ Upsert(saved[k], RowOf(rows, k)) \in [n : Nat, first : Nat]
               /\ Upsert(saved[k], RowOf(rows, k)).n = saved[k].n + Amount(rows, k)
    <3>1. PICK j \in 1..Len(rows) : rows[j].key = k
      BY <1>2, <2>2, <2>3, RowsTyped
    <3>2. RowOf(rows, k) = rows[j] /\ Amount(rows, k) = rows[j].n
      BY <1>2, <3>1, PlaceIs
    <3>3. rows[j].n \in Nat /\ rows[j].first \in Nat
      BY <1>2, RowsTyped
    <3>4. saved[k].n \in Nat /\ saved[k].first \in Nat
      BY <2>1
    <3>. QED BY <3>2, <3>3, <3>4 DEF Upsert
  <2>. QED BY <1>1, <2>1, <2>3
<1>9. ReportTypes'
  <2>1. answer' \in {None, "ok", "rejected"}
    BY <1>1 DEF ReportTypes
  <2>2. \A j \in 1..Len(wire') : Distinct(wire'[j].rows)
    BY <1>4 DEF ReportTypes
  <2>. QED BY <1>1, <1>3, <1>8, <2>1, <2>2 DEF ReportTypes
<1>10. Tidy(pending, observed)' /\ BatchTidy' /\ DisabledHoldsNothing'
  BY <1>1 DEF BatchTidy, DisabledHoldsNothing
<1>11. OneReport'
  <2>1. CASE wire[i].live
    <3>1. answer' # None /\ step = "reporting" /\ ~Unanswered'
      BY <1>1, <1>7, <2>1, ActivityAssumption DEF Unanswered
    <3>. QED BY <1>1, <1>5, <1>7, <2>1, <3>1 DEF OneReport
  <2>2. CASE ~wire[i].live
    <3>1. answer' = answer /\ Unanswered' = Unanswered
      BY <1>1, <2>2 DEF Unanswered
    <3>2. ASSUME Unanswered
          PROVE  wire' # <<>> /\ wire'[Len(wire')].live /\ wire'[Len(wire')].rows = batch
      <4>1. wire # <<>> /\ wire[Len(wire)].live /\ wire[Len(wire)].rows = batch
        BY <3>2 DEF OneReport
      <4>2. i < Len(wire)
        BY <1>2, <2>2, <4>1
      <4>3. Len(wire') \in 1..Len(wire') /\ ~(Len(wire') < i) /\ Len(wire') + 1 = Len(wire)
        BY <1>2, <1>3, <4>2
      <4>4. wire'[Len(wire')] = wire[Len(wire)]
        BY <1>3, <4>3
      <4>. QED BY <4>1, <4>3, <4>4
    <3>3. ASSUME NEW j \in 1..Len(wire'), wire'[j].live PROVE Unanswered /\ j = Len(wire')
      <4>1. /\ (IF j < i THEN j ELSE j + 1) \in 1..Len(wire)
            /\ wire'[j] = wire[IF j < i THEN j ELSE j + 1]
        BY <1>2, <1>3
      <4>2. Unanswered /\ (IF j < i THEN j ELSE j + 1) = Len(wire)
        BY <1>2, <3>3, <4>1
      <4>. QED BY <1>2, <1>3, <4>2
    <3>. QED BY <1>1, <3>1, <3>2, <3>3 DEF OneReport
  <2>. QED BY <2>1, <2>2
<1>12. GivenUp'
  BY <1>1, <1>4, <1>6 DEF GivenUp
<1>13. Balance'
  <2>. SUFFICES ASSUME NEW k \in Key \ lost'
               PROVE  (observed[k] <= Held(k) /\ (~repeated => observed[k] = Held(k)))'
    BY DEF Balance
  <2>1. observed[k] <= Held(k) /\ (~repeated => observed[k] = Held(k)) /\ k \notin lost
    BY <1>6 DEF Balance
  <2>2. {observed[k], saved[k].n, Amount(pending, k), Amount(batch, k), Due(k)} \subseteq Nat
    BY Amounts
  <2>3. Amount(rows, k) \in Nat /\ (k \notin Keys(rows) => Amount(rows, k) = 0)
    BY <1>2, AmountTyped
  <2>4. saved'[k].n = IF k \in stored THEN saved[k].n + Amount(rows, k) ELSE saved[k].n
    BY <1>8
  <2>5. CASE wire[i].live
    <3>1. Due(k) = Amount(rows, k)
      BY <1>7, <2>5, ActivityAssumption DEF Due
    <3>2. CASE rejects
      <4>1. k \notin stored /\ Due(k)' = Amount(rows, k)
        BY <1>1, <1>7, <2>5, <3>2 DEF stored, Due
      <4>2. Held(k)' = Held(k)
        BY <1>1, <2>4, <3>1, <4>1 DEF Held
      <4>. QED BY <1>1, <2>1, <4>2
    <3>3. CASE ~rejects
      <4>1. Due(k)' = 0
        BY <1>1, <2>5, <3>3 DEF Due
      <4>2. k \notin stored => k \notin Keys(rows)
        BY <1>1, <3>3
      <4>3. saved'[k].n = saved[k].n + Amount(rows, k)
        BY <2>2, <2>3, <2>4, <4>2
      <4>4. Held(k)' = Held(k)
        BY <1>1, <2>2, <2>3, <3>1, <4>1, <4>3 DEF Held
      <4>. QED BY <1>1, <2>1, <4>4
    <3>. QED BY <3>2, <3>3
  <2>6. CASE ~wire[i].live
    <3>1. Due(k)' = Due(k)
      BY <1>1, <2>6 DEF Due
    <3>2. Held(k)' = Amount(pending, k) + Due(k) + saved'[k].n
      BY <1>1, <3>1 DEF Held
    <3>3. ~repeated => k \notin Keys(rows)
      BY <1>2, <2>1, <2>6 DEF GivenUp, rows
    <3>4. stored \subseteq Keys(rows)
      BY DEF stored
    <3>5. Held(k) <= Held(k)' /\ (~repeated => Held(k)' = Held(k)) /\ Held(k)' \in Nat
      BY <2>2, <2>3, <2>4, <3>2, <3>3, <3>4 DEF Held
    <3>6. Held(k) \in Nat
      BY <2>2 DEF Held
    <3>. QED BY <1>1, <2>1, <2>2, <3>5, <3>6
  <2>. QED BY <2>5, <2>6
<1>. QED BY <1>9, <1>10, <1>11, <1>12, <1>13

-----------------------------------------------------------------------------
(* The theorems.                                                           *)

\* At every moment each packet that was counted is in exactly one place, the
\* table, the batch or the panel, or its key is known to have been given up.
\* (Collector in sever/activity.py, report() of sever/node.py, the upsert of
\* control/store.py.)
THEOREM ReportInvariant == Spec => []ReportInv
<1>1. ASSUME ReportInv, [Next]_vars PROVE ReportInv'
  <2>1. CASE Next
    BY <1>1, <2>1, ObserveKeeps, SyncKeeps, ConfigureKeepsInv, SendKeeps, AcceptedKeeps,
       RejectedKeeps, LostKeeps, RestartKeeps, HandleKeeps DEF Next
  <2>2. CASE UNCHANGED vars
    <3>1. UNCHANGED <<pending, batch, wire, answer, saved, observed, lost, repeated, enabled, step,
                      config, panelOn>>
      BY <2>2 DEF vars, node, link, panelSwitches
    <3>2. ReportTypes' /\ OneReport' /\ DisabledHoldsNothing'
      BY <1>1, <3>1
         DEF ReportInv, ReportTypes, OneReport, Unanswered, DisabledHoldsNothing
    <3>. QED BY <1>1, <3>1, <3>2, SteadyKeeps
  <2>. QED BY <1>1, <2>1, <2>2
<1>. QED BY <1>1, InitReport, PTL DEF Spec

\* Rows of different keys are as many as their keys.
LEMMA KeysCounted ==
    ASSUME NEW rows \in Seq(Rows), Distinct(rows) PROVE Cardinality(Keys(rows)) = Len(rows)
<1>. DEFINE f == [i \in 1..Len(rows) |-> rows[i].key]
<1>1. Len(rows) \in Nat /\ Keys(rows) = {rows[i].key : i \in 1..Len(rows)}
  BY RowsTyped
<1>2. IsFiniteSet(1..Len(rows)) /\ Cardinality(1..Len(rows)) = Len(rows)
  BY <1>1, FS_Interval
<1>3. f \in Bijection(1..Len(rows), Keys(rows))
  BY <1>1 DEF Distinct, Bijection, Injection, Surjection, IsInjective
<1>. QED BY <1>2, <1>3, FS_Bijection, FS_SameCardinalityBij DEF ExistsBijection

\* The table has one row for each key and never more rows than its limit, a batch
\* never more than the panel takes, and no row ends before it begins.
\* (_add, take and restore in sever/activity.py.)
THEOREM Tidiness == Spec => []OneRowPerKey
<1>1. ReportInv => OneRowPerKey
  <2>. SUFFICES ASSUME ReportInv PROVE OneRowPerKey
    OBVIOUS
  <2>1. /\ pending \in Seq(Rows) /\ Distinct(pending) /\ Len(pending) <= MaxPending
        /\ Len(batch) <= BatchLimit /\ DOMAIN pending = 1..Len(pending)
        /\ \A i \in 1..Len(pending) : InTime(pending[i], observed)
    BY RowsTyped DEF ReportInv, Tidy, BatchTidy
  <2>. QED BY <2>1, KeysCounted DEF OneRowPerKey, InTime
<1>. QED BY <1>1, ReportInvariant, PTL

\* Whatever fails, a packet that was counted is in the table, in the batch or at
\* the panel, except for keys given up at the limit, at a restart or when collection
\* was switched off.  (restore() after a report that failed.)
THEOREM NothingLost == Spec => []NothingVanishes
<1>1. ReportInv => NothingVanishes
  <2>. SUFFICES ASSUME ReportInv, NEW k \in Key \ lost
               PROVE  observed[k] <= Amount(pending, k) + Amount(batch, k) + saved[k].n
    BY DEF NothingVanishes
  <2>1. observed[k] <= Held(k)
    BY DEF ReportInv, Balance
  <2>2. {observed[k], saved[k].n, Amount(pending, k), Amount(batch, k)} \subseteq Nat
    BY Amounts
  <2>. QED BY <2>1, <2>2 DEF Held, Due
<1>. QED BY <1>1, ReportInvariant, PTL

\* Nothing is counted twice, unless an answer was lost after the panel had saved
\* the report.  (The upsert in control/store.py adds to what is saved.)
THEOREM CountedOnce == Spec => []NoDoubleCount
<1>1. ReportInv => NoDoubleCount
  <2>. SUFFICES ASSUME ReportInv, ~repeated, NEW k \in Key \ lost
               PROVE  saved[k].n + Amount(pending, k) + OnWire(k) <= observed[k]
    BY DEF NoDoubleCount
  <2>1. observed[k] = Held(k)
    BY DEF ReportInv, Balance
  <2>2. {observed[k], saved[k].n, Amount(pending, k), Due(k)} \subseteq Nat
    BY Amounts
  <2>3. OnWire(k) = 0 \/ OnWire(k) = Due(k)
    <3>1. CASE wire = <<>>
      BY <3>1 DEF OnWire
    <3>2. CASE wire # <<>>
      <4>1. /\ wire \in Seq(Message) /\ Len(wire) \in 1..Len(wire)
            /\ \A i \in 1..Len(wire) : wire[i] \in Message
        BY <3>2 DEF ReportInv, ReportTypes
      <4>2. wire[Len(wire)].rows \in Seq(Rows) /\ Distinct(wire[Len(wire)].rows)
        BY <4>1 DEF Message, ReportInv, ReportTypes
      <4>3. OnWire(k) = Amount(wire[Len(wire)].rows, k)
        BY <3>2 DEF OnWire, Last
      <4>4. CASE wire[Len(wire)].live
        BY <4>1, <4>3, <4>4, ActivityAssumption DEF ReportInv, OneReport, Unanswered, Due
      <4>5. CASE ~wire[Len(wire)].live
        <5>1. k \notin Keys(wire[Len(wire)].rows)
          BY <4>1, <4>5 DEF ReportInv, GivenUp
        <5>. QED BY <4>2, <4>3, <5>1, AmountTyped
      <4>. QED BY <4>4, <4>5
    <3>. QED BY <3>1, <3>2
  <2>. QED BY <2>1, <2>2, <2>3 DEF Held
<1>. QED BY <1>1, ReportInvariant, PTL

\* A collector that was switched off holds nothing it has collected.
\* (configure() in sever/activity.py.)
THEOREM EmptiedWhenDisabled == Spec => []DisabledHoldsNothing
<1>1. ReportInv => DisabledHoldsNothing
  BY DEF ReportInv
<1>. QED BY <1>1, ReportInvariant, PTL

-----------------------------------------------------------------------------
USE ObserveAssumption

-----------------------------------------------------------------------------
(* ActivityObserve: the inductive invariant.                               *)

Table(S) == [Subject -> [Site -> {Nothing} \cup S]]

ObserveTypes ==
    /\ domains \in Table(Entry) /\ told \in Table(Entry)
    /\ flows \in Table(Nat) /\ spoken \in Table(Nat)

\* What the table of domains lacks of the history has expired or was
\* displaced.
DomainsTold ==
    \A u \in Subject, a \in Site : <<u, a>> \notin displaced =>
        \/ domains[u][a] = told[u][a]
        \/ domains[u][a] = Nothing /\ ~Live(told[u][a])

\* What the table of flows lacks has been silent for more than a minute.
FlowsSpoken ==
    \A u \in Subject, a \in Site :
        \/ flows[u][a] = spoken[u][a]
        \/ flows[u][a] = Nothing /\ spoken[u][a] # Nothing /\ spoken[u][a] > FlowGap

AddressesLimited ==
    \A u \in Subject : /\ IsFiniteSet(Remembered(domains, u))
                       /\ Cardinality(Remembered(domains, u)) <= MaxMappings

ObserveInv == ObserveTypes /\ DomainsTold /\ FlowsSpoken /\ AddressesLimited

LEMMA DistinctValues ==
    /\ \A e \in Entry : e # Nothing
    /\ \A n \in Nat : n # Nothing
BY NothingAssumption

\* Nothing is remembered in the empty table.
LEMMA EmptyTables ==
    /\ \A S : Empty \in Table(S)
    /\ \A u \in Subject, a \in Site : Empty[u][a] = Nothing
    /\ \A u \in Subject : /\ IsFiniteSet(Remembered(Empty, u))
                          /\ Cardinality(Remembered(Empty, u)) = 0
<1>1. \A S : Empty \in Table(S)
  BY DEF Empty, Table
<1>2. \A u \in Subject, a \in Site : Empty[u][a] = Nothing
  BY DEF Empty
<1>3. \A u \in Subject : Remembered(Empty, u) = {}
  BY <1>2 DEF Remembered
<1>. QED BY <1>1, <1>2, <1>3, FS_EmptySet

\* A table that forgets stays within the limit.
LEMMA StillLimited ==
    ASSUME AddressesLimited, NEW u \in Subject,
           Remembered(domains', u) \subseteq Remembered(domains, u)
    PROVE  /\ IsFiniteSet(Remembered(domains', u))
           /\ Cardinality(Remembered(domains', u)) <= MaxMappings
<1>1. /\ IsFiniteSet(Remembered(domains, u))
      /\ Cardinality(Remembered(domains, u)) <= MaxMappings
  BY DEF AddressesLimited
<1>2. /\ IsFiniteSet(Remembered(domains', u))
      /\ Cardinality(Remembered(domains', u)) <= Cardinality(Remembered(domains, u))
  BY <1>1, FS_Subset
<1>3. /\ Cardinality(Remembered(domains', u)) \in Nat
      /\ Cardinality(Remembered(domains, u)) \in Nat
  BY <1>1, <1>2, FS_CardinalityType
<1>. QED BY <1>1, <1>2, <1>3

\* The tables are emptied together with their history.
LEMMA ResetStep ==
    ASSUME domains' = Empty, flows' = Empty, told' = Empty, spoken' = Empty
    PROVE  ObserveInv'
BY EmptyTables DEF ObserveInv, ObserveTypes, DomainsTold, FlowsSpoken, AddressesLimited

-----------------------------------------------------------------------------
(* The steps.                                                              *)

\* An answer makes room for itself, and what made room is marked.
LEMMA AnswerStep ==
    ASSUME ObserveInv, NEW u \in Subject, NEW a \in Site, NEW d \in Domain, NEW ttl \in Ttls,
           DnsAnswer(u, d, a, ttl)
    PROVE  ObserveInv'
<1>. USE DEF ObserveInv, ObserveTypes
<1>. DEFINE entry == [domain |-> d, left |-> Clamped(ttl)]
            full == /\ Cardinality(Remembered(domains, u)) >= MaxMappings
                    /\ domains[u][a] = Nothing
<1>1. entry \in Entry /\ entry # Nothing
  <2>1. Clamped(ttl) \in Nat
    BY DEF Clamped
  <2>. QED BY <2>1, DistinctValues DEF Entry
<1>2. /\ told' = [told EXCEPT ![u][a] = entry]
      /\ UNCHANGED <<flows, spoken>>
  BY DEF DnsAnswer
<1>. HIDE DEF entry
<1>3. /\ told' \in Table(Entry)
      /\ \A v \in Subject, b \in Site :
           told'[v][b] = IF v = u /\ b = a THEN entry ELSE told[v][b]
  BY <1>1, <1>2 DEF Table
<1>4. flows' \in Table(Nat) /\ spoken' \in Table(Nat) /\ FlowsSpoken'
  BY <1>2 DEF FlowsSpoken
<1>5. CASE ~full
  <2>1. /\ domains' = [domains EXCEPT ![u][a] = entry]
        /\ displaced' = displaced \ {<<u, a>>}
    BY <1>5 DEF DnsAnswer, entry
  <2>2. /\ domains' \in Table(Entry)
        /\ \A v \in Subject, b \in Site :
             domains'[v][b] = IF v = u /\ b = a THEN entry ELSE domains[v][b]
    BY <1>1, <2>1 DEF Table
  <2>3. DomainsTold'
    BY <1>3, <2>1, <2>2 DEF DomainsTold
  <2>4. ASSUME NEW v \in Subject
        PROVE  /\ IsFiniteSet(Remembered(domains', v))
               /\ Cardinality(Remembered(domains', v)) <= MaxMappings
    <3>1. CASE v # u \/ domains[u][a] # Nothing
      <4>1. Remembered(domains', v) \subseteq Remembered(domains, v)
        BY <1>1, <2>2, <3>1 DEF Remembered
      <4>. QED BY <4>1, StillLimited
    <3>2. CASE v = u /\ domains[u][a] = Nothing
      <4>1. /\ Remembered(domains', u) = Remembered(domains, u) \cup {a}
            /\ a \notin Remembered(domains, u)
        BY <1>1, <2>2, <3>2 DEF Remembered
      <4>2. /\ IsFiniteSet(Remembered(domains, u))
            /\ Cardinality(Remembered(domains, u)) \in Nat
        BY FS_CardinalityType DEF AddressesLimited
      <4>3. /\ IsFiniteSet(Remembered(domains', u))
            /\ Cardinality(Remembered(domains', u)) = Cardinality(Remembered(domains, u)) + 1
        BY <4>1, <4>2, FS_AddElement
      <4>. QED BY <1>5, <3>2, <4>2, <4>3
    <3>. QED BY <3>1, <3>2
  <2>. QED BY <1>2, <1>3, <1>4, <2>2, <2>3, <2>4 DEF AddressesLimited
<1>6. CASE full
  <2>1. PICK old \in Displaceable(u) :
          /\ domains' = [domains EXCEPT ![u][old] = Nothing, ![u][a] = entry]
          /\ displaced' = (displaced \cup {<<u, old>>}) \ {<<u, a>>}
    BY <1>6 DEF DnsAnswer, entry
  <2>2. old \in Site /\ old \in Remembered(domains, u) /\ old # a
    BY <1>6, <2>1 DEF Displaceable, Remembered
  <2>3. /\ domains' \in Table(Entry)
        /\ \A v \in Subject, b \in Site :
             domains'[v][b] = IF v = u /\ b = a THEN entry
                              ELSE IF v = u /\ b = old THEN Nothing ELSE domains[v][b]
    BY <1>1, <2>1, <2>2 DEF Table
  <2>4. DomainsTold'
    <3>. SUFFICES ASSUME NEW v \in Subject, NEW b \in Site, <<v, b>> \notin displaced'
         PROVE  \/ domains'[v][b] = told'[v][b]
                \/ domains'[v][b] = Nothing /\ ~Live(told'[v][b])
      BY DEF DomainsTold, Live
    <3>1. CASE v = u /\ b = a
      BY <1>3, <2>3, <3>1
    <3>2. CASE v = u /\ b = old /\ b # a
      BY <2>1, <3>2
    <3>3. CASE ~(v = u /\ b \in {a, old})
      <4>1. <<v, b>> \notin displaced
        BY <2>1, <3>3
      <4>. QED BY <1>3, <2>3, <3>3, <4>1 DEF DomainsTold
    <3>. QED BY <3>1, <3>2, <3>3
  <2>5. ASSUME NEW v \in Subject
        PROVE  /\ IsFiniteSet(Remembered(domains', v))
               /\ Cardinality(Remembered(domains', v)) <= MaxMappings
    <3>1. CASE v # u
      <4>1. Remembered(domains', v) \subseteq Remembered(domains, v)
        BY <2>3, <3>1 DEF Remembered
      <4>. QED BY <4>1, StillLimited
    <3>2. CASE v = u
      <4>. DEFINE rest == Remembered(domains, u) \ {old}
      <4>1. Remembered(domains', u) = rest \cup {a} /\ a \notin rest
        BY <1>1, <1>6, <2>2, <2>3 DEF Remembered
      <4>2. /\ IsFiniteSet(Remembered(domains, u))
            /\ Cardinality(Remembered(domains, u)) \in Nat
        BY FS_CardinalityType DEF AddressesLimited
      <4>3. IsFiniteSet(rest) /\ Cardinality(rest) = Cardinality(Remembered(domains, u)) - 1
        BY <2>2, <4>2, FS_RemoveElement
      <4>. HIDE DEF rest
      <4>4. /\ IsFiniteSet(Remembered(domains', u))
            /\ Cardinality(Remembered(domains', u)) = Cardinality(rest) + 1
        BY <4>1, <4>3, FS_AddElement
      <4>. QED BY <3>2, <4>2, <4>3, <4>4 DEF AddressesLimited
    <3>. QED BY <3>1, <3>2
  <2>. QED BY <1>2, <1>3, <1>4, <2>3, <2>4, <2>5 DEF AddressesLimited
<1>. QED BY <1>5, <1>6

\* Pruning the table of domains takes what has expired.
LEMMA PrunedDomains ==
    ASSUME ObserveInv, UNCHANGED <<told, displaced>>,
           domains' \in Table(Entry),
           \A u \in Subject, a \in Site :
             \/ domains'[u][a] = domains[u][a]
             \/ domains'[u][a] = Nothing /\ ~Live(domains[u][a])
    PROVE  DomainsTold' /\ AddressesLimited'
<1>1. DomainsTold'
  BY DistinctValues DEF ObserveInv, DomainsTold, Live
<1>2. \A u \in Subject : Remembered(domains', u) \subseteq Remembered(domains, u)
  BY DEF Remembered
<1>. QED BY <1>1, <1>2, StillLimited DEF ObserveInv, AddressesLimited

LEMMA UpstreamStep ==
    ASSUME ObserveInv, NEW u \in Subject, NEW a \in Site,
           NEW udp \in BOOLEAN, NEW prunes \in BOOLEAN, Upstream(u, a, udp, prunes)
    PROVE  ObserveInv'
<1>. USE DEF ObserveInv, ObserveTypes
<1>. DEFINE looked == LookedUp(domains, u, a)
            noted  == IF udp THEN [flows EXCEPT ![u][a] = 0] ELSE flows
<1>1. /\ domains' = IF prunes THEN CleanedDomains(looked) ELSE looked
      /\ flows' = IF prunes THEN CleanedFlows(noted) ELSE noted
      /\ spoken' = IF udp THEN [spoken EXCEPT ![u][a] = 0] ELSE spoken
      /\ UNCHANGED <<told, displaced>>
  BY DEF Upstream
<1>2. /\ looked \in Table(Entry)
      /\ \A v \in Subject, b \in Site :
           \/ looked[v][b] = domains[v][b]
           \/ looked[v][b] = Nothing /\ ~Live(domains[v][b])
  BY DEF LookedUp, Table
<1>3. /\ noted \in Table(Nat) /\ spoken' \in Table(Nat)
      /\ \A v \in Subject, b \in Site :
           \/ noted[v][b] = spoken'[v][b]
           \/ /\ noted[v][b] = Nothing
              /\ spoken'[v][b] # Nothing /\ spoken'[v][b] > FlowGap
  <2>1. CASE udp
    BY <1>1, <2>1 DEF Table, FlowsSpoken
  <2>2. CASE ~udp
    BY <1>1, <2>2 DEF FlowsSpoken
  <2>. QED BY <2>1, <2>2
<1>. HIDE DEF looked, noted
<1>4. /\ domains' \in Table(Entry)
      /\ \A v \in Subject, b \in Site :
           \/ domains'[v][b] = domains[v][b]
           \/ domains'[v][b] = Nothing /\ ~Live(domains[v][b])
  <2>1. CASE prunes
    BY <1>1, <1>2, <2>1 DEF CleanedDomains, Table
  <2>2. CASE ~prunes
    BY <1>1, <1>2, <2>2
  <2>. QED BY <2>1, <2>2
<1>5. flows' \in Table(Nat) /\ FlowsSpoken'
  <2>1. CASE prunes
    <3>1. /\ flows' \in Table(Nat)
          /\ \A v \in Subject, b \in Site :
               \/ flows'[v][b] = noted[v][b]
               \/ /\ flows'[v][b] = Nothing /\ noted[v][b] \in Nat
                  /\ noted[v][b] > FlowKept
      BY <1>1, <1>3, <2>1 DEF CleanedFlows, FlowStays, Table
    <3>2. \A v \in Subject, b \in Site :
            spoken'[v][b] \in {Nothing} \cup Nat
      BY <1>3 DEF Table
    <3>. QED BY <1>3, <3>1, <3>2, DistinctValues DEF FlowsSpoken
  <2>2. CASE ~prunes
    BY <1>1, <1>3, <2>2 DEF FlowsSpoken
  <2>. QED BY <2>1, <2>2
<1>6. DomainsTold' /\ AddressesLimited'
  BY <1>1, <1>4, PrunedDomains
<1>. QED BY <1>1, <1>3, <1>4, <1>5, <1>6

LEMMA DownstreamStep ==
    ASSUME ObserveInv, NEW u \in Subject, NEW a \in Site, Downstream(u, a)
    PROVE  ObserveInv'
<1>. USE DEF ObserveInv, ObserveTypes
<1>1. /\ domains' = LookedUp(domains, u, a)
      /\ UNCHANGED <<flows, told, spoken, displaced>>
  BY DEF Downstream, history
<1>2. /\ domains' \in Table(Entry)
      /\ \A v \in Subject, b \in Site :
           \/ domains'[v][b] = domains[v][b]
           \/ domains'[v][b] = Nothing /\ ~Live(domains[v][b])
  BY <1>1 DEF LookedUp, Table
<1>3. DomainsTold' /\ AddressesLimited'
  BY <1>1, <1>2, PrunedDomains
<1>. QED BY <1>1, <1>2, <1>3 DEF FlowsSpoken

\* Time passes for the tables and their history alike; what has expired stays
\* so and what was silent stays silent.
LEMMA PassStep ==
    ASSUME ObserveInv, Pass
    PROVE  ObserveInv'
<1>. USE DEF ObserveInv, ObserveTypes
<1>1. \A e \in Entry : /\ Shortened(e) \in Entry
                       /\ e.left = 0 => Shortened(e).left = 0
  BY DEF Entry, Less, Shortened
<1>2. \A n \in Nat : Since(n) \in Nat /\ Since(n) >= n
  BY DEF Since
<1>3. ASSUME NEW table \in Table(Entry)
      PROVE  Aged(table) \in Table(Entry)
  BY <1>1 DEF Aged, Table
<1>4. ASSUME NEW table \in Table(Nat)
      PROVE  /\ AgedFlows(table) \in Table(Nat)
             /\ \A u \in Subject, a \in Site :
                  AgedFlows(table)[u][a] = IF table[u][a] = Nothing THEN Nothing
                                           ELSE Since(table[u][a])
  BY <1>2 DEF AgedFlows, Table
<1>5. /\ domains' = Aged(domains) /\ told' = Aged(told)
      /\ flows' = AgedFlows(flows) /\ spoken' = AgedFlows(spoken)
      /\ displaced' = displaced
  BY DEF Pass
<1>d. \A u \in Subject, a \in Site :
        domains'[u][a] = IF domains[u][a] = Nothing THEN Nothing
                         ELSE Shortened(domains[u][a])
  BY <1>5 DEF Aged
<1>t. \A u \in Subject, a \in Site :
        told'[u][a] = IF told[u][a] = Nothing THEN Nothing
                      ELSE Shortened(told[u][a])
  BY <1>5 DEF Aged
<1>6. ObserveTypes'
  BY <1>3, <1>4, <1>5
<1>7. DomainsTold'
  <2>. SUFFICES ASSUME NEW u \in Subject, NEW a \in Site, <<u, a>> \notin displaced
       PROVE  \/ domains'[u][a] = told'[u][a]
              \/ domains'[u][a] = Nothing /\ ~Live(told'[u][a])
    BY <1>5 DEF DomainsTold, Live
  <2>1. CASE domains[u][a] = told[u][a]
    BY <1>d, <1>t, <2>1
  <2>2. CASE domains[u][a] = Nothing /\ told[u][a] = Nothing
    BY <1>d, <1>t, <2>2
  <2>3. CASE /\ domains[u][a] = Nothing /\ ~Live(told[u][a])
             /\ told[u][a] # Nothing
    <3>1. told[u][a] \in Entry
      BY <2>3 DEF Table
    <3>2. told[u][a].left = 0
      BY <2>3, <3>1 DEF Live, Entry
    <3>3. told'[u][a] = Shortened(told[u][a])
      BY <1>t, <2>3
    <3>4. told'[u][a].left = 0
      BY <1>1, <3>1, <3>2, <3>3
    <3>5. domains'[u][a] = Nothing
      BY <1>d, <2>3
    <3>. QED BY <3>4, <3>5 DEF Live
  <2>. QED BY <2>1, <2>2, <2>3 DEF DomainsTold
<1>8. FlowsSpoken'
  <2>. SUFFICES ASSUME NEW u \in Subject, NEW a \in Site
       PROVE  \/ flows'[u][a] = spoken'[u][a]
              \/ /\ flows'[u][a] = Nothing
                 /\ spoken'[u][a] # Nothing /\ spoken'[u][a] > FlowGap
    BY DEF FlowsSpoken
  <2>1. CASE flows[u][a] = spoken[u][a]
    BY <1>4, <1>5, <2>1
  <2>2. CASE flows[u][a] = Nothing /\ spoken[u][a] # Nothing /\ spoken[u][a] > FlowGap
    <3>1. spoken[u][a] \in Nat
      BY <2>2 DEF Table
    <3>2. spoken'[u][a] = Since(spoken[u][a]) /\ flows'[u][a] = Nothing
      BY <1>4, <1>5, <2>2
    <3>3. spoken'[u][a] \in Nat /\ spoken'[u][a] >= spoken[u][a]
      BY <1>2, <3>1, <3>2
    <3>. QED BY <2>2, <3>1, <3>2, <3>3, DistinctValues
  <2>. QED BY <2>1, <2>2 DEF FlowsSpoken
<1>9. AddressesLimited'
  <2>1. \A u \in Subject : Remembered(domains', u) \subseteq Remembered(domains, u)
    BY <1>d DEF Remembered
  <2>. QED BY <2>1, StillLimited DEF AddressesLimited
<1>. QED BY <1>6, <1>7, <1>8, <1>9

-----------------------------------------------------------------------------
(* Theorems.                                                               *)

\* The inductive invariant holds in every state of the collector's tables:
\* they differ from the tables without any pruning by what nobody would ask
\* for, or by what was displaced.
THEOREM ObserveInvariant == ObserveSpec => []ObserveInv
<1>1. ObserveInit => ObserveInv
  BY ResetStep, EmptyTables
     DEF ObserveInit, ObserveInv, ObserveTypes, DomainsTold, FlowsSpoken, AddressesLimited
<1>2. ObserveInv /\ [ObserveNext]_observeVars => ObserveInv'
  <2>. SUFFICES ASSUME ObserveInv, [ObserveNext]_observeVars PROVE ObserveInv'
    OBVIOUS
  <2>1. ASSUME NEW on \in BOOLEAN, Switch(on) PROVE ObserveInv'
    <3>1. CASE on
      BY <2>1, <3>1 DEF Switch, tables, history, ObserveInv, ObserveTypes, DomainsTold, FlowsSpoken,
         AddressesLimited, Remembered, Live
    <3>2. CASE ~on
      BY <2>1, <3>2, ResetStep DEF Switch
    <3>. QED BY <3>1, <3>2
  <2>2. CASE UNCHANGED observeVars
    BY <2>2 DEF observeVars, tables, history, ObserveInv, ObserveTypes, DomainsTold, FlowsSpoken,
       AddressesLimited, Remembered, Live
  <2>. QED BY <2>1, <2>2, AnswerStep, UpstreamStep, DownstreamStep, PassStep DEF ObserveNext
<1>. QED BY <1>1, <1>2, PTL DEF ObserveSpec

\* Nobody can tell that the tables are pruned: traffic is charged to the
\* domain of the last answer while that is valid and to none afterwards, a
\* flow is new after a minute and not before, and no user has more addresses
\* than the limit.  (_domain_for_ip, _cleanup and
\* _remember_answers in sever/activity.py.)
THEOREM Unseen == ObserveSpec => []PruningUnseen
<1>1. ObserveInv => PruningUnseen
  <2>. SUFFICES ASSUME ObserveInv, NEW u \in Subject, NEW a \in Site
       PROVE  /\ <<u, a>> \notin displaced =>
                  DomainForIp(domains, u, a) =
                      (IF Live(told[u][a]) THEN told[u][a].domain ELSE NoDomain)
              /\ NewFlow(flows, u, a) = NewFlow(spoken, u, a)
    BY DEF PruningUnseen, ObserveInv, AddressesLimited
  <2>1. <<u, a>> \notin displaced =>
           DomainForIp(domains, u, a) =
               (IF Live(told[u][a]) THEN told[u][a].domain ELSE NoDomain)
    BY DEF ObserveInv, DomainsTold, DomainForIp, Live
  <2>2. NewFlow(flows, u, a) <=> NewFlow(spoken, u, a)
    BY DEF ObserveInv, FlowsSpoken, NewFlow
  <2>. QED BY <2>1, <2>2 DEF NewFlow
<1>. QED BY <1>1, ObserveInvariant, PTL
=============================================================================
