-------------------------- MODULE TransportProofs ---------------------------
(***************************************************************************)
(* Proofs about Framing and ClientSession.  Framing: whatever packets are  *)
(* sent and however they are batched, the reader gets the frames that were *)
(* written, for all sizes and all limits.  ClientSession: on a working     *)
(* network neither end gives the other up, for all intervals of the        *)
(* heartbeat and all limits that satisfy PromptAssumption.                 *)
(***************************************************************************)
EXTENDS Framing, ClientSession, ProofLemmas, SequenceTheorems

-----------------------------------------------------------------------------
(* Chains of units: whole frames, one after the other.                     *)

\* A unit of w: u[2]-th byte of the frame u[1], which is w[u[1]] bytes long;
\* the first byte stands for the header.
Unit(w) == {u \in (1..Len(w)) \X (Nat \ {0}) : u[2] <= w[u[1]]}
\* The last byte of its frame, and the byte that comes next on the wire.
EndsFrame(w, u) == u[2] = w[u[1]]
Succ(w, u) == IF EndsFrame(w, u) THEN <<u[1] + 1, 1>> ELSE <<u[1], u[2] + 1>>

\* The units of q are those of frame a, of frame a + 1 and so on; the last is whole.
Chain(w, q, a) ==
    /\ q \in Seq(Unit(w))
    /\ q # <<>> => q[1] = <<a, 1>> /\ EndsFrame(w, q[Len(q)])
    /\ \A i \in 1..(Len(q) - 1) : q[i + 1] = Succ(w, q[i])

\* The frame that comes after q.
Stop(q, a) == IF q = <<>> THEN a ELSE q[Len(q)][1] + 1

\* The lengths of frames; bytes, before it is known of which frames they are.
Lengths == Seq(Nat \ {0})
Pair == Nat \X Nat
Units == Seq(Pair)

\* The parts of a unit.
LEMMA UnitTyped ==
    ASSUME NEW w \in Lengths, NEW u \in Unit(w)
    PROVE  /\ u[1] \in 1..Len(w) /\ u[1] \in Nat /\ u[2] \in Nat \ {0} /\ u[2] <= w[u[1]]
           /\ w[u[1]] \in Nat \ {0} /\ u = <<u[1], u[2]>>
<1>1. u \in (1..Len(w)) \X (Nat \ {0}) /\ u[2] <= w[u[1]]
  BY DEF Unit
<1>2. u[1] \in 1..Len(w) /\ u[2] \in Nat \ {0} /\ u = <<u[1], u[2]>>
  BY <1>1
<1>3. \A f \in 1..Len(w) : w[f] \in Nat \ {0} /\ f \in Nat
  BY DEF Lengths
<1>. QED BY <1>1, <1>2, <1>3

\* Frame f is in q as a whole, from its i-th unit on.
Whole(w, q, i, f) ==
    /\ f \in 1..Len(w) /\ w[f] \in Nat \ {0}
    /\ \A k \in 0..(w[f] - 1) : i + k <= Len(q) /\ q[i + k] = <<f, k + 1>>
    /\ i + w[f] <= Len(q) => q[i + w[f]] = <<f + 1, 1>>

\* A chain goes through a frame to its end once it is at its header.
LEMMA FrameAt ==
    ASSUME NEW w \in Lengths, NEW a, NEW q, Chain(w, q, a),
           NEW i \in 1..Len(q), NEW f, q[i] = <<f, 1>>
    PROVE  Whole(w, q, i, f)
<1>1. q \in Seq(Unit(w)) /\ Len(q) \in Nat /\ \A j \in 1..Len(q) : q[j] \in Unit(w)
  BY DEF Chain
<1>2. f \in 1..Len(w) /\ f \in Nat /\ w[f] \in Nat \ {0}
  <2>1. q[i][1] = f
    OBVIOUS
  <2>. QED BY <1>1, <2>1, UnitTyped
<1>3. EndsFrame(w, q[Len(q)]) /\ \A j \in 1..(Len(q) - 1) : q[j + 1] = Succ(w, q[j])
  BY <1>1 DEF Chain
<1>. DEFINE S == {k \in 0..(w[f] - 1) : i + k <= Len(q) /\ q[i + k] = <<f, k + 1>>}
<1>4. 0 \in S
  BY <1>1, <1>2
<1>5. ASSUME NEW k \in 0..((w[f] - 1) - 1), k \in S PROVE k + 1 \in S
  <2>1. k \in Nat /\ i + k \in 1..Len(q) /\ q[i + k] = <<f, k + 1>> /\ k + 1 < w[f]
    BY <1>1, <1>2, <1>5
  <2>2. ~EndsFrame(w, q[i + k])
    <3>1. q[i + k][1] = f /\ q[i + k][2] = k + 1
      BY <2>1
    <3>. QED BY <1>2, <2>1, <3>1 DEF EndsFrame
  <2>3. i + k \in 1..(Len(q) - 1)
    BY <1>1, <1>3, <2>1, <2>2
  <2>4. q[(i + k) + 1] = <<f, (k + 1) + 1>>
    <3>1. q[(i + k) + 1] = Succ(w, q[i + k])
      BY <1>3, <2>3
    <3>2. Succ(w, q[i + k]) = <<q[i + k][1], q[i + k][2] + 1>>
      BY <2>2 DEF Succ
    <3>. QED BY <2>1, <3>1, <3>2
  <2>5. (i + k) + 1 = i + (k + 1) /\ k + 1 \in 0..(w[f] - 1) /\ i + (k + 1) <= Len(q)
    BY <1>1, <1>2, <2>1, <2>3
  <2>. QED BY <2>4, <2>5
<1>6. \A k \in 0..(w[f] - 1) : k \in S
  <2>1. w[f] - 1 \in Nat
    BY <1>2
  <2>. HIDE DEF S
  <2>. QED BY <1>4, <1>5, <2>1, UpTo
<1>7. ASSUME i + w[f] <= Len(q) PROVE q[i + w[f]] = <<f + 1, 1>>
  <2>1. w[f] - 1 \in 0..(w[f] - 1) /\ i + (w[f] - 1) \in 1..(Len(q) - 1)
        /\ (i + (w[f] - 1)) + 1 = i + w[f] /\ (w[f] - 1) + 1 = w[f]
    BY <1>1, <1>2, <1>7
  <2>2. q[i + (w[f] - 1)] = <<f, w[f]>>
    BY <1>6, <2>1
  <2>3. EndsFrame(w, q[i + (w[f] - 1)]) /\ q[i + (w[f] - 1)][1] = f
    BY <2>2 DEF EndsFrame
  <2>4. q[i + w[f]] = Succ(w, q[i + (w[f] - 1)])
    BY <1>3, <2>1
  <2>. QED BY <2>3, <2>4 DEF Succ
<1>. QED BY <1>2, <1>6, <1>7 DEF Whole

\* One chain after another.
LEMMA Joined ==
    ASSUME NEW w \in Lengths, NEW a \in Nat, NEW p, Chain(w, p, a), NEW q, Chain(w, q, Stop(p, a))
    PROVE  Chain(w, p \o q, a) /\ Stop(p \o q, a) = Stop(q, Stop(p, a))
<1>. DEFINE r == p \o q
<1>1. /\ p \in Seq(Unit(w)) /\ q \in Seq(Unit(w)) /\ Len(p) \in Nat /\ Len(q) \in Nat
      /\ \A i \in 1..Len(p) : p[i] \in Unit(w)
  BY DEF Chain
<1>2. CASE p = <<>>
  <2>1. r = q /\ Stop(p, a) = a
    BY <1>1, <1>2 DEF Stop
  <2>. QED BY <2>1
<1>3. CASE q = <<>>
  <2>1. r = p
    BY <1>1, <1>3
  <2>. QED BY <1>3, <2>1 DEF Stop
<1>4. CASE p # <<>> /\ q # <<>>
  <2>1. /\ r \in Seq(Unit(w)) /\ Len(r) = Len(p) + Len(q)
        /\ \A i \in 1..Len(p) : r[i] = p[i]
        /\ \A i \in 1..Len(q) : r[Len(p) + i] = q[i]
    <3>1. /\ r \in Seq(Unit(w)) /\ Len(r) = Len(p) + Len(q)
          /\ \A i \in 1..(Len(p) + Len(q)) : r[i] = IF i <= Len(p) THEN p[i] ELSE q[i - Len(p)]
      BY <1>1, ConcatProperties
    <3>. HIDE DEF r
    <3>2. \A i \in 1..Len(q) : Len(p) + i \in 1..(Len(p) + Len(q)) /\ ~(Len(p) + i <= Len(p))
                               /\ (Len(p) + i) - Len(p) = i
      BY <1>1
    <3>3. \A i \in 1..Len(p) : i \in 1..(Len(p) + Len(q)) /\ i <= Len(p)
      BY <1>1
    <3>. QED BY <3>1, <3>2, <3>3
  <2>. HIDE DEF r
  <2>2. Len(p) \in 1..Len(p) /\ Len(q) \in 1..Len(q) /\ 1 \in 1..Len(p) /\ 1 \in 1..Len(q)
    BY <1>1, <1>4
  <2>3. r # <<>> /\ r[1] = p[1] /\ r[Len(r)] = q[Len(q)]
    BY <1>1, <2>1, <2>2
  <2>4. r[1] = <<a, 1>> /\ EndsFrame(w, r[Len(r)])
    BY <1>4, <2>3 DEF Chain
  <2>5. ASSUME NEW i \in 1..(Len(r) - 1) PROVE r[i + 1] = Succ(w, r[i])
    <3>1. CASE i < Len(p)
      <4>1. i \in 1..(Len(p) - 1) /\ i \in 1..Len(p) /\ i + 1 \in 1..Len(p)
        BY <1>1, <2>1, <3>1
      <4>. QED BY <2>1, <4>1 DEF Chain
    <3>2. CASE i = Len(p)
      <4>1. r[i] = p[Len(p)] /\ r[i + 1] = q[1]
        BY <2>1, <2>2, <3>2
      <4>2. q[1] = <<Stop(p, a), 1>> /\ EndsFrame(w, p[Len(p)])
        BY <1>4 DEF Chain
      <4>3. Stop(p, a) = p[Len(p)][1] + 1
        BY <1>4 DEF Stop
      <4>. QED BY <4>1, <4>2, <4>3 DEF Succ
    <3>3. CASE i > Len(p)
      <4>1. i - Len(p) \in 1..(Len(q) - 1) /\ Len(p) + (i - Len(p)) = i
            /\ (i - Len(p)) \in 1..Len(q) /\ (i - Len(p)) + 1 \in 1..Len(q)
            /\ Len(p) + ((i - Len(p)) + 1) = i + 1
        BY <1>1, <2>1, <3>3
      <4>2. r[Len(p) + (i - Len(p))] = q[i - Len(p)]
            /\ r[Len(p) + ((i - Len(p)) + 1)] = q[(i - Len(p)) + 1]
        <5>. DEFINE j == i - Len(p)
        <5>1. j \in 1..Len(q) /\ j + 1 \in 1..Len(q)
          BY <4>1
        <5>. HIDE DEF j
        <5>2. r[Len(p) + j] = q[j] /\ r[Len(p) + (j + 1)] = q[j + 1]
          BY <2>1, <5>1
        <5>. QED BY <5>2 DEF j
      <4>3. r[i] = q[i - Len(p)] /\ r[i + 1] = q[(i - Len(p)) + 1]
        BY <4>1, <4>2
      <4>. QED BY <4>1, <4>3 DEF Chain
    <3>. QED BY <1>1, <2>1, <3>1, <3>2, <3>3
  <2>6. Chain(w, r, a)
    BY <2>1, <2>4, <2>5 DEF Chain
  <2>7. Stop(r, a) = Stop(q, Stop(p, a))
    BY <1>4, <2>3 DEF Stop
  <2>. QED BY <2>6, <2>7 DEF r
<1>. QED BY <1>2, <1>3, <1>4

\* A chain without its first frame.
LEMMA Rest ==
    ASSUME NEW w \in Lengths, NEW a \in Nat, NEW q, Chain(w, q, a), q # <<>>
    PROVE  /\ a \in 1..Len(w) /\ w[a] \in Nat \ {0} /\ w[a] <= Len(q)
           /\ \A k \in 1..w[a] : q[k] = <<a, k>>
           /\ Chain(w, SubSeq(q, w[a] + 1, Len(q)), a + 1)
           /\ Stop(SubSeq(q, w[a] + 1, Len(q)), a + 1) = Stop(q, a)
<1>. DEFINE r == SubSeq(q, w[a] + 1, Len(q))
<1>1. q \in Seq(Unit(w)) /\ Len(q) \in Nat /\ 1 \in 1..Len(q) /\ q[1] = <<a, 1>>
  BY DEF Chain
<1>2. /\ a \in 1..Len(w) /\ w[a] \in Nat \ {0}
      /\ \A k \in 0..(w[a] - 1) : 1 + k <= Len(q) /\ q[1 + k] = <<a, k + 1>>
      /\ 1 + w[a] <= Len(q) => q[1 + w[a]] = <<a + 1, 1>>
  <2>. DEFINE i == 1
  <2>1. i \in 1..Len(q) /\ q[i] = <<a, 1>>
    BY <1>1
  <2>. HIDE DEF i
  <2>2. Whole(w, q, i, a)
    BY <2>1, FrameAt
  <2>. QED BY <2>2 DEF i, Whole
<1>3. w[a] <= Len(q) /\ \A k \in 1..w[a] : q[k] = <<a, k>>
  <2>1. ASSUME NEW k \in 1..w[a]
        PROVE  k - 1 \in 0..(w[a] - 1) /\ 1 + (k - 1) = k /\ (k - 1) + 1 = k
    BY <1>2
  <2>2. w[a] \in 1..w[a]
    BY <1>2
  <2>. QED BY <1>2, <2>1, <2>2
<1>4. /\ r \in Seq(Unit(w)) /\ Len(r) = Len(q) - w[a]
      /\ \A i \in 1..Len(r) : r[i] = q[w[a] + i] /\ w[a] + i \in 1..Len(q)
  <2>1. w[a] \in 0..Len(q)
    BY <1>1, <1>2, <1>3
  <2>2. /\ r \in Seq(Unit(w)) /\ Len(r) = Len(q) - w[a]
        /\ \A i \in 1..(Len(q) - w[a]) : r[i] = q[w[a] + i]
    BY <1>1, <2>1, LastOf
  <2>3. \A i \in 1..(Len(q) - w[a]) : w[a] + i \in 1..Len(q)
    BY <1>1, <2>1
  <2>. QED BY <2>2, <2>3
<1>. HIDE DEF r
<1>5. CASE r = <<>>
  <2>1. Len(q) = w[a] /\ Len(r) = 0
    BY <1>1, <1>2, <1>4, <1>5
  <2>2. q[Len(q)] = <<a, w[a]>>
    BY <1>2, <1>3, <2>1
  <2>3. Chain(w, r, a + 1)
    BY <1>4, <1>5, <2>1 DEF Chain
  <2>4. Stop(r, a + 1) = Stop(q, a)
    BY <1>5, <2>2 DEF Stop
  <2>. QED BY <1>2, <1>3, <2>3, <2>4 DEF r
<1>6. CASE r # <<>>
  <2>1. Len(r) \in 1..Len(r) /\ 1 \in 1..Len(r) /\ Len(r) \in Nat
    BY <1>4, <1>6
  <2>2. r[1] = <<a + 1, 1>> /\ r[Len(r)] = q[Len(q)]
    <3>1. r[1] = q[w[a] + 1] /\ w[a] + 1 \in 1..Len(q) /\ r[Len(r)] = q[w[a] + Len(r)]
      BY <1>4, <2>1
    <3>2. w[a] + Len(r) = Len(q) /\ w[a] + 1 = 1 + w[a] /\ 1 + w[a] <= Len(q)
      <4>. DEFINE n == w[a]
      <4>1. n \in Nat /\ Len(r) = Len(q) - n /\ n + 1 \in 1..Len(q) /\ Len(q) \in Nat
        BY <1>1, <1>2, <1>4, <3>1
      <4>. HIDE DEF n
      <4>2. n + Len(r) = Len(q) /\ n + 1 = 1 + n /\ 1 + n <= Len(q)
        BY <4>1
      <4>. QED BY <4>2 DEF n
    <3>. QED BY <1>2, <3>1, <3>2
  <2>3. EndsFrame(w, r[Len(r)])
    BY <2>2 DEF Chain
  <2>4. ASSUME NEW i \in 1..(Len(r) - 1) PROVE r[i + 1] = Succ(w, r[i])
    <3>1. i \in 1..Len(r) /\ i + 1 \in 1..Len(r) /\ w[a] + i \in 1..(Len(q) - 1)
          /\ (w[a] + i) + 1 = w[a] + (i + 1)
      <4>. DEFINE n == w[a]
      <4>1. n \in Nat /\ Len(r) = Len(q) - n /\ Len(q) \in Nat
        BY <1>1, <1>2, <1>4
      <4>. HIDE DEF n
      <4>2. i \in 1..Len(r) /\ i + 1 \in 1..Len(r) /\ n + i \in 1..(Len(q) - 1)
            /\ (n + i) + 1 = n + (i + 1)
        BY <4>1
      <4>. QED BY <4>2 DEF n
    <3>2. r[i] = q[w[a] + i] /\ r[i + 1] = q[w[a] + (i + 1)]
      BY <1>4, <3>1
    <3>. QED BY <3>1, <3>2 DEF Chain
  <2>5. Chain(w, r, a + 1)
    BY <1>4, <2>2, <2>3, <2>4 DEF Chain
  <2>6. Stop(r, a + 1) = Stop(q, a)
    BY <1>6, <2>2 DEF Stop
  <2>. QED BY <1>2, <1>3, <2>5, <2>6 DEF r
<1>. QED BY <1>5, <1>6

\* Frames written later change nothing about a chain.
LEMMA Grows ==
    ASSUME NEW w \in Lengths, NEW v \in Lengths, Len(w) <= Len(v),
           \A f \in 1..Len(w) : v[f] = w[f], NEW q, NEW a, Chain(w, q, a)
    PROVE  Chain(v, q, a)
<1>1. q \in Seq(Unit(w)) /\ Len(q) \in Nat /\ \A i \in 1..Len(q) : q[i] \in Unit(w)
  BY DEF Chain
<1>2. ASSUME NEW u \in Unit(w)
      PROVE  u \in Unit(v) /\ Succ(v, u) = Succ(w, u) /\ (EndsFrame(v, u) <=> EndsFrame(w, u))
  <2>1. Len(w) \in Nat /\ Len(v) \in Nat
    BY DEF Lengths
  <2>2. u[1] \in 1..Len(w) /\ u[2] \in Nat \ {0} /\ u[2] <= w[u[1]] /\ u = <<u[1], u[2]>>
    BY UnitTyped
  <2>3. u[1] \in 1..Len(v) /\ v[u[1]] = w[u[1]]
    BY <2>1, <2>2
  <2>4. u \in (1..Len(v)) \X (Nat \ {0})
    BY <2>2, <2>3
  <2>. QED BY <2>2, <2>3, <2>4 DEF Unit, Succ, EndsFrame
<1>3. q \in Seq(Unit(v))
  BY <1>1, <1>2
<1>4. q # <<>> => Len(q) \in 1..Len(q)
  BY <1>1
<1>5. \A i \in 1..(Len(q) - 1) : i \in 1..Len(q)
  BY <1>1
<1>. QED BY <1>1, <1>2, <1>3, <1>4, <1>5 DEF Chain

-----------------------------------------------------------------------------
(* A message.                                                              *)

\* The bytes of one frame are a chain.
LEMMA BytesChain ==
    ASSUME written \in Lengths, NEW f \in 1..Len(written)
    PROVE  /\ Bytes(f) \in Seq(Unit(written)) /\ Len(Bytes(f)) = written[f] /\ Bytes(f) # <<>>
           /\ Chain(written, Bytes(f), f) /\ Stop(Bytes(f), f) = f + 1
<1>1. written[f] \in Nat \ {0} /\ f \in Nat
  BY DEF Lengths
<1>. DEFINE n == written[f]
            q == [k \in 1..n |-> <<f, k>>]
<1>2. Bytes(f) = q
  BY DEF Bytes
<1>. HIDE DEF n
<1>3. ASSUME NEW k \in 1..n PROVE <<f, k>> \in Unit(written) /\ <<f, k>>[1] = f /\ <<f, k>>[2] = k
  BY <1>1 DEF Unit, n
<1>4. /\ q \in Seq(Unit(written)) /\ Len(q) = n /\ n \in 1..n /\ 1 \in 1..n
      /\ \A k \in 1..n : q[k] = <<f, k>>
  BY <1>1, <1>3 DEF n
<1>. HIDE DEF q
<1>5. q # <<>> /\ q[1] = <<f, 1>> /\ EndsFrame(written, q[Len(q)])
  BY <1>3, <1>4 DEF EndsFrame, n
<1>6. ASSUME NEW i \in 1..(Len(q) - 1) PROVE q[i + 1] = Succ(written, q[i])
  <2>1. i \in 1..n /\ i + 1 \in 1..n /\ i # n
    BY <1>1, <1>4 DEF n
  <2>2. ~EndsFrame(written, q[i]) /\ q[i][1] = f /\ q[i][2] = i
    BY <1>3, <1>4, <2>1 DEF EndsFrame, n
  <2>. QED BY <1>4, <2>1, <2>2 DEF Succ
<1>7. Chain(written, q, f)
  BY <1>4, <1>5, <1>6 DEF Chain
<1>8. Stop(q, f) = f + 1
  BY <1>3, <1>4, <1>5 DEF Stop
<1>. QED BY <1>2, <1>4, <1>5, <1>7, <1>8 DEF n

\* The bytes of consecutive frames make a chain.
LEMMA BytesOfChain ==
    ASSUME written \in Lengths, NEW a \in Nat, NEW fs, fs \in Seq(1..Len(written)), Len(fs) > 0,
           \A i \in 1..Len(fs) : fs[i] = a + (i - 1)
    PROVE  /\ Chain(written, BytesOf(fs), a) /\ Stop(BytesOf(fs), a) = a + Len(fs)
           /\ Len(fs) = 1 => Len(BytesOf(fs)) = written[a] /\ a \in 1..Len(written)
<1>. DEFINE N == Len(fs)
            seqs == [i \in DOMAIN fs |-> Bytes(fs[i])]
            Loop(g, n) == g = [i \in 1..n |-> IF i = 1 THEN seqs[i] ELSE g[i - 1] \o seqs[i]]
            S == {n \in 0..N : \E g : Loop(g, n)}
            flatten == CHOOSE g : Loop(g, N)
<1>1. /\ N \in Nat \ {0} /\ DOMAIN fs = 1..N
      /\ \A i \in 1..N : fs[i] \in 1..Len(written) /\ fs[i] = a + (i - 1)
  OBVIOUS
<1>2. \A i \in 1..N : seqs[i] = Bytes(a + (i - 1)) /\ a + (i - 1) \in 1..Len(written)
  BY <1>1
<1>3. DOMAIN seqs = 1..N /\ Len(seqs) = N
  <2>1. DOMAIN seqs = 1..N
    BY <1>1
  <2>2. seqs \in Seq({Bytes(f) : f \in 1..Len(written)})
    BY <1>1
  <2>. QED BY <1>1, <2>1, <2>2
<1>. HIDE DEF seqs
<1>4. 0 \in S
  <2>1. Loop([i \in 1..0 |-> 0], 0)
    OBVIOUS
  <2>2. \E g : Loop(g, 0)
    <3>. HIDE DEF Loop
    <3>. QED BY <2>1
  <2>. HIDE DEF Loop
  <2>. QED BY <1>1, <2>2
<1>5. ASSUME NEW n \in 0..(N - 1), n \in S PROVE n + 1 \in S
  <2>1. PICK g : Loop(g, n)
    BY <1>5
  <2>. DEFINE h == [i \in 1..(n + 1) |-> IF i \in 1..n THEN g[i]
                                         ELSE IF i = 1 THEN seqs[i] ELSE g[n] \o seqs[i]]
  <2>2. ASSUME NEW i \in 1..(n + 1)
        PROVE  h[i] = IF i = 1 THEN seqs[i] ELSE h[i - 1] \o seqs[i]
    <3>1. CASE i = 1 /\ n = 0
      BY <1>1, <2>1, <3>1
    <3>2. CASE i = 1 /\ n # 0
      <4>1. 1 \in 1..n /\ i \in 1..n
        BY <1>1, <3>2
      <4>. QED BY <2>1, <3>2, <4>1
    <3>3. CASE i \in 2..n
      <4>1. i \in 1..n /\ i - 1 \in 1..n /\ i # 1 /\ i - 1 \in 1..(n + 1)
        BY <1>1, <3>3
      <4>. QED BY <2>1, <4>1
    <3>4. CASE i = n + 1 /\ n # 0
      <4>1. i \notin 1..n /\ i - 1 = n /\ n \in 1..n /\ n \in 1..(n + 1) /\ i # 1
        BY <1>1, <3>4
      <4>. QED BY <3>4, <4>1
    <3>. QED BY <1>1, <3>1, <3>2, <3>3, <3>4
  <2>3. Loop(h, n + 1)
    <3>1. h = [i \in 1..(n + 1) |-> h[i]]
      OBVIOUS
    <3>. HIDE DEF h
    <3>. QED BY <2>2, <3>1
  <2>. HIDE DEF Loop
  <2>. QED BY <1>1, <2>3
<1>6. N \in S
  <2>. HIDE DEF S
  <2>1. N \in Nat
    BY <1>1
  <2>2. \A i \in 0..N : i \in S
    BY <1>4, <1>5, <2>1, UpTo
  <2>. QED BY <1>1, <2>2
<1>7. Loop(flatten, N)
  <2>1. \E g : Loop(g, N)
    BY <1>6
  <2>. HIDE DEF Loop
  <2>. QED BY <2>1
<1>8. BytesOf(fs) = flatten[N]
  <2>1. BytesOf(fs) = FlattenSeq(seqs)
    BY DEF BytesOf, seqs
  <2>2. Len(seqs) # 0
    BY <1>1, <1>3
  <2>. QED BY <1>3, <2>1, <2>2 DEF FlattenSeq
<1>9. /\ flatten[1] = seqs[1]
      /\ \A i \in 1..(N - 1) : flatten[i + 1] = flatten[i] \o seqs[i + 1]
  <2>1. ASSUME NEW i \in 1..(N - 1)
        PROVE  i + 1 \in 1..N /\ i + 1 # 1 /\ (i + 1) - 1 = i
    BY <1>1
  <2>. HIDE DEF flatten
  <2>2. 1 \in 1..N
    BY <1>1
  <2>. QED BY <1>7, <2>1, <2>2
<1>. HIDE DEF flatten, S
<1>. DEFINE Good(i) == Chain(written, flatten[i], a) /\ Stop(flatten[i], a) = a + i
            T == {i \in 0..N : i = 0 \/ Good(i)}
<1>10. ASSUME NEW i \in 0..(N - 1), i \in T PROVE i + 1 \in T
  <2>1. i + 1 \in 1..N /\ (i + 1) - 1 = i /\ a + ((i + 1) - 1) = a + i
    BY <1>1
  <2>2. seqs[i + 1] = Bytes(a + i) /\ a + i \in 1..Len(written)
    BY <1>2, <2>1
  <2>3. Chain(written, Bytes(a + i), a + i) /\ Stop(Bytes(a + i), a + i) = (a + i) + 1
    BY <2>2, BytesChain
  <2>4. CASE i = 0
    <3>1. a + i = a /\ i + 1 = 1 /\ (a + i) + 1 = a + 1
      BY <2>4
    <3>2. Good(1)
      BY <1>9, <2>2, <2>3, <2>4, <3>1
    <3>. QED BY <1>1, <2>1, <3>1, <3>2
  <2>5. CASE i # 0
    <3>1. Good(i) /\ i \in 1..(N - 1)
      BY <1>1, <1>10, <2>5
    <3>2. flatten[i + 1] = flatten[i] \o Bytes(a + i)
      BY <1>9, <2>2, <3>1
    <3>3. Chain(written, Bytes(a + i), Stop(flatten[i], a))
      BY <2>3, <3>1
    <3>4. /\ Chain(written, flatten[i] \o Bytes(a + i), a)
          /\ Stop(flatten[i] \o Bytes(a + i), a) = Stop(Bytes(a + i), Stop(flatten[i], a))
      BY <3>1, <3>3, Joined
    <3>5. (a + i) + 1 = a + (i + 1)
      BY <2>1
    <3>6. Good(i + 1)
      BY <2>3, <3>1, <3>2, <3>4, <3>5
    <3>. QED BY <2>1, <3>6
  <2>. QED BY <2>4, <2>5
<1>11. Good(N)
  <2>. HIDE DEF Good
  <2>1. 0 \in T /\ N \in Nat
    BY <1>1
  <2>. HIDE DEF T
  <2>2. \A i \in 0..N : i \in T
    BY <1>10, <2>1, UpTo
  <2>. QED BY <1>1, <2>2 DEF T
<1>12. ASSUME N = 1 PROVE Len(flatten[N]) = written[a] /\ a \in 1..Len(written)
  <2>1. 1 \in 1..N /\ a + (1 - 1) = a
    BY <1>1
  <2>2. seqs[1] = Bytes(a) /\ a \in 1..Len(written)
    BY <1>2, <2>1
  <2>. QED BY <1>9, <1>12, <2>2, BytesChain
<1>. QED BY <1>8, <1>11, <1>12

\* So are those of the first n of consecutive frames.
LEMMA SubSeqBytes ==
    ASSUME written \in Lengths, NEW a \in Nat, NEW fs \in Seq(1..Len(written)),
           \A i \in 1..Len(fs) : fs[i] = a + (i - 1), NEW n \in 1..Len(fs)
    PROVE  LET m == BytesOf(SubSeq(fs, 1, n)) IN
           /\ Chain(written, m, a) /\ Stop(m, a) = a + n /\ Len(m) \in Nat
           /\ n = 1 => Len(m) = written[a] /\ a \in 1..Len(written)
<1>. DEFINE front == SubSeq(fs, 1, n)
<1>1. n \in 0..Len(fs) /\ n > 0 /\ Len(fs) \in Nat
  OBVIOUS
<1>2. front \in Seq(1..Len(written)) /\ Len(front) = n /\ \A i \in 1..n : front[i] = fs[i]
  BY <1>1, FirstOf
<1>. HIDE DEF front
<1>3. \A i \in 1..n : i \in 1..Len(fs)
  BY <1>1
<1>6. \A i \in 1..Len(front) : front[i] = a + (i - 1)
  BY <1>2, <1>3
<1>4. /\ Chain(written, BytesOf(front), a) /\ Stop(BytesOf(front), a) = a + Len(front)
      /\ Len(front) = 1 => Len(BytesOf(front)) = written[a] /\ a \in 1..Len(written)
  BY <1>1, <1>2, <1>6, BytesOfChain
<1>5. Len(BytesOf(front)) \in Nat
  BY <1>4 DEF Chain
<1>. QED BY <1>2, <1>4, <1>5 DEF front

\* A message has at least one frame, and as many as fit.
LEMMA CoalescedFits ==
    ASSUME written \in Lengths, NEW a \in Nat, NEW fs \in Seq(1..Len(written)), fs # <<>>,
           \A i \in 1..Len(fs) : fs[i] = a + (i - 1)
    PROVE  /\ Coalesced(fs) \in 1..Len(fs)
           /\ Coalesced(fs) = 1 \/ Len(BytesOf(SubSeq(fs, 1, Coalesced(fs)))) <= MaxMessage
<1>. DEFINE size(n) == Len(BytesOf(SubSeq(fs, 1, n)))
            N == Len(fs)
            Full(n) == n = N \/ size(n + 1) > MaxMessage
            B == {n \in 1..N : Full(n)}
<1>1. N \in Nat \ {0} /\ MaxMessage \in Nat
  BY FramingAssumption
<1>2. \A n \in 1..N : size(n) \in Nat
  BY SubSeqBytes
<1>. HIDE DEF size
<1>3. PICK n \in B : \A j \in B : n <= j
  <2>1. N \in B /\ B \in SUBSET Nat
    BY <1>1
  <2>. HIDE DEF B
  <2>. QED BY <2>1, LeastExists
<1>4. n \in 1..N /\ Full(n) /\ (n = 1 \/ size(n) <= MaxMessage)
  <2>1. n \in 1..N /\ Full(n)
    OBVIOUS
  <2>2. ASSUME n # 1 PROVE size(n) <= MaxMessage
    <3>1. n - 1 \in 1..N /\ ~(n <= n - 1) /\ (n - 1) + 1 = n
      BY <1>1, <2>1, <2>2
    <3>2. n - 1 \notin B
      BY <1>3, <3>1
    <3>3. ~(size(n) > MaxMessage)
      BY <3>1, <3>2
    <3>. QED BY <1>1, <1>2, <2>1, <3>3
  <2>. QED BY <2>1, <2>2
<1>5. Coalesced(fs) = CHOOSE m \in 1..N : (m = 1 \/ size(m) <= MaxMessage) /\ Full(m)
  BY DEF Coalesced, size
<1>. HIDE DEF Full
<1>. QED BY <1>4, <1>5 DEF size

\* What the receiver's check says of a message of whole frames.
LEMMA Checked ==
    ASSUME written \in Lengths, NEW a \in Nat, NEW m, Chain(written, m, a), m # <<>>,
           Len(m) <= MaxMessage
    PROVE  CheckMessage(m)
<1>1. /\ m \in Seq(Unit(written)) /\ Len(m) \in Nat /\ Len(m) \in 1..Len(m) /\ 1 \in 1..Len(m)
      /\ m[1] = <<a, 1>>
  BY DEF Chain
<1>. DEFINE offsets == {o \in 0..Len(m) : o = Len(m) \/ m[o + 1][2] = 1}
<1>2. 0 \in offsets
  BY <1>1
<1>3. ASSUME NEW o \in offsets \ {Len(m)}
      PROVE  IsHeader(m[o + 1]) /\ o + LengthOf(m[o + 1]) \in offsets
  <2>. DEFINE i == o + 1
              f == m[i][1]
  <2>1. i \in 1..Len(m) /\ m[i][2] = 1 /\ o \in Nat
    BY <1>1, <1>3
  <2>2. m[i] \in Unit(written)
    BY <1>1, <2>1
  <2>3. m[i] = <<f, 1>> /\ f \in Nat
    BY <2>1, <2>2, UnitTyped
  <2>. HIDE DEF i, f
  <2>4. /\ f \in 1..Len(written) /\ written[f] \in Nat \ {0}
        /\ \A k \in 0..(written[f] - 1) : i + k <= Len(m) /\ m[i + k] = <<f, k + 1>>
        /\ i + written[f] <= Len(m) => m[i + written[f]] = <<f + 1, 1>>
    <3>1. Whole(written, m, i, f)
      BY <2>1, <2>3, FrameAt
    <3>. QED BY <3>1 DEF Whole
  <2>5. IsHeader(m[i]) /\ LengthOf(m[i]) = written[f]
    BY <2>3 DEF IsHeader, LengthOf
  <2>. DEFINE n == written[f]
  <2>6. n \in Nat \ {0} /\ n - 1 \in 0..(n - 1)
    BY <2>4
  <2>7. i + (n - 1) <= Len(m)
    BY <2>4, <2>6
  <2>8. i + n <= Len(m) => m[i + n][2] = 1
    BY <2>4
  <2>. HIDE DEF n
  <2>9. o + n \in 0..Len(m) /\ (o + n) + 1 = i + n /\ (o + n = Len(m) \/ i + n <= Len(m))
    BY <1>1, <2>1, <2>6, <2>7 DEF i
  <2>10. o + n \in offsets
    BY <2>8, <2>9
  <2>. QED BY <2>5, <2>10 DEF i, n
<1>4. offsets \in SUBSET (0..Len(m))
  OBVIOUS
<1>. HIDE DEF offsets
<1>5. WholeFrames(m)
  BY <1>2, <1>3, <1>4 DEF WholeFrames
<1>. QED BY <1>1, <1>5, FramingAssumption DEF CheckMessage

-----------------------------------------------------------------------------
(* The invariant.                                                          *)

\* Types.
FramingTypes ==
    /\ written \in Seq(Sizes) /\ outgoing \in Seq(1..Len(written))
    /\ link \in {"open", "closing", "cut"}
    /\ Len(header) <= 1 /\ reader \in Readers

\* What the reader holds starts with the frame that is next, and its frames are whole.
Held == header \o buffer
NextFrame == Len(frames) + 1
HeldWhole ==
    /\ header \in Units /\ buffer \in Units
    /\ Chain(written, Held, NextFrame)

\* Each message has whole frames, and starts with the frame after those before it.
First(m) == m[1][1]
Expected == Stop(Held, NextFrame)
MessagesWhole ==
    /\ channel \in Seq(Units)
    /\ \A i \in 1..Len(channel) :
         /\ channel[i] # <<>> /\ Len(channel[i]) <= MaxMessage
         /\ First(channel[i]) \in Nat
         /\ Chain(written, channel[i], First(channel[i]))
         /\ First(channel[i]) = IF i = 1 THEN Expected
                                ELSE Stop(channel[i - 1], First(channel[i - 1]))

\* What is pending are the last frames written, and the first follows what was sent.
Upcoming == IF channel = <<>> THEN Expected
        ELSE Stop(channel[Len(channel)], First(channel[Len(channel)]))
Pending ==
    /\ \A i \in 1..Len(outgoing) : outgoing[i] = Upcoming + (i - 1)
    /\ link = "open" => Upcoming + Len(outgoing) = Len(written) + 1

\* The frames read are those written, in order, byte by byte.
FramesRead ==
    /\ frames \in Seq(Units) /\ Len(frames) <= Len(written)
    /\ \A f \in 1..Len(frames) : frames[f] = Bytes(f)

\* What was refused is whole frames, several of them, and beyond the reader's limit.
Refusal ==
    refused # <<>> =>
        /\ First(refused) \in Nat /\ Chain(written, refused, First(refused))
        /\ BeyondReader(refused)

\* The inductive invariant.
FramingInv ==
    FramingTypes /\ HeldWhole /\ MessagesWhole /\ Pending /\ FramesRead /\ Refusal

-----------------------------------------------------------------------------
(* It holds at the start and after each step.                              *)

\* What is written has lengths a message has room for.
LEMMA LengthsTyped ==
    ASSUME written \in Seq(Sizes)
    PROVE  /\ written \in Lengths /\ Len(written) \in Nat
           /\ \A f \in 1..Len(written) : written[f] \in Sizes /\ written[f] <= MaxMessage
<1>1. Sizes \subseteq Nat \ {0} /\ \A s \in Sizes : s <= MaxMessage
  BY FramingAssumption
<1>2. Len(written) \in Nat /\ \A f \in 1..Len(written) : written[f] \in Sizes
  OBVIOUS
<1>3. written \in Lengths
  BY <1>1, SeqLarger DEF Lengths
<1>. QED BY <1>1, <1>2, <1>3

\* A chain consists of units and ends with a frame.
LEMMA ChainTyped ==
    ASSUME NEW w \in Lengths, NEW a \in Nat, NEW q, Chain(w, q, a)
    PROVE  q \in Units /\ Len(q) \in Nat /\ Stop(q, a) \in Nat /\ a <= Stop(q, a) + Len(w)
<1>1. q \in Seq(Unit(w)) /\ Len(q) \in Nat /\ \A i \in 1..Len(q) : q[i] \in Unit(w)
  BY DEF Chain
<1>2. Unit(w) \subseteq Pair
  BY DEF Unit, Pair
<1>3. q \in Units
  BY <1>1, <1>2 DEF Units
<1>4. Stop(q, a) \in Nat
  <2>1. CASE q = <<>>
    BY <2>1 DEF Stop
  <2>2. CASE q # <<>>
    <3>1. q[Len(q)] \in Unit(w)
      BY <1>1, <2>2
    <3>. QED BY <2>2, <3>1, UnitTyped DEF Stop
  <2>. QED BY <2>1, <2>2
<1>5. a <= Stop(q, a) + Len(w)
  <2>1. Len(w) \in Nat
    BY DEF Lengths
  <2>2. CASE q = <<>>
    BY <2>1, <2>2 DEF Stop
  <2>3. CASE q # <<>>
    <3>1. a \in 1..Len(w)
      BY <2>3, Rest
    <3>. QED BY <1>4, <2>1, <3>1
  <2>. QED BY <2>2, <2>3
<1>. QED BY <1>1, <1>3, <1>4, <1>5

\* The invariant holds at the start.
LEMMA InitFraming == FramingInit => FramingInv
<1>. SUFFICES ASSUME FramingInit PROVE FramingInv
  OBVIOUS
<1>. USE DEF FramingInit
<1>1. /\ <<>> \in Seq(Sizes) /\ Len(<<>>) = 0 /\ <<>> \in Units /\ <<>> \in Seq(Units)
      /\ 1..0 = {} /\ 1..(0 - 1) = {} /\ \A T : <<>> \in Seq(T)
  BY DEF Units
<1>2. Held = <<>> /\ NextFrame = 1
  BY <1>1 DEF Held, NextFrame
<1>3. HeldWhole
  BY <1>1, <1>2 DEF HeldWhole, Chain
<1>4. FramingTypes /\ MessagesWhole /\ FramesRead
  BY <1>1 DEF FramingTypes, MessagesWhole, FramesRead
<1>5. Upcoming = 1
  BY <1>1, <1>2 DEF Upcoming, Expected, Stop
<1>6. Pending /\ Refusal
  BY <1>1, <1>5 DEF Pending, Refusal
<1>. QED BY <1>3, <1>4, <1>6 DEF FramingInv

\* The types the steps need.
LEMMA Facts ==
    ASSUME FramingInv
    PROVE  /\ written \in Lengths /\ Len(written) \in Nat
           /\ \A f \in 1..Len(written) : written[f] \in Sizes /\ written[f] <= MaxMessage
           /\ NextFrame \in Nat \ {0} /\ Expected \in Nat /\ Upcoming \in Nat /\ Len(outgoing) \in Nat
           /\ Chain(written, Held, NextFrame) /\ Len(channel) \in Nat
<1>1. /\ written \in Lengths /\ Len(written) \in Nat
      /\ \A f \in 1..Len(written) : written[f] \in Sizes /\ written[f] <= MaxMessage
  BY LengthsTyped DEF FramingInv, FramingTypes
<1>2. NextFrame \in Nat \ {0} /\ Len(outgoing) \in Nat /\ Len(channel) \in Nat
  BY DEF FramingInv, FramesRead, NextFrame, FramingTypes, MessagesWhole
<1>3. Chain(written, Held, NextFrame)
  BY DEF FramingInv, HeldWhole
<1>4. Expected \in Nat
  BY <1>1, <1>2, <1>3, ChainTyped DEF Expected
<1>5. Upcoming \in Nat
  <2>1. CASE channel = <<>>
    BY <1>4, <2>1 DEF Upcoming
  <2>2. CASE channel # <<>>
    <3>1. Len(channel) \in 1..Len(channel)
      BY <2>2 DEF FramingInv, MessagesWhole
    <3>2. /\ First(channel[Len(channel)]) \in Nat
          /\ Chain(written, channel[Len(channel)], First(channel[Len(channel)]))
      BY <3>1 DEF FramingInv, MessagesWhole
    <3>. QED BY <1>1, <2>2, <3>2, ChainTyped DEF Upcoming
  <2>. QED BY <2>1, <2>2
<1>. QED BY <1>1, <1>2, <1>3, <1>4, <1>5

\* Steps that refuse nothing and write nothing.
LEMMA RefusalStays ==
    ASSUME FramingInv, UNCHANGED <<written, reader, refused>>
    PROVE  Refusal'
BY DEF FramingInv, Refusal, First, BeyondReader, LengthOf

\* Packets are framed and queued behind those that are pending.
LEMMA WriteKeeps ==
    ASSUME FramingInv, NEW sizes \in Bursts, Write(sizes) PROVE FramingInv'
<1>1. /\ written' = written \o sizes /\ link = "open"
      /\ outgoing' = outgoing \o [i \in DOMAIN sizes |-> Len(written) + i]
      /\ UNCHANGED <<channel, link, reader, buffer, header, frames, refused>>
  BY DEF Write, readerVars
<1>2. written \in Lengths /\ Len(written) \in Nat /\ Upcoming \in Nat /\ Len(outgoing) \in Nat
  BY Facts
<1>3. sizes \in Seq(Sizes) /\ Len(sizes) \in Nat /\ DOMAIN sizes = 1..Len(sizes)
  <2>1. PICK n \in 1..Batch : sizes \in [1..n -> Sizes]
    BY DEF Bursts
  <2>2. n \in Nat
    BY FramingAssumption
  <2>. QED BY <2>1, <2>2
<1>4. /\ written' \in Seq(Sizes) /\ Len(written') = Len(written) + Len(sizes)
      /\ \A f \in 1..Len(written) : written'[f] = written[f] /\ f \in 1..Len(written')
  <2>1. written \in Seq(Sizes)
    BY DEF FramingInv, FramingTypes
  <2>2. /\ written \o sizes \in Seq(Sizes) /\ Len(written \o sizes) = Len(written) + Len(sizes)
        /\ \A i \in 1..(Len(written) + Len(sizes)) : (written \o sizes)[i] =
               IF i <= Len(written) THEN written[i] ELSE sizes[i - Len(written)]
    BY <1>3, <2>1, ConcatProperties
  <2>3. \A f \in 1..Len(written) : f \in 1..(Len(written) + Len(sizes)) /\ f <= Len(written)
    BY <1>2, <1>3
  <2>. QED BY <1>1, <2>2, <2>3
<1>5. written' \in Lengths /\ Len(written) <= Len(written')
  <2>1. Sizes \subseteq Nat \ {0}
    BY FramingAssumption
  <2>2. written' \in Lengths
    BY <1>4, <2>1, SeqLarger DEF Lengths
  <2>. QED BY <1>2, <1>3, <1>4, <2>2
<1>6. ASSUME NEW q, NEW a, Chain(written, q, a) PROVE Chain(written', q, a)
  BY <1>2, <1>4, <1>5, <1>6, Grows
<1>. DEFINE more == [i \in DOMAIN sizes |-> Len(written) + i]
<1>7. more \in Seq(1..Len(written')) /\ Len(more) = Len(sizes)
      /\ \A i \in 1..Len(sizes) : more[i] = Len(written) + i
  <2>1. \A i \in 1..Len(sizes) : Len(written) + i \in 1..Len(written')
    BY <1>2, <1>3, <1>4
  <2>. QED BY <1>3, <2>1
<1>8. outgoing \in Seq(1..Len(written'))
  <2>1. outgoing \in Seq(1..Len(written)) /\ 1..Len(written) \subseteq 1..Len(written')
    BY <1>4 DEF FramingInv, FramingTypes
  <2>. QED BY <2>1, SeqLarger
<1>. HIDE DEF more
<1>9. /\ outgoing' \in Seq(1..Len(written')) /\ Len(outgoing') = Len(outgoing) + Len(sizes)
      /\ \A i \in 1..(Len(outgoing) + Len(sizes)) : outgoing'[i] =
             IF i <= Len(outgoing) THEN outgoing[i] ELSE more[i - Len(outgoing)]
  <2>1. /\ outgoing \o more \in Seq(1..Len(written'))
        /\ Len(outgoing \o more) = Len(outgoing) + Len(more)
        /\ \A i \in 1..(Len(outgoing) + Len(more)) : (outgoing \o more)[i] =
               IF i <= Len(outgoing) THEN outgoing[i] ELSE more[i - Len(outgoing)]
    BY <1>7, <1>8, ConcatProperties
  <2>2. outgoing' = outgoing \o more
    BY <1>1 DEF more
  <2>. QED BY <1>7, <2>1, <2>2
<1>10. Held' = Held /\ NextFrame' = NextFrame /\ Expected' = Expected /\ Upcoming' = Upcoming
  BY <1>1 DEF Held, NextFrame, Expected, Upcoming, First
<1>11. FramingTypes'
  BY <1>1, <1>4, <1>9 DEF FramingInv, FramingTypes
<1>12. HeldWhole'
  BY <1>1, <1>6, <1>10 DEF FramingInv, HeldWhole
<1>13. MessagesWhole'
  BY <1>1, <1>6, <1>10 DEF FramingInv, MessagesWhole, First
<1>14. FramesRead'
  <2>1. ASSUME NEW f \in 1..Len(written) PROVE Bytes(f)' = Bytes(f)
    BY <1>4 DEF Bytes
  <2>2. /\ frames \in Seq(Units) /\ Len(frames) <= Len(written) /\ Len(frames) \in Nat
        /\ \A f \in 1..Len(frames) : frames[f] = Bytes(f)
    BY DEF FramingInv, FramesRead
  <2>3. \A f \in 1..Len(frames) : frames[f] = Bytes(f)'
    BY <1>2, <2>1, <2>2
  <2>4. Len(frames) <= Len(written')
    BY <1>2, <1>3, <1>4, <2>2
  <2>. QED BY <1>1, <2>2, <2>3, <2>4 DEF FramesRead
<1>15. Pending'
  <2>1. /\ \A i \in 1..Len(outgoing) : outgoing[i] = Upcoming + (i - 1)
        /\ Upcoming + Len(outgoing) = Len(written) + 1
    BY <1>1 DEF FramingInv, Pending
  <2>2. ASSUME NEW i \in 1..Len(outgoing') PROVE outgoing'[i] = Upcoming + (i - 1)
    <3>1. CASE i <= Len(outgoing)
      <4>1. i \in 1..Len(outgoing) /\ i \in 1..(Len(outgoing) + Len(sizes))
        BY <1>2, <1>3, <1>9, <3>1
      <4>. QED BY <1>9, <2>1, <3>1, <4>1
    <3>2. CASE ~(i <= Len(outgoing))
      <4>1. i - Len(outgoing) \in 1..Len(sizes) /\ i \in 1..(Len(outgoing) + Len(sizes))
        BY <1>2, <1>3, <1>9, <3>2
      <4>2. outgoing'[i] = Len(written) + (i - Len(outgoing))
        BY <1>7, <1>9, <3>2, <4>1
      <4>. QED BY <1>2, <2>1, <4>2
    <3>. QED BY <3>1, <3>2
  <2>3. Upcoming + Len(outgoing') = Len(written') + 1
    BY <1>2, <1>3, <1>4, <1>9, <2>1
  <2>. QED BY <1>10, <2>2, <2>3 DEF Pending
<1>16. Refusal'
  <2>. SUFFICES ASSUME refused # <<>> PROVE Refusal'
    BY <1>1 DEF Refusal
  <2>1. /\ First(refused) \in Nat /\ Chain(written, refused, First(refused))
        /\ BeyondReader(refused)
    BY DEF FramingInv, Refusal
  <2>2. First(refused) \in 1..Len(written)
    BY <1>2, <2>1, Rest
  <2>3. LengthOf(refused[1])' = LengthOf(refused[1])
    BY <1>1, <1>4, <2>2 DEF LengthOf, First
  <2>. QED BY <1>1, <1>6, <2>1, <2>3 DEF Refusal, First, BeyondReader
<1>. QED BY <1>11, <1>12, <1>13, <1>14, <1>15, <1>16 DEF FramingInv

\* Steps that leave the frames and what travels where they are.
LEMMA QuietKeeps ==
    ASSUME FramingInv, UNCHANGED <<written, channel, readerVars>>,
           \/ UNCHANGED <<outgoing, link>>
           \/ outgoing' = <<>> /\ link' \in {"closing", "cut"}
    PROVE  FramingInv'
<1>. USE DEF readerVars
<1>1. \A f : Bytes(f)' = Bytes(f)
  BY DEF Bytes
<1>2. Held' = Held /\ NextFrame' = NextFrame /\ Expected' = Expected /\ Upcoming' = Upcoming
  BY DEF Held, NextFrame, Expected, Upcoming, First
<1>3. HeldWhole'
  BY <1>2 DEF FramingInv, HeldWhole
<1>4. MessagesWhole'
  BY <1>2 DEF FramingInv, MessagesWhole, First
<1>5. FramesRead'
  BY <1>1 DEF FramingInv, FramesRead
<1>6. FramingTypes'
  <2>1. <<>> \in Seq(1..Len(written))
    OBVIOUS
  <2>. QED BY <2>1 DEF FramingInv, FramingTypes
<1>7. Pending'
  <2>1. 1..Len(<<>>) = {}
    OBVIOUS
  <2>. QED BY <1>2, <2>1 DEF FramingInv, Pending
<1>. QED BY <1>3, <1>4, <1>5, <1>6, <1>7, RefusalStays DEF FramingInv

\* One coalesced message is taken from the front of the queue.
LEMMA DrainKeeps ==
    ASSUME FramingInv, Drain PROVE FramingInv'
<1>. DEFINE n == Coalesced(outgoing)
            m == BytesOf(SubSeq(outgoing, 1, n))
<1>1. /\ outgoing # <<>> /\ link = "open" /\ channel' = Append(channel, m)
      /\ outgoing' = SubSeq(outgoing, n + 1, Len(outgoing))
      /\ UNCHANGED <<written, link, reader, buffer, header, frames, refused>>
  BY DEF Drain, Left, readerVars
<1>2. /\ written \in Lengths /\ Len(written) \in Nat /\ Upcoming \in Nat /\ Len(outgoing) \in Nat
      /\ Len(channel) \in Nat /\ \A f \in 1..Len(written) : written[f] <= MaxMessage
  BY Facts
<1>3. /\ outgoing \in Seq(1..Len(written))
      /\ \A i \in 1..Len(outgoing) : outgoing[i] = Upcoming + (i - 1)
      /\ Upcoming + Len(outgoing) = Len(written) + 1
  BY <1>1 DEF FramingInv, FramingTypes, Pending
<1>4. n \in 1..Len(outgoing) /\ (n = 1 \/ Len(m) <= MaxMessage)
  BY <1>1, <1>2, <1>3, CoalescedFits
<1>. HIDE DEF n
<1>5. /\ Chain(written, m, Upcoming) /\ Stop(m, Upcoming) = Upcoming + n /\ Len(m) \in Nat
      /\ n = 1 => Len(m) = written[Upcoming] /\ Upcoming \in 1..Len(written)
  BY <1>2, <1>3, <1>4, SubSeqBytes
<1>. HIDE DEF m
<1>6. Len(m) <= MaxMessage
  BY <1>2, <1>4, <1>5
<1>7. m # <<>> /\ First(m) = Upcoming /\ m \in Units
  <2>1. Stop(m, Upcoming) # Upcoming
    BY <1>2, <1>4, <1>5
  <2>2. m # <<>>
    BY <2>1 DEF Stop
  <2>3. m[1] = <<Upcoming, 1>>
    BY <1>5, <2>2 DEF Chain
  <2>. QED BY <1>2, <1>5, <2>2, <2>3, ChainTyped DEF First
<1>8. /\ channel' \in Seq(Units) /\ Len(channel') = Len(channel) + 1
      /\ \A i \in 1..Len(channel) : channel'[i] = channel[i]
      /\ channel'[Len(channel) + 1] = m /\ channel' # <<>>
  <2>1. channel \in Seq(Units)
    BY DEF FramingInv, MessagesWhole
  <2>. QED BY <1>1, <1>7, <2>1
<1>9. Held' = Held /\ NextFrame' = NextFrame /\ Expected' = Expected
  BY <1>1 DEF Held, NextFrame, Expected
<1>10. MessagesWhole'
  <2>. DEFINE Good(ch, i) ==
         /\ ch[i] # <<>> /\ Len(ch[i]) <= MaxMessage /\ First(ch[i]) \in Nat
         /\ Chain(written, ch[i], First(ch[i]))
         /\ First(ch[i]) = IF i = 1 THEN Expected ELSE Stop(ch[i - 1], First(ch[i - 1]))
  <2>1. \A i \in 1..Len(channel) : Good(channel, i)
    BY DEF FramingInv, MessagesWhole
  <2>2. ASSUME NEW i \in 1..Len(channel) PROVE Good(channel', i)
    <3>1. channel'[i] = channel[i] /\ (i # 1 => channel'[i - 1] = channel[i - 1])
      BY <1>2, <1>8
    <3>. QED BY <2>1, <3>1
  <2>3. Good(channel', Len(channel) + 1)
    <3>. DEFINE i == Len(channel) + 1
    <3>1. channel'[i] = m
      BY <1>8
    <3>2. First(m) = IF i = 1 THEN Expected ELSE Stop(channel'[i - 1], First(channel'[i - 1]))
      <4>1. CASE channel = <<>>
        BY <1>2, <1>7, <4>1 DEF Upcoming
      <4>2. CASE channel # <<>>
        <5>1. i # 1 /\ i - 1 = Len(channel) /\ Len(channel) \in 1..Len(channel)
          BY <1>2, <4>2 DEF FramingInv, MessagesWhole
        <5>. QED BY <1>7, <1>8, <4>2, <5>1 DEF Upcoming
      <4>. QED BY <4>1, <4>2
    <3>. HIDE DEF i
    <3>. QED BY <1>2, <1>5, <1>6, <1>7, <3>1, <3>2 DEF i
  <2>4. \A i \in 1..Len(channel') : Good(channel', i)
    <3>. HIDE DEF Good
    <3>1. \A i \in 1..Len(channel') : i \in 1..Len(channel) \/ i = Len(channel) + 1
      BY <1>2, <1>8
    <3>. QED BY <2>2, <2>3, <3>1
  <2>. QED BY <1>1, <1>8, <1>9, <2>4 DEF MessagesWhole, First
<1>11. Upcoming' = Upcoming + n
  BY <1>5, <1>7, <1>8 DEF Upcoming, First
<1>12. /\ outgoing' \in Seq(1..Len(written)) /\ Len(outgoing') = Len(outgoing) - n
       /\ \A i \in 1..(Len(outgoing) - n) : outgoing'[i] = outgoing[n + i]
  <2>1. n \in 0..Len(outgoing)
    BY <1>4
  <2>2. /\ SubSeq(outgoing, n + 1, Len(outgoing)) \in Seq(1..Len(written))
        /\ Len(SubSeq(outgoing, n + 1, Len(outgoing))) = Len(outgoing) - n
        /\ \A i \in 1..(Len(outgoing) - n) : SubSeq(outgoing, n + 1, Len(outgoing))[i] = outgoing[n + i]
    BY <1>3, <2>1, LastOf
  <2>. QED BY <1>1, <2>2
<1>13. Pending'
  <2>1. ASSUME NEW i \in 1..Len(outgoing') PROVE outgoing'[i] = (Upcoming + n) + (i - 1)
    <3>1. n + i \in 1..Len(outgoing) /\ i \in 1..(Len(outgoing) - n)
      BY <1>2, <1>4, <1>12
    <3>2. outgoing'[i] = Upcoming + ((n + i) - 1)
      BY <1>3, <1>12, <3>1
    <3>. QED BY <1>2, <1>4, <3>2
  <2>2. (Upcoming + n) + Len(outgoing') = Len(written) + 1
    <3>1. n \in Nat /\ Len(outgoing') = Len(outgoing) - n
      BY <1>4, <1>12
    <3>2. Upcoming + Len(outgoing) = Len(written) + 1
      BY <1>3
    <3>. QED BY <1>2, <3>1, <3>2
  <2>. QED BY <1>1, <1>11, <2>1, <2>2 DEF Pending
<1>14. FramingTypes'
  BY <1>1, <1>12 DEF FramingInv, FramingTypes
<1>15. HeldWhole'
  BY <1>1, <1>9 DEF FramingInv, HeldWhole
<1>16. FramesRead'
  <2>1. \A f : Bytes(f)' = Bytes(f)
    BY <1>1 DEF Bytes
  <2>. QED BY <1>1, <2>1 DEF FramingInv, FramesRead
<1>. QED BY <1>1, <1>10, <1>13, <1>14, <1>15, <1>16, RefusalStays DEF FramingInv

\* The link is lost, with the messages at the end of the channel.
LEMMA CutKeeps ==
    ASSUME FramingInv, Cut PROVE FramingInv'
<1>1. PICK n \in 0..Len(channel) : channel' = SubSeq(channel, 1, n)
  BY DEF Cut
<1>2. /\ link' = "cut" /\ outgoing' = <<>>
      /\ UNCHANGED <<written, reader, buffer, header, frames, refused>>
  BY DEF Cut, readerVars
<1>3. channel \in Seq(Units) /\ Len(channel) \in Nat
  BY DEF FramingInv, MessagesWhole
<1>4. channel' \in Seq(Units) /\ Len(channel') = n /\ \A i \in 1..n : channel'[i] = channel[i]
  BY <1>1, <1>3, FirstOf
<1>5. Held' = Held /\ NextFrame' = NextFrame /\ Expected' = Expected
  BY <1>2 DEF Held, NextFrame, Expected
<1>6. \A i \in 1..n : i \in 1..Len(channel) /\ (i # 1 => i - 1 \in 1..n)
  BY <1>3
<1>7. MessagesWhole'
  BY <1>2, <1>4, <1>5, <1>6 DEF FramingInv, MessagesWhole, First
<1>8. FramingTypes' /\ Pending'
  <2>1. <<>> \in Seq(1..Len(written)) /\ 1..Len(<<>>) = {}
    OBVIOUS
  <2>. QED BY <1>2, <2>1 DEF FramingInv, FramingTypes, Pending
<1>9. HeldWhole'
  BY <1>2, <1>5 DEF FramingInv, HeldWhole
<1>10. FramesRead'
  <2>1. \A f : Bytes(f)' = Bytes(f)
    BY <1>2 DEF Bytes
  <2>. QED BY <1>2, <2>1 DEF FramingInv, FramesRead
<1>. QED BY <1>2, <1>7, <1>8, <1>9, <1>10, RefusalStays DEF FramingInv

\* What the reader holds, by the bytes it knows the header of.
LEMMA ReaderFacts ==
    ASSUME FramingInv
    PROVE  /\ header \in Units /\ buffer \in Units /\ Held \in Units
           /\ Len(header) \in Nat /\ Len(buffer) \in Nat /\ Len(Held) = Len(header) + Len(buffer)
           /\ \A i \in 1..(Len(header) + Len(buffer)) :
                 Held[i] = IF i <= Len(header) THEN header[i] ELSE buffer[i - Len(header)]
           /\ header = <<>> => Held = buffer /\ Needed = 1
           /\ header # <<>> => /\ Len(header) = 1 /\ Held # <<>> /\ header[1] = <<NextFrame, 1>>
                               /\ NextFrame \in 1..Len(written)
                               /\ Needed = written[NextFrame] - 1
<1>1. header \in Units /\ buffer \in Units /\ Len(header) <= 1 /\ Chain(written, Held, NextFrame)
  BY DEF FramingInv, HeldWhole, FramingTypes
<1>2. /\ Held \in Units
      /\ Len(header) \in Nat /\ Len(buffer) \in Nat /\ Len(Held) = Len(header) + Len(buffer)
      /\ \A i \in 1..(Len(header) + Len(buffer)) :
            Held[i] = IF i <= Len(header) THEN header[i] ELSE buffer[i - Len(header)]
  BY <1>1, ConcatProperties DEF Held, Units
<1>3. header = <<>> => Held = buffer /\ Needed = 1
  BY <1>1 DEF Held, Needed, Units
<1>4. ASSUME header # <<>>
      PROVE  /\ Len(header) = 1 /\ Held # <<>> /\ header[1] = <<NextFrame, 1>>
             /\ NextFrame \in 1..Len(written) /\ Needed = written[NextFrame] - 1
  <2>1. Len(header) = 1
    <3>1. Len(header) # 0
      BY <1>1, <1>4, EmptySeq DEF Units
    <3>. QED BY <1>1, <1>2, <3>1
  <2>2. Len(Held) # 0 /\ 1 \in 1..(Len(header) + Len(buffer)) /\ 1 <= Len(header)
    BY <1>2, <2>1
  <2>3. Held # <<>> /\ Held[1] = header[1]
    BY <1>2, <2>2
  <2>4. header[1] = <<NextFrame, 1>>
    BY <1>1, <2>3 DEF Chain
  <2>5. NextFrame \in 1..Len(written)
    BY <1>1, <2>3, Facts, Rest
  <2>6. Needed = written[NextFrame] - 1
    BY <1>4, <2>4 DEF Needed, LengthOf
  <2>. QED BY <2>1, <2>3, <2>4, <2>5, <2>6
<1>. QED BY <1>1, <1>2, <1>3, <1>4

\* A message beyond the limits of this reader has several frames.
LEMMA RefusedBeyond ==
    ASSUME FramingInv, NEW m, m # <<>>, First(m) \in Nat, Chain(written, m, First(m)),
           Len(m) <= MaxMessage,
           ~WithinLimit(m) \/ (reader.single /\ ~OneFrame(m))
    PROVE  BeyondReader(m)
<1>. DEFINE n == LengthOf(m[1])
<1>1. written \in Lengths /\ \A f \in 1..Len(written) : written[f] \in Sizes
  BY Facts
<1>2. /\ First(m) \in 1..Len(written) /\ written[First(m)] <= Len(m)
      /\ m[1] = <<First(m), 1>> /\ Len(m) \in Nat
  BY <1>1, Rest DEF Chain
<1>3. n = written[First(m)] /\ n \in Nat /\ n <= MaxFrame /\ IsHeader(m[1])
  <2>1. n = written[First(m)] /\ IsHeader(m[1])
    BY <1>2 DEF LengthOf, IsHeader, First
  <2>2. written[First(m)] \in Sizes /\ MaxFrame \in Nat
    BY <1>1, <1>2, FramingAssumption
  <2>3. Sizes \subseteq 1..MaxFrame
    BY FramingAssumption
  <2>4. written[First(m)] \in 1..MaxFrame
    <3>. DEFINE w == written[First(m)]
    <3>. HIDE DEF w
    <3>1. w \in Sizes => w \in 1..MaxFrame
      BY <2>3
    <3>. QED BY <2>2, <3>1 DEF w
  <2>. HIDE DEF n
  <2>. QED BY <2>1, <2>4
<1>. HIDE DEF n
<1>4. reader.max \in Nat /\ MaxFrame <= reader.max /\ MaxFrame \in Nat
  BY FramingAssumption DEF FramingInv, FramingTypes
<1>5. CASE ~WithinLimit(m)
  <2>1. Len(m) > reader.max
    BY <1>2, <1>4, <1>5 DEF WithinLimit
  <2>. QED BY <1>2, <1>3, <1>4, <2>1 DEF BeyondReader, n
<1>6. CASE reader.single /\ ~OneFrame(m)
  <2>1. n # Len(m)
    BY <1>3, <1>6 DEF OneFrame, n
  <2>. QED BY <1>2, <1>3, <1>6, <2>1 DEF BeyondReader, n
<1>. QED BY <1>5, <1>6

\* The reader accepts what the writer made, unless it is beyond its own limits.
LEMMA ReceiveAccepts ==
    ASSUME FramingInv, Receive
    PROVE  /\ UNCHANGED <<writerVars, link, reader, frames, header>>
           /\ \/ /\ buffer' = buffer \o Head(channel) /\ channel' = Tail(channel)
                 /\ UNCHANGED refused
              \/ /\ refused' = Head(channel) /\ UNCHANGED <<channel, buffer>>
                 /\ First(refused') \in Nat /\ Chain(written, refused', First(refused'))
                 /\ BeyondReader(refused')
<1>1. /\ channel # <<>> /\ Len(buffer) < Needed
      /\ UNCHANGED <<writerVars, link, reader, frames>>
      /\ IF /\ WithinLimit(Head(channel)) /\ CheckMessage(Head(channel))
            /\ reader.single => OneFrame(Head(channel))
            /\ Len(buffer \o Head(channel)) <= 2 * MaxMessage
         THEN /\ buffer' = buffer \o Head(channel) /\ channel' = Tail(channel)
              /\ UNCHANGED <<header, refused>>
         ELSE Refuse(Head(channel))
  BY DEF Receive
<1>. DEFINE m == Head(channel)
<1>2. /\ m = channel[1] /\ 1 \in 1..Len(channel)
  BY <1>1 DEF FramingInv, MessagesWhole
<1>. HIDE DEF m
<1>3. /\ m # <<>> /\ Len(m) <= MaxMessage /\ First(m) \in Nat
      /\ Chain(written, m, First(m))
  BY <1>2 DEF FramingInv, MessagesWhole
<1>4. written \in Lengths
  BY Facts
<1>5. CheckMessage(m)
  BY <1>3, <1>4, Checked
<1>6. m \in Units /\ Len(m) \in Nat
  BY <1>3, <1>4, ChainTyped
<1>7. MaxMessage \in Nat /\ \A f \in 1..Len(written) : written[f] \in Nat \ {0} /\ written[f] <= MaxMessage
  BY <1>4, Facts, FramingAssumption DEF Lengths
<1>8. Len(buffer) \in Nat /\ Len(buffer) <= MaxMessage
  <2>1. CASE header = <<>>
    BY <1>1, <1>7, <2>1, ReaderFacts
  <2>2. CASE header # <<>>
    <3>1. NextFrame \in 1..Len(written) /\ Needed = written[NextFrame] - 1 /\ Len(buffer) \in Nat
      BY <2>2, ReaderFacts
    <3>2. written[NextFrame] \in Nat \ {0} /\ written[NextFrame] <= MaxMessage
      BY <1>7, <3>1
    <3>. QED BY <1>1, <1>7, <3>1, <3>2
  <2>. QED BY <2>1, <2>2
<1>9. Len(buffer \o m) = Len(buffer) + Len(m)
  BY <1>6, ReaderFacts, ConcatProperties DEF Units
<1>10. Len(buffer \o m) <= 2 * MaxMessage
  BY <1>3, <1>6, <1>7, <1>8, <1>9
<1>11. ASSUME ~WithinLimit(m) \/ (reader.single /\ ~OneFrame(m))
       PROVE  BeyondReader(m)
  BY <1>3, <1>11, RefusedBeyond
<1>12. CASE WithinLimit(m) /\ (reader.single => OneFrame(m))
  BY <1>1, <1>5, <1>10, <1>12 DEF m
<1>13. CASE ~WithinLimit(m) \/ (reader.single /\ ~OneFrame(m))
  <2>1. Refuse(m)
    BY <1>1, <1>13 DEF m
  <2>. QED BY <1>1, <1>3, <1>11, <1>13, <2>1 DEF Refuse, m
<1>. QED BY <1>12, <1>13

\* A message is checked and joins the buffer.
LEMMA ReceiveJoins ==
    ASSUME FramingInv, Receive, UNCHANGED refused,
           buffer' = buffer \o Head(channel), channel' = Tail(channel)
    PROVE  FramingInv'
<1>. DEFINE m == Head(channel)
<1>1. /\ buffer' = buffer \o m /\ channel' = Tail(channel) /\ channel # <<>>
      /\ UNCHANGED <<written, outgoing, link, reader, header, frames, refused>>
  BY ReceiveAccepts DEF Receive, writerVars
<1>2. channel \in Seq(Units) /\ Len(channel) \in Nat /\ 1 \in 1..Len(channel) /\ m = channel[1]
  BY <1>1 DEF FramingInv, MessagesWhole
<1>3. /\ channel' \in Seq(Units) /\ Len(channel') = Len(channel) - 1
      /\ \A i \in 1..Len(channel') : channel'[i] = channel[i + 1]
  BY <1>1, <1>2, HeadTailProperties
<1>. HIDE DEF m
<1>4. /\ m # <<>> /\ First(m) = Expected /\ Chain(written, m, Expected)
  BY <1>2 DEF FramingInv, MessagesWhole
<1>5. written \in Lengths /\ NextFrame \in Nat /\ Chain(written, Held, NextFrame) /\ Expected \in Nat
  BY Facts
<1>6. m \in Units
  BY <1>4, <1>5, ChainTyped
<1>7. Held' = Held \o m /\ NextFrame' = NextFrame /\ buffer' \in Units
  <2>1. header \in Units /\ buffer \in Units
    BY ReaderFacts
  <2>2. header \o (buffer \o m) = (header \o buffer) \o m
    BY <1>6, <2>1, ConcatAssociative DEF Units
  <2>3. buffer \o m \in Units
    BY <1>6, <2>1 DEF Units
  <2>. QED BY <1>1, <2>2, <2>3 DEF Held, NextFrame
<1>8. Chain(written, Held \o m, NextFrame) /\ Stop(Held \o m, NextFrame) = Stop(m, Expected)
  BY <1>4, <1>5, Joined DEF Expected
<1>9. Expected' = Stop(m, Expected)
  BY <1>7, <1>8 DEF Expected
<1>10. HeldWhole'
  BY <1>1, <1>7, <1>8 DEF FramingInv, HeldWhole
<1>11. MessagesWhole'
  <2>. DEFINE Good(ch, i, e) ==
         /\ ch[i] # <<>> /\ Len(ch[i]) <= MaxMessage /\ First(ch[i]) \in Nat
         /\ Chain(written, ch[i], First(ch[i]))
         /\ First(ch[i]) = IF i = 1 THEN e ELSE Stop(ch[i - 1], First(ch[i - 1]))
  <2>1. \A i \in 1..Len(channel) : Good(channel, i, Expected)
    BY DEF FramingInv, MessagesWhole
  <2>2. ASSUME NEW i \in 1..Len(channel') PROVE Good(channel', i, Expected')
    <3>1. i + 1 \in 1..Len(channel) /\ i + 1 # 1 /\ (i + 1) - 1 = i /\ channel'[i] = channel[i + 1]
      BY <1>2, <1>3
    <3>2. Good(channel, i + 1, Expected)
      BY <2>1, <3>1
    <3>3. First(channel'[i]) = Stop(channel[i], First(channel[i]))
      BY <3>1, <3>2
    <3>4. CASE i = 1
      <4>1. channel[i] = m
        BY <1>2, <3>4
      <4>. QED BY <1>4, <1>9, <3>1, <3>2, <3>3, <3>4, <4>1
    <3>5. CASE i # 1
      <4>1. i - 1 \in 1..Len(channel') /\ (i - 1) + 1 = i
        BY <1>2, <1>3, <3>5
      <4>2. channel'[i - 1] = channel[i]
        BY <1>3, <4>1
      <4>. QED BY <3>1, <3>2, <3>3, <3>5, <4>2
    <3>. QED BY <3>4, <3>5
  <2>. QED BY <1>1, <1>3, <2>2 DEF MessagesWhole, First
<1>12. Upcoming' = Upcoming
  <2>1. CASE Len(channel) = 1
    <3>1. channel' = <<>> /\ channel[Len(channel)] = m
      BY <1>2, <1>3, <2>1
    <3>2. Upcoming' = Expected'
      BY <3>1 DEF Upcoming
    <3>. QED BY <1>1, <1>4, <1>9, <3>1, <3>2 DEF Upcoming
  <2>2. CASE Len(channel) # 1
    <3>1. Len(channel') \in 1..Len(channel') /\ Len(channel') + 1 = Len(channel) /\ channel' # <<>>
      BY <1>2, <1>3, <2>2
    <3>2. channel'[Len(channel')] = channel[Len(channel)]
      BY <1>3, <3>1
    <3>. QED BY <1>1, <3>1, <3>2 DEF Upcoming, First
  <2>. QED BY <2>1, <2>2
<1>13. Pending' /\ FramingTypes'
  BY <1>1, <1>12 DEF FramingInv, Pending, FramingTypes
<1>14. FramesRead'
  <2>1. \A f : Bytes(f)' = Bytes(f)
    BY <1>1 DEF Bytes
  <2>. QED BY <1>1, <2>1 DEF FramingInv, FramesRead
<1>. QED BY <1>1, <1>10, <1>11, <1>13, <1>14, RefusalStays DEF FramingInv

\* A message that is refused stays where it is.
LEMMA ReceiveKeeps ==
    ASSUME FramingInv, Receive PROVE FramingInv'
<1>1. CASE UNCHANGED refused /\ buffer' = buffer \o Head(channel) /\ channel' = Tail(channel)
  BY <1>1, ReceiveJoins
<1>2. ASSUME /\ refused' = Head(channel)
             /\ UNCHANGED <<writerVars, channel, link, reader, buffer, header, frames>>
             /\ First(refused') \in Nat /\ Chain(written, refused', First(refused'))
             /\ BeyondReader(refused')
      PROVE  FramingInv'
  <2>1. /\ UNCHANGED <<written, outgoing>> /\ \A f : Bytes(f)' = Bytes(f)
        /\ Held' = Held /\ NextFrame' = NextFrame /\ Expected' = Expected /\ Upcoming' = Upcoming
    BY <1>2 DEF writerVars, Bytes, Held, NextFrame, Expected, Upcoming, First
  <2>2. FramingTypes' /\ HeldWhole' /\ MessagesWhole' /\ Pending' /\ FramesRead'
    BY <1>2, <2>1 DEF FramingInv, FramingTypes, HeldWhole, MessagesWhole, Pending, FramesRead, First
  <2>3. BeyondReader(refused)'
    BY <1>2, <2>1 DEF BeyondReader, LengthOf
  <2>4. Refusal'
    BY <1>2, <2>1, <2>3 DEF Refusal, First
  <2>. QED BY <2>2, <2>4 DEF FramingInv
<1>. QED BY <1>1, <1>2, ReceiveAccepts

\* The header is taken from the front of the buffer.
LEMMA ReadHeaderKeeps ==
    ASSUME FramingInv, ReadHeader PROVE FramingInv'
<1>. DEFINE u == Head(buffer)
<1>2. header = <<>> /\ buffer # <<>> /\ Held = buffer /\ buffer \in Units
      /\ Chain(written, buffer, NextFrame)
  BY ReaderFacts, Facts DEF ReadHeader
<1>3. u = <<NextFrame, 1>> /\ u = buffer[1] /\ u \in Pair
  BY <1>2 DEF Chain, Units
<1>4. IsHeader(u)
  BY <1>3 DEF IsHeader
<1>1. /\ header = <<>> /\ buffer # <<>> /\ buffer' = Tail(buffer) /\ header' = <<u>>
      /\ UNCHANGED <<written, outgoing, channel, frames, link, reader, refused>>
  BY <1>4 DEF ReadHeader, writerVars
<1>5. header' = <<u>>
  BY <1>1
<1>6. header' \in Units /\ Len(header') = 1 /\ buffer' \in Units
  BY <1>1, <1>2, <1>3, <1>5, HeadTailProperties DEF Units
<1>7. header' \o buffer' = buffer
  <2>. DEFINE h == <<Head(buffer)>>
              t == Tail(buffer)
  <2>1. h \in Seq(Pair) /\ Len(h) = 1 /\ h[1] = buffer[1]
    BY <1>3
  <2>2. /\ t \in Seq(Pair) /\ Len(t) = Len(buffer) - 1
        /\ \A i \in 1..Len(t) : t[i] = buffer[i + 1]
    BY <1>1, <1>2, HeadTailProperties DEF Units
  <2>. HIDE DEF h, t
  <2>3. /\ h \o t \in Seq(Pair) /\ Len(h \o t) = Len(h) + Len(t)
        /\ \A i \in 1..(Len(h) + Len(t)) : (h \o t)[i] = IF i <= Len(h) THEN h[i] ELSE t[i - Len(h)]
    <3>1. h \in Seq(Pair) /\ t \in Seq(Pair)
      BY <2>1, <2>2
    <3>. QED BY <3>1, ConcatProperties
  <2>4. buffer \in Seq(Pair) /\ Len(buffer) \in Nat
    BY <1>2 DEF Units
  <2>5. ASSUME NEW i \in 1..Len(buffer) PROVE (h \o t)[i] = buffer[i]
    <3>1. i \in 1..(Len(h) + Len(t))
      BY <2>1, <2>2, <2>4
    <3>2. CASE i = 1
      BY <2>1, <2>3, <3>1, <3>2
    <3>3. CASE i # 1
      <4>1. i - 1 \in 1..Len(t) /\ (i - 1) + 1 = i /\ ~(i <= Len(h)) /\ i - Len(h) = i - 1
        BY <2>1, <2>2, <2>4, <3>3
      <4>. QED BY <2>2, <2>3, <3>1, <4>1
    <3>. QED BY <3>2, <3>3
  <2>6. Len(h \o t) = Len(buffer)
    BY <2>1, <2>2, <2>3, <2>4
  <2>7. h \o t = buffer
    BY <2>3, <2>4, <2>5, <2>6, SeqEqual
  <2>. QED BY <1>1, <1>5, <2>7 DEF h, t
<1>8. Held' = Held /\ NextFrame' = NextFrame /\ Expected' = Expected /\ Upcoming' = Upcoming
  <2>1. Held' = Held
    BY <1>2, <1>7 DEF Held
  <2>. QED BY <1>1, <2>1 DEF NextFrame, Expected, Upcoming, First
<1>9. HeldWhole'
  BY <1>1, <1>6, <1>8 DEF FramingInv, HeldWhole
<1>10. MessagesWhole'
  BY <1>1, <1>8 DEF FramingInv, MessagesWhole, First
<1>11. FramingTypes' /\ Pending'
  BY <1>1, <1>5, <1>6, <1>8 DEF FramingInv, FramingTypes, Pending
<1>12. FramesRead'
  <2>1. \A f : Bytes(f)' = Bytes(f)
    BY <1>1 DEF Bytes
  <2>. QED BY <1>1, <2>1 DEF FramingInv, FramesRead
<1>. QED BY <1>1, <1>9, <1>10, <1>11, <1>12, RefusalStays DEF FramingInv

\* The body is taken from the front of the buffer, and the frame is whole.
LEMMA ReadBodyTakes ==
    ASSUME FramingInv, ReadBody
    PROVE  /\ NextFrame \in 1..Len(written) /\ frames' = Append(frames, Bytes(NextFrame))
           /\ Held' = SubSeq(Held, written[NextFrame] + 1, Len(Held))
           /\ header' = <<>> /\ buffer' \in Units
           /\ UNCHANGED <<written, outgoing, channel, link, reader, refused>>
<1>. DEFINE a == NextFrame
            n == written[a]
            body == SubSeq(buffer, 1, Needed)
            left == SubSeq(buffer, Needed + 1, Len(buffer))
            rest == SubSeq(Held, n + 1, Len(Held))
<1>1. /\ header # <<>> /\ Len(buffer) >= Needed /\ frames' = Append(frames, header \o body)
      /\ buffer' = left /\ header' = <<>>
      /\ UNCHANGED <<written, outgoing, channel, link, reader, refused>>
  BY DEF ReadBody, writerVars
<1>2. /\ header \in Seq(Pair) /\ buffer \in Seq(Pair) /\ Held \in Seq(Pair)
      /\ Len(header) = 1 /\ Len(buffer) \in Nat /\ Len(Held) = 1 + Len(buffer) /\ Held # <<>>
      /\ header[1] = <<a, 1>> /\ a \in 1..Len(written) /\ Needed = n - 1
      /\ \A i \in 1..(1 + Len(buffer)) : Held[i] = IF i <= 1 THEN header[i] ELSE buffer[i - 1]
  BY <1>1, ReaderFacts DEF Units
<1>3. n \in Nat \ {0} /\ n <= Len(Held) /\ \A k \in 1..n : Held[k] = <<a, k>>
  <2>1. written \in Lengths /\ NextFrame \in Nat /\ Chain(written, Held, NextFrame)
    BY Facts
  <2>2. Held # <<>>
    BY <1>2
  <2>3. /\ written[NextFrame] \in Nat \ {0} /\ written[NextFrame] <= Len(Held)
        /\ \A k \in 1..written[NextFrame] : Held[k] = <<NextFrame, k>>
    BY <2>1, <2>2, Rest
  <2>. QED BY <2>3
<1>4. Needed \in 0..Len(buffer) /\ n - 1 \in Nat
  BY <1>1, <1>2, <1>3
<1>. HIDE DEF a, n
<1>5. body \in Seq(Pair) /\ Len(body) = n - 1 /\ \A i \in 1..(n - 1) : body[i] = buffer[i]
  <2>1. body \in Seq(Pair) /\ Len(body) = Needed /\ \A i \in 1..Needed : body[i] = buffer[i]
    BY <1>2, <1>4, FirstOf
  <2>. QED BY <1>2, <2>1
<1>6. /\ left \in Seq(Pair) /\ Len(left) = Len(buffer) - (n - 1)
      /\ \A i \in 1..(Len(buffer) - (n - 1)) : left[i] = buffer[(n - 1) + i]
  <2>1. /\ left \in Seq(Pair) /\ Len(left) = Len(buffer) - Needed
        /\ \A i \in 1..(Len(buffer) - Needed) : left[i] = buffer[Needed + i]
    BY <1>2, <1>4, LastOf
  <2>. QED BY <1>2, <2>1
<1>7. /\ rest \in Seq(Pair) /\ Len(rest) = Len(Held) - n
      /\ \A i \in 1..(Len(Held) - n) : rest[i] = Held[n + i]
  <2>1. n \in 0..Len(Held)
    BY <1>2, <1>3
  <2>. QED BY <1>2, <2>1, LastOf
<1>. HIDE DEF body, left, rest
<1>8. header \o body = Bytes(a)
  <2>1. /\ header \o body \in Seq(Pair) /\ Len(header \o body) = 1 + (n - 1)
        /\ \A i \in 1..(1 + (n - 1)) : (header \o body)[i] =
              IF i <= 1 THEN header[i] ELSE body[i - 1]
    <3>1. header \in Seq(Pair) /\ body \in Seq(Pair)
      BY <1>2, <1>5
    <3>2. /\ header \o body \in Seq(Pair) /\ Len(header \o body) = Len(header) + Len(body)
          /\ \A i \in 1..(Len(header) + Len(body)) : (header \o body)[i] =
                IF i <= Len(header) THEN header[i] ELSE body[i - Len(header)]
      BY <3>1, ConcatProperties
    <3>. QED BY <1>2, <1>5, <3>2
  <2>2. 1 + (n - 1) = n
    BY <1>3
  <2>3. /\ Bytes(a) \in Seq(Pair) /\ Len(Bytes(a)) = n /\ \A i \in 1..n : Bytes(a)[i] = <<a, i>>
    <3>1. \A i \in 1..n : <<a, i>> \in Pair
      BY <1>2, <1>3 DEF Pair
    <3>2. Bytes(a) = [k \in 1..n |-> <<a, k>>]
      BY DEF Bytes, n
    <3>. QED BY <1>3, <3>1, <3>2
  <2>4. ASSUME NEW i \in 1..n PROVE (header \o body)[i] = <<a, i>>
    <3>1. CASE i = 1
      BY <1>2, <2>1, <2>2, <3>1
    <3>2. CASE i # 1
      <4>1. i - 1 \in 1..(n - 1) /\ ~(i <= 1) /\ i \in 1..(1 + Len(buffer))
        BY <1>2, <1>3, <3>2
      <4>2. (header \o body)[i] = buffer[i - 1]
        BY <1>5, <2>1, <2>2, <4>1
      <4>. QED BY <1>2, <1>3, <4>1, <4>2
    <3>. QED BY <3>1, <3>2
  <2>5. Len(header \o body) = Len(Bytes(a))
    BY <2>1, <2>2, <2>3
  <2>6. \A i \in 1..Len(header \o body) : (header \o body)[i] = Bytes(a)[i]
    BY <2>1, <2>2, <2>3, <2>4
  <2>. QED BY <2>1, <2>3, <2>5, <2>6, SeqEqual
<1>9. left = rest
  <2>1. Len(left) = Len(rest) /\ Len(left) \in Nat
    BY <1>2, <1>3, <1>6, <1>7
  <2>2. ASSUME NEW i \in 1..Len(left) PROVE left[i] = rest[i]
    <3>1. i \in 1..(Len(buffer) - (n - 1)) /\ i \in 1..(Len(Held) - n)
      BY <1>6, <1>7, <2>1
    <3>2. n + i \in 1..(1 + Len(buffer)) /\ ~(n + i <= 1) /\ (n + i) - 1 = (n - 1) + i
      BY <1>2, <1>3, <3>1
    <3>3. left[i] = buffer[(n - 1) + i] /\ rest[i] = Held[n + i]
      BY <1>6, <1>7, <3>1
    <3>4. Held[n + i] = buffer[(n + i) - 1]
      BY <1>2, <3>2
    <3>. QED BY <3>2, <3>3, <3>4
  <2>. QED BY <1>6, <1>7, <2>1, <2>2, SeqEqual
<1>10. Held' = left
  BY <1>1, <1>6 DEF Held
<1>11. buffer' \in Units
  BY <1>1, <1>6 DEF Units
<1>. QED BY <1>1, <1>2, <1>8, <1>9, <1>10, <1>11 DEF a, n, rest

\* A frame is handed on.
LEMMA ReadBodyKeeps ==
    ASSUME FramingInv, ReadBody PROVE FramingInv'
<1>. DEFINE a == NextFrame
<1>1. /\ a \in 1..Len(written) /\ frames' = Append(frames, Bytes(a))
      /\ Held' = SubSeq(Held, written[a] + 1, Len(Held))
      /\ header' = <<>> /\ buffer' \in Units
      /\ UNCHANGED <<written, outgoing, channel, link, reader, refused>>
  BY ReadBodyTakes
<1>2. written \in Lengths /\ Len(written) \in Nat /\ a \in Nat /\ Chain(written, Held, a)
  BY Facts
<1>3. Held # <<>>
  BY ReaderFacts DEF ReadBody
<1>4. frames \in Seq(Units) /\ Len(frames) \in Nat /\ a = Len(frames) + 1
      /\ \A f \in 1..Len(frames) : frames[f] = Bytes(f)
  BY DEF FramingInv, FramesRead, NextFrame
<1>5. Bytes(a) \in Units
  BY <1>1, <1>2, BytesChain, ChainTyped
<1>6. /\ frames' \in Seq(Units) /\ Len(frames') = a
      /\ \A f \in 1..a : frames'[f] = Bytes(f)
  <2>1. /\ frames' \in Seq(Units) /\ Len(frames') = Len(frames) + 1
        /\ \A f \in 1..Len(frames) : frames'[f] = frames[f]
        /\ frames'[Len(frames) + 1] = Bytes(a)
    BY <1>1, <1>4, <1>5
  <2>2. \A f \in 1..a : f \in 1..Len(frames) \/ f = a
    BY <1>4
  <2>. QED BY <1>4, <2>1, <2>2
<1>7. NextFrame' = a + 1
  BY <1>6 DEF NextFrame
<1>. HIDE DEF a
<1>8. /\ Chain(written, SubSeq(Held, written[a] + 1, Len(Held)), a + 1)
      /\ Stop(SubSeq(Held, written[a] + 1, Len(Held)), a + 1) = Stop(Held, a)
  BY <1>2, <1>3, Rest
<1>9. Chain(written, Held', a + 1) /\ Stop(Held', a + 1) = Stop(Held, a)
  BY <1>1, <1>8
<1>10. Expected' = Expected
  BY <1>7, <1>9 DEF Expected, a
<1>11. Upcoming' = Upcoming
  BY <1>1, <1>10 DEF Upcoming, First
<1>12. HeldWhole'
  <2>1. <<>> \in Units
    BY DEF Units
  <2>. QED BY <1>1, <1>7, <1>9, <2>1 DEF HeldWhole
<1>13. MessagesWhole'
  BY <1>1, <1>10 DEF FramingInv, MessagesWhole, First
<1>14. FramingTypes' /\ Pending'
  <2>1. Len(<<>>) = 0
    OBVIOUS
  <2>. QED BY <1>1, <1>11, <2>1 DEF FramingInv, FramingTypes, Pending
<1>15. FramesRead'
  <2>1. \A f : Bytes(f)' = Bytes(f)
    BY <1>1 DEF Bytes
  <2>2. a <= Len(written)
    BY <1>1, <1>2
  <2>. QED BY <1>1, <1>6, <2>1, <2>2 DEF FramesRead
<1>. QED BY <1>1, <1>12, <1>13, <1>14, <1>15, RefusalStays DEF FramingInv

-----------------------------------------------------------------------------
(* The theorems.                                                           *)

\* Each step keeps the invariant.
LEMMA FramingStep ==
    ASSUME FramingInv, [FramingNext]_framingVars PROVE FramingInv'
<1>1. ASSUME NEW sizes \in Bursts, Write(sizes) PROVE FramingInv'
  BY <1>1, WriteKeeps
<1>2. CASE SendDone \/ WriterClose \/ UNCHANGED framingVars
  <2>1. /\ UNCHANGED <<written, channel, readerVars>>
        /\ \/ UNCHANGED <<outgoing, link>>
           \/ outgoing' = <<>> /\ link' \in {"closing", "cut"}
    BY <1>2 DEF SendDone, WriterClose, framingVars, writerVars, readerVars
  <2>. QED BY <2>1, QuietKeeps
<1>3. CASE Drain \/ Cut \/ Receive \/ ReadHeader \/ ReadBody
  BY <1>3, DrainKeeps, CutKeeps, ReceiveKeeps, ReadHeaderKeeps, ReadBodyKeeps
<1>. QED BY <1>1, <1>2, <1>3 DEF FramingNext, Carry

\* Bytes that are written, coalesced, in transit, buffered and read are at all
\* times one chain of whole frames.  (FrameBatcher and the readers of
\* sever/webtransport.py, read_frame of sever/wire.py.)
THEOREM FramingInvariant == FramingSpec => []FramingInv
BY InitFraming, FramingStep, PTL DEF FramingSpec

\* However packets are batched and wherever the link is cut, what a reader refuses
\* is a message of several frames within the writer's limit and beyond the
\* reader's own: none is longer than 65536 bytes, none ends inside a frame, and a
\* single frame is never refused.  (drain against check_message in
\* sever/webtransport.py, max_msg_size in sever/client.py, Wire.decode of iOS.)
THEOREM RefusalsExplained == FramingSpec => []RefusesOnlyBeyond
<1>1. FramingInv => RefusesOnlyBeyond
  BY DEF FramingInv, Refusal, RefusesOnlyBeyond
<1>. QED BY <1>1, FramingInvariant, PTL

\* A reader that takes what the writer may make, as the node's does, refuses
\* nothing.  (MAX_MESSAGE at both ends in sever/webtransport.py.)
THEOREM NeverRefused ==
    FramingSpec => [](reader.max >= MaxMessage /\ ~reader.single => refused = <<>>)
<1>1. FramingInv => (reader.max >= MaxMessage /\ ~reader.single => refused = <<>>)
  <2>. SUFFICES ASSUME FramingInv, reader.max >= MaxMessage, ~reader.single, refused # <<>>
               PROVE  FALSE
    OBVIOUS
  <2>1. BeyondReader(refused) /\ First(refused) \in Nat /\ Chain(written, refused, First(refused))
    BY DEF FramingInv, Refusal
  <2>2. Len(refused) \in Nat /\ reader.max \in Nat /\ MaxMessage \in Nat
    BY <2>1, FramingAssumption DEF Chain, FramingInv, FramingTypes
  <2>. QED BY <2>1, <2>2 DEF BeyondReader
<1>. QED BY <1>1, FramingInvariant, PTL

\* To who writes and who reads frames, batching cannot be seen: the frames read
\* are those written, whole and in order, as over a stream that only delivers.
\* (Framing implements FrameStream.)
THEOREM BatchingInvisible == FramingSpec => FramesInOrder
<1>. DEFINE sent == [f \in DOMAIN written |-> Bytes(f)]
<1>1. FramingInit => Stream!Init
  <2>. SUFFICES ASSUME FramingInit PROVE sent = <<>> /\ frames = <<>>
    BY DEF Stream!Init
  <2>1. DOMAIN written = {}
    BY DEF FramingInit
  <2>2. sent = [f \in {} |-> Bytes(f)]
    BY <2>1
  <2>. QED BY <2>2 DEF FramingInit
<1>2. ASSUME FramingInv, [FramingNext]_framingVars
      PROVE  [Stream!Next]_<<sent, frames>>
  <2>1. written \in Seq(Sizes) /\ DOMAIN written = 1..Len(written) /\ Len(written) \in Nat
    BY <1>2 DEF FramingInv, FramingTypes
  <2>2. ASSUME NEW sizes \in Bursts, Write(sizes) PROVE Stream!Send
    <3>1. written' = written \o sizes /\ UNCHANGED frames
      BY <2>2 DEF Write, readerVars
    <3>2. PICK n \in 1..Batch : sizes \in [1..n -> Sizes]
      BY DEF Bursts
    <3>3. n \in Nat /\ n > 0 /\ sizes \in Seq(Sizes) /\ Len(sizes) = n
      BY <3>2, FramingAssumption
    <3>4. /\ written' \in Seq(Sizes) /\ Len(written') = Len(written) + n
          /\ \A f \in 1..(Len(written) + n) : written'[f] =
                IF f <= Len(written) THEN written[f] ELSE sizes[f - Len(written)]
      BY <2>1, <3>1, <3>3, ConcatProperties
    <3>5. DOMAIN written' = 1..Len(written')
      BY <3>4
    <3>6. \A f \in 1..Len(written) : Bytes(f)' = Bytes(f) /\ f \in 1..Len(written')
      BY <2>1, <3>3, <3>4 DEF Bytes
    <3>. DEFINE All == UNION {{Bytes(f), Bytes(f)'} : f \in 1..Len(written')}
    <3>7. sent \in Seq(All) /\ Len(sent) = Len(written)
          /\ \A f \in 1..Len(written) : sent[f] = Bytes(f)
      <4>1. \A f \in 1..Len(written) : Bytes(f) \in All
        BY <3>6
      <4>. HIDE DEF All
      <4>. QED BY <2>1, <4>1
    <3>8. sent' \in Seq(All) /\ Len(sent') = Len(written')
          /\ \A f \in 1..Len(written') : sent'[f] = Bytes(f)'
      <4>1. \A f \in 1..Len(written') : Bytes(f)' \in All
        OBVIOUS
      <4>2. sent' = [f \in DOMAIN written' |-> Bytes(f)']
        OBVIOUS
      <4>. HIDE DEF All, sent
      <4>. QED BY <2>1, <3>3, <3>4, <3>5, <4>1, <4>2
    <3>. HIDE DEF sent, All
    <3>9. SubSeq(sent', 1, Len(sent)) = sent
      <4>1. Len(sent) \in 0..Len(sent')
        BY <2>1, <3>3, <3>4, <3>7, <3>8
      <4>2. /\ SubSeq(sent', 1, Len(sent)) \in Seq(All)
            /\ Len(SubSeq(sent', 1, Len(sent))) = Len(sent)
            /\ \A f \in 1..Len(sent) : SubSeq(sent', 1, Len(sent))[f] = sent'[f]
        BY <3>8, <4>1, FirstOf
      <4>3. \A f \in 1..Len(sent) : sent'[f] = sent[f]
        BY <3>6, <3>7, <3>8
      <4>. QED BY <3>7, <4>2, <4>3, SeqEqual
    <3>10. Len(sent') > Len(sent)
      BY <2>1, <3>3, <3>4, <3>7, <3>8
    <3>. QED BY <3>1, <3>9, <3>10 DEF Stream!Send, sent
  <2>3. ASSUME UNCHANGED written PROVE UNCHANGED sent
    BY <2>3 DEF Bytes
  <2>4. ASSUME ReadBody PROVE Stream!Deliver
    <3>1. NextFrame \in 1..Len(written) /\ frames' = Append(frames, Bytes(NextFrame)) /\ UNCHANGED written
      BY <1>2, <2>4, ReadBodyTakes
    <3>2. UNCHANGED sent
      BY <2>3, <3>1
    <3>3. sent[NextFrame] = Bytes(NextFrame)
      BY <2>1, <3>1
    <3>4. Len(sent) = Len(written)
      <4>1. sent \in Seq({Bytes(f) : f \in 1..Len(written)})
        BY <2>1
      <4>. QED BY <2>1, <4>1
    <3>5. Len(frames) \in Nat /\ NextFrame = Len(frames) + 1
      BY <1>2 DEF FramingInv, FramesRead, NextFrame
    <3>. HIDE DEF sent
    <3>6. Len(frames) < Len(sent)
      BY <2>1, <3>1, <3>4, <3>5
    <3>. QED BY <3>1, <3>2, <3>3, <3>5, <3>6 DEF Stream!Deliver, sent
  <2>5. CASE SendDone \/ WriterClose \/ Drain \/ Cut \/ Receive \/ ReadHeader \/ UNCHANGED framingVars
    <3>1. UNCHANGED <<written, frames>>
      BY <2>5 DEF SendDone, WriterClose, Drain, Cut, Receive, ReadHeader,
                  framingVars, writerVars, readerVars
    <3>. QED BY <2>3, <3>1
  <2>. QED BY <1>2, <2>2, <2>4, <2>5 DEF FramingNext, Carry, Stream!Next
<1>. HIDE DEF sent
<1>3. FramingSpec => Stream!Init /\ [][Stream!Next]_<<sent, frames>>
  BY <1>1, <1>2, FramingInvariant, PTL DEF FramingSpec
<1>. QED BY <1>3, PTL DEF FramesInOrder, Stream!Spec, sent

-----------------------------------------------------------------------------
(* ClientSession: the inductive invariant, which bounds how long it takes  *)
(* until an end is heard.                                                  *)

\* A session both ends hold, over a network that works.
Serving == Running /\ nodeUp /\ ~hung

Types ==
    /\ quiet \in [Ends -> Nat]
    /\ wire \in [Kinds -> Int]
    /\ probing \in BOOLEAN /\ nodeUp \in BOOLEAN /\ hung \in BOOLEAN

\* A packet pushes the idle deadline no further than the interval, and both
\* deadlines leave time for two drains and the way.
Deadlines ==
    /\ idleLeft \in Nat /\ probeLeft \in Nat /\ interval \in Nat
    /\ idleLeft <= interval
    /\ ConfigTicks + interval + 2 * DrainTicks + NetTicks < Silence
    /\ probeLeft + 2 * DrainTicks + 2 * NetTicks < Silence

\* What the holder of the lock and the frames under way have waited.
Prompt ==
    /\ lock.kind \in {"none", "packet", "ping"} /\ lock.age \in 0..DrainTicks
    /\ lock.kind = "none" => lock = Unlocked
    /\ probing => lock.kind = "packet"
    /\ \A k \in Kinds : wire[k] \in {Absent} \cup 0..NetTicks

\* Ticks until a probe has set out, at most, if the next one is due in `due`.
ToProbe(due) ==
    IF lock.kind = "ping" THEN DrainTicks - lock.age
    ELSE IF probing THEN (DrainTicks - lock.age) + DrainTicks
    ELSE due + 2 * DrainTicks

Sooner == IF idleLeft <= probeLeft THEN idleLeft ELSE probeLeft

\* The node hears a probe or a packet that is under way, or the next probe,
\* before it gives the client up.
NodeClock ==
    \/ wire["ping"] # Absent /\ quiet["node"] + NetTicks - wire["ping"] < Silence
    \/ wire["packet"] # Absent /\ quiet["node"] + NetTicks - wire["packet"] < Silence
    \/ quiet["node"] + ToProbe(Sooner) + NetTicks < Silence

\* The client hears the answer to a probe, which packets do not put off
\* further than the probe's own deadline.
ClientClock ==
    \/ wire["pong"] # Absent /\ quiet["client"] + NetTicks - wire["pong"] < Silence
    \/ wire["ping"] # Absent /\ quiet["client"] + 2 * NetTicks - wire["ping"] < Silence
    \/ quiet["client"] + ToProbe(probeLeft) + 2 * NetTicks < Silence

\* The node waits for a session to begin no longer than the client for CONFIG.
ConfigClock == stage = "config" /\ nodeUp /\ ~hung => quiet["node"] <= ConfigTicks

Clocks == Deadlines /\ Prompt /\ NodeClock /\ ClientClock

ClientInv == Types /\ ConfigClock /\ (Serving => Clocks)

LEMMA Constants ==
    /\ ConfigTicks \in Nat /\ DrainTicks \in Nat /\ NetTicks \in Nat /\ Silence \in Nat
    /\ "client" \in Ends /\ "node" \in Ends
    /\ "packet" \in Kinds /\ "ping" \in Kinds /\ "pong" \in Kinds
    /\ Absent \in Int /\ Absent < 0
BY ClientAssumption DEF Ends, Kinds, Absent

\* A heartbeat that was drawn anew keeps its deadlines.
LEMMA Drawn ==
    ASSUME interval' \in IdleTicks, idleLeft' = interval', probeLeft' \in ProbeTicks
    PROVE  Deadlines'
<1>1. interval' \in Nat /\ probeLeft' \in Nat
  BY ClientAssumption
<1>. QED BY <1>1, PromptAssumption DEF Deadlines

\* An end that was just heard is quiet for no longer than a probe takes.
LEMMA Afresh ==
    ASSUME Deadlines, Prompt, probing \in BOOLEAN
    PROVE  /\ ToProbe(Sooner) \in Nat /\ ToProbe(probeLeft) \in Nat
           /\ ToProbe(Sooner) + NetTicks < Silence
           /\ ToProbe(probeLeft) + 2 * NetTicks < Silence
<1>1. Sooner \in Nat /\ Sooner <= probeLeft
  BY DEF Sooner, Deadlines
<1>2. lock.age \in Nat /\ lock.age <= DrainTicks
  BY Constants DEF Prompt
<1>. QED BY <1>1, <1>2, Constants DEF ToProbe, Deadlines

LEMMA ClientInitInv == ClientInit => ClientInv
<1>. SUFFICES ASSUME ClientInit PROVE ClientInv
  OBVIOUS
<1>1. Types
  BY Constants DEF ClientInit, Types
<1>2. ConfigClock /\ ~Serving
  BY DEF ClientInit, ConfigClock, Serving, Running
<1>. QED BY <1>1, <1>2 DEF ClientInv

-----------------------------------------------------------------------------
(* The steps.                                                              *)

\* What the steps make of clocks and frames.
LEMMA Values ==
    ASSUME Types
    PROVE  /\ [k \in Kinds |-> Absent] \in [Kinds -> Int]
           /\ [e \in Ends |-> 0] \in [Ends -> Nat]
           /\ \A e \in Ends : [quiet EXCEPT ![e] = 0] \in [Ends -> Nat]
           /\ \A k \in Kinds : [wire EXCEPT ![k] = Absent] \in [Kinds -> Int]
<1>. QED BY Constants DEF Types

\* A frame that sets out is on its way, and the others as they were.
LEMMA OnItsWay ==
    ASSUME NEW w \in [Kinds -> Int], NEW kind
    PROVE  /\ Departs(kind, w) \in [Kinds -> Int]
           /\ \A k \in Kinds : \/ Departs(kind, w)[k] = w[k]
                               \/ k = kind /\ w[k] = Absent /\ Departs(kind, w)[k] = 0
           /\ kind \in Kinds /\ ~hung => Departs(kind, w)[kind] # Absent
<1>1. CASE hung \/ w[kind] # Absent
  BY <1>1 DEF Departs
<1>2. CASE ~(hung \/ w[kind] # Absent)
  <2>1. Departs(kind, w) = [w EXCEPT ![kind] = 0]
    BY <1>2 DEF Departs
  <2>2. Departs(kind, w) = [k \in Kinds |-> IF k = kind THEN 0 ELSE w[k]]
    BY <2>1
  <2>. QED BY <1>2, <2>2, Constants
<1>. QED BY <1>1, <1>2

LEMMA Typed ==
    ASSUME Types, [ClientNext]_clientVars
    PROVE  Types'
<1>. USE Values, Constants
<1>0. ASSUME NEW next, Leaves(next) PROVE Types'
  BY <1>0 DEF Types, Leaves
<1>1. CASE Attempts
  <2>1. CASE Dialled \/ HandshakeDone
    <3>1. quiet' \in [Ends -> Nat] /\ nodeUp' \in BOOLEAN
      BY <2>1 DEF Types, Dialled, HandshakeDone, NodeAnswers
    <3>2. UNCHANGED <<hung, wire, probing>>
      BY <2>1 DEF Dialled, HandshakeDone, traffic
    <3>. QED BY <3>1, <3>2 DEF Types
  <2>2. CASE Configured
    BY <2>2 DEF Types, Configured
  <2>3. CASE AttemptFails
    BY <1>0, <2>3 DEF AttemptFails
  <2>. QED BY <1>1, <2>1, <2>2, <2>3 DEF Attempts
<1>2. CASE Cancel \/ DrainTimeout \/ GivesUp
  BY <1>0, <1>2 DEF Cancel, DrainTimeout, GivesUp, ClientGivesUp, ClientSeesEnd
<1>3. CASE Cleans
  <2>1. nodeUp' = (nodeUp /\ hung) /\ UNCHANGED <<hung, wire, probing, quiet>>
    BY <1>3 DEF Cleans, NextEndpoint, Finish, CloseTransport, traffic
  <2>. QED BY <2>1 DEF Types
<1>4. CASE SendPacket \/ Probe
  <2>1. probing' \in BOOLEAN /\ UNCHANGED <<hung, nodeUp, wire, quiet>>
    BY <1>4 DEF Types, SendPacket, Probe, RunningOn
  <2>. QED BY <2>1 DEF Types
<1>5. CASE Sent
  <2>1. /\ wire' = Departs(lock.kind, wire) /\ probing' = FALSE
        /\ UNCHANGED <<hung, nodeUp, quiet>>
    BY <1>5 DEF Sent, RunningOn
  <2>2. wire' \in [Kinds -> Int]
    BY <2>1, OnItsWay DEF Types
  <2>. QED BY <2>1, <2>2 DEF Types
<1>6. ASSUME NEW kind \in Kinds, NodeHears(kind) PROVE Types'
  <2>1. /\ quiet' = [quiet EXCEPT !["node"] = 0] /\ UNCHANGED <<hung, nodeUp, probing>>
        /\ \/ wire' = [wire EXCEPT ![kind] = Absent]
           \/ wire' = Departs("pong", [wire EXCEPT ![kind] = Absent])
    BY <1>6 DEF NodeHears, RunningOn
  <2>2. wire' \in [Kinds -> Int]
    <3>. DEFINE taken == [wire EXCEPT ![kind] = Absent]
    <3>1. taken \in [Kinds -> Int]
      OBVIOUS
    <3>2. wire' = taken \/ wire' = Departs("pong", taken)
      BY <2>1
    <3>. HIDE DEF taken
    <3>3. Departs("pong", taken) \in [Kinds -> Int]
      BY <3>1, OnItsWay
    <3>. QED BY <3>1, <3>2, <3>3
  <2>. QED BY <2>1, <2>2 DEF Types
<1>7. CASE ClientHears
  BY <1>7 DEF Types, ClientHears, RunningOn
<1>8. CASE Hang \/ NodeEnds
  <2>1. CASE Hang
    BY <2>1 DEF Types, Hang
  <2>2. CASE NodeEnds
    BY <2>2 DEF Types, NodeEnds, traffic
  <2>. QED BY <1>8, <2>1, <2>2
<1>9. CASE Tick
  <2>1. quiet' \in [Ends -> Nat]
    BY <1>9 DEF Types, Tick
  <2>2. wire' \in [Kinds -> Int]
    <3>1. CASE Running
      BY <1>9, <3>1 DEF Types, Tick
    <3>2. CASE ~Running
      BY <1>9, <3>2 DEF Types, Tick
    <3>. QED BY <3>1, <3>2
  <2>. QED BY <1>9, <2>1, <2>2 DEF Types, Tick
<1>10. CASE UNCHANGED clientVars
  BY <1>10 DEF Types, clientVars, traffic
<1>. QED BY <1>1, <1>2, <1>3, <1>4, <1>5, <1>6, <1>7, <1>8, <1>9, <1>10
     DEF ClientNext, Drains, NodeReads

\* Waiting for CONFIG takes its time from the node's clock, and no more.
LEMMA ConfigStep ==
    ASSUME ClientInv, [ClientNext]_clientVars
    PROVE  ConfigClock'
<1>. USE Constants DEF ClientInv, Types
<1>0. stage' # "config" => ConfigClock'
  BY DEF ConfigClock
<1>1. CASE Dialled \/ HandshakeDone
  <2>1. (stage' = "config" /\ quiet' = [e \in Ends |-> 0]) \/ stage' = "handshake"
    BY <1>1 DEF Dialled, HandshakeDone, NodeAnswers
  <2>. QED BY <1>0, <2>1 DEF ConfigClock
<1>2. ASSUME NEW next \in {"cleanup", "cancelled"}, Leaves(next) PROVE ConfigClock'
  BY <1>0, <1>2 DEF Leaves
<1>3. CASE Configured \/ AttemptFails \/ Cancel \/ Cleans \/ DrainTimeout \/ GivesUp
  BY <1>0, <1>2, <1>3 DEF Configured, AttemptFails, Cancel, Cleans, NextEndpoint, Finish,
     DrainTimeout, GivesUp, ClientGivesUp, ClientSeesEnd
<1>4. CASE SendPacket \/ Probe \/ Sent \/ NodeReads \/ ClientHears
  BY <1>0, <1>4 DEF SendPacket, Probe, Sent, NodeReads, NodeHears, ClientHears, RunningOn, Running
<1>5. CASE Hang \/ NodeEnds
  BY <1>5 DEF Hang, NodeEnds, ConfigClock
<1>6. CASE Tick
  <2>. SUFFICES ASSUME stage' = "config", nodeUp', ~hung' PROVE quiet'["node"] <= ConfigTicks
    BY DEF ConfigClock
  <2>1. stage = "config" /\ nodeUp /\ ~hung /\ quiet["node"] < ConfigTicks
    BY <1>6 DEF Tick, Pressing
  <2>2. quiet'["node"] = IF quiet["node"] < Silence THEN quiet["node"] + 1 ELSE quiet["node"]
    BY <1>6, <2>1 DEF Tick
  <2>. QED BY <2>1, <2>2
<1>7. CASE UNCHANGED clientVars
  BY <1>7 DEF clientVars, ConfigClock
<1>. QED BY <1>1, <1>3, <1>4, <1>5, <1>6, <1>7 DEF ClientNext, Attempts, Drains

-----------------------------------------------------------------------------
(* A session that works.                                                   *)

\* A new session: the intervals were drawn, and nothing is under way.
LEMMA NewSession ==
    ASSUME ClientInv, Configured, ~hung, nodeUp
    PROVE  Clocks'
<1>. USE Constants DEF ClientInv, Types
<1>1. /\ interval' \in IdleTicks /\ idleLeft' = interval' /\ probeLeft' \in ProbeTicks
      /\ lock' = Unlocked /\ probing' = FALSE /\ wire' = [k \in Kinds |-> Absent]
      /\ quiet' = [quiet EXCEPT !["client"] = 0]
  BY DEF Configured, Redrawn
<1>2. Deadlines'
  BY <1>1, Drawn
<1>3. Prompt'
  BY <1>1 DEF Prompt, Unlocked
<1>4. quiet'["node"] <= ConfigTicks /\ quiet'["node"] \in Nat
      /\ quiet'["client"] = 0 /\ quiet'["client"] \in Nat
  BY <1>1 DEF Configured, ConfigClock
<1>5. lock'.kind # "ping" /\ probing' = FALSE
  BY <1>1 DEF Unlocked
<1>6. /\ idleLeft' \in Nat /\ probeLeft' \in Nat /\ interval' \in Nat /\ idleLeft' <= interval'
      /\ ConfigTicks + interval' + 2 * DrainTicks + NetTicks < Silence
      /\ probeLeft' + 2 * DrainTicks + 2 * NetTicks < Silence
  BY <1>2 DEF Deadlines
<1>7. NodeClock'
  <2>1. Sooner' \in Nat /\ Sooner' <= interval'
    BY <1>6 DEF Sooner
  <2>2. PICK q \in Nat, s \in Nat, i \in Nat :
            q = quiet'["node"] /\ s = Sooner' /\ i = interval'
    BY <1>4, <1>6, <2>1
  <2>3. q <= ConfigTicks /\ s <= i /\ ConfigTicks + i + 2 * DrainTicks + NetTicks < Silence
    BY <1>4, <1>6, <2>1, <2>2
  <2>4. q + (s + 2 * DrainTicks) + NetTicks < Silence
    BY <2>3
  <2>. QED BY <1>5, <2>2, <2>4 DEF NodeClock, ToProbe
<1>8. ClientClock'
  <2>1. PICK p \in Nat : p = probeLeft'
    BY <1>6
  <2>2. p + 2 * DrainTicks + 2 * NetTicks < Silence
    BY <1>6, <2>1
  <2>3. 0 + (p + 2 * DrainTicks) + 2 * NetTicks < Silence
    BY <2>2
  <2>. QED BY <1>4, <1>5, <2>1, <2>3 DEF ClientClock, ToProbe
<1>. QED BY <1>2, <1>3, <1>7, <1>8 DEF Clocks

\* The lock is taken, or waited for.
LEMMA LockStep ==
    ASSUME ClientInv, Serving, SendPacket \/ Probe
    PROVE  Clocks'
<1>. USE Constants DEF ClientInv, Types
<1>1. Deadlines /\ Prompt /\ NodeClock /\ ClientClock
  BY DEF Clocks
<1>2. UNCHANGED <<idleLeft, probeLeft, interval, wire, quiet>>
  BY DEF SendPacket, Probe, timers
<1>3. Deadlines' /\ Sooner' = Sooner
  BY <1>1, <1>2 DEF Deadlines, Sooner
<1>4. /\ lock.age \in Nat /\ lock.age <= DrainTicks /\ Sooner \in Nat /\ probeLeft \in Nat
  BY <1>1 DEF Prompt, Deadlines, Sooner
<1>5. /\ Prompt' /\ ToProbe(Sooner)' <= ToProbe(Sooner)
      /\ ToProbe(probeLeft)' <= ToProbe(probeLeft)
      /\ ToProbe(Sooner)' \in Int /\ ToProbe(probeLeft)' \in Int
      /\ ToProbe(Sooner) \in Int /\ ToProbe(probeLeft) \in Int
  <2>1. CASE SendPacket
    <3>1. lock = Unlocked /\ lock' = [kind |-> "packet", age |-> 0] /\ probing' = probing
      BY <2>1 DEF SendPacket
    <3>2. probing = FALSE
      BY <1>1, <3>1 DEF Prompt, Unlocked
    <3>. QED BY <1>1, <1>2, <1>3, <1>4, <3>1, <3>2 DEF Prompt, ToProbe, Unlocked
  <2>2. CASE Probe /\ lock = Unlocked
    <3>1. lock' = [kind |-> "ping", age |-> 0] /\ probing' = FALSE /\ probing = FALSE
      BY <2>2 DEF Probe, MustProbe
    <3>. QED BY <1>1, <1>2, <1>3, <1>4, <2>2, <3>1 DEF Prompt, ToProbe, Unlocked
  <2>3. CASE Probe /\ lock # Unlocked
    <3>1. lock' = lock /\ probing' = TRUE /\ probing = FALSE /\ lock.kind = "packet"
      BY <1>1, <2>3 DEF Probe, MustProbe, Prompt
    <3>. QED BY <1>1, <1>2, <1>3, <1>4, <3>1 DEF Prompt, ToProbe
  <2>. QED BY <2>1, <2>2, <2>3
<1>6. NodeClock' /\ ClientClock'
  BY <1>1, <1>2, <1>3, <1>5 DEF NodeClock, ClientClock
<1>. QED BY <1>3, <1>5, <1>6 DEF Clocks

\* A frame has been handed over: a packet puts the idle deadline off but is
\* itself on the way, a probe draws both anew.
LEMMA SentStep ==
    ASSUME ClientInv, Serving, Sent
    PROVE  Clocks'
<1>. USE Constants DEF ClientInv, Types
<1>1. Deadlines /\ Prompt /\ NodeClock /\ ClientClock /\ ~hung
  BY DEF Clocks, Serving
<1>2. /\ wire' = Departs(lock.kind, wire) /\ probing' = FALSE /\ quiet' = quiet
      /\ lock' = IF probing THEN [kind |-> "ping", age |-> 0] ELSE Unlocked
      /\ lock.kind \in {"packet", "ping"}
  BY <1>1 DEF Sent, Prompt
<1>3. /\ \A k \in Kinds : \/ wire'[k] = wire[k]
                          \/ k = lock.kind /\ wire[k] = Absent /\ wire'[k] = 0
      /\ wire'[lock.kind] # Absent
  BY <1>1, <1>2, OnItsWay
<1>4. Prompt'
  BY <1>1, <1>2, <1>3 DEF Prompt, Unlocked
<1>5. /\ \A k \in Kinds : wire[k] \in {Absent} \cup 0..NetTicks
      /\ lock.age \in Nat /\ lock.age <= DrainTicks
  BY <1>1 DEF Prompt
<1>6. /\ quiet["node"] \in Nat /\ quiet["client"] \in Nat
      /\ ToProbe(Sooner) \in Nat /\ ToProbe(probeLeft) \in Nat
  BY <1>1, Afresh
<1>7. CASE lock.kind = "ping"
  <2>1. interval' \in IdleTicks /\ idleLeft' = interval' /\ probeLeft' \in ProbeTicks
    BY <1>7 DEF Sent, Redrawn
  <2>2. Deadlines'
    BY <2>1, Drawn
  <2>3. NodeClock'
    BY <1>1, <1>2, <1>3, <1>5, <1>6, <1>7 DEF NodeClock
  <2>4. ClientClock'
    BY <1>1, <1>2, <1>3, <1>5, <1>6, <1>7 DEF ClientClock
  <2>. QED BY <1>4, <2>2, <2>3, <2>4 DEF Clocks
<1>8. CASE lock.kind = "packet"
  <2>1. idleLeft' = interval /\ UNCHANGED <<interval, probeLeft>>
    BY <1>8 DEF Sent
  <2>2. Deadlines'
    BY <1>1, <2>1 DEF Deadlines
  <2>3. NodeClock'
    BY <1>1, <1>2, <1>3, <1>5, <1>6, <1>8 DEF NodeClock
  <2>4. ToProbe(probeLeft)' <= ToProbe(probeLeft) /\ ToProbe(probeLeft)' \in Nat
    <3>1. CASE probing
      BY <1>2, <1>5, <1>8, <3>1 DEF ToProbe
    <3>2. CASE ~probing
      BY <1>1, <1>2, <1>5, <1>8, <2>1, <3>2 DEF ToProbe, Unlocked, Deadlines
    <3>. QED BY <3>1, <3>2
  <2>5. ClientClock'
    BY <1>1, <1>2, <1>3, <1>5, <1>6, <1>8, <2>4 DEF ClientClock
  <2>. QED BY <1>4, <2>2, <2>3, <2>5 DEF Clocks
<1>. QED BY <1>2, <1>7, <1>8

\* An end hears the other.
LEMMA HeardStep ==
    ASSUME ClientInv, Serving, ClientHears \/ \E kind \in Kinds : NodeHears(kind)
    PROVE  Clocks'
<1>. USE Constants DEF ClientInv, Types
<1>1. Deadlines /\ Prompt /\ NodeClock /\ ClientClock /\ ~hung
  BY DEF Clocks, Serving
<1>2. UNCHANGED <<idleLeft, probeLeft, interval, lock, probing>>
  BY DEF ClientHears, NodeHears, timers
<1>3. /\ Deadlines' /\ ToProbe(Sooner)' = ToProbe(Sooner)
      /\ ToProbe(probeLeft)' = ToProbe(probeLeft)
  BY <1>1, <1>2 DEF Deadlines, ToProbe, Sooner
<1>4. /\ ToProbe(Sooner) \in Nat /\ ToProbe(probeLeft) \in Nat
      /\ ToProbe(Sooner) + NetTicks < Silence
      /\ ToProbe(probeLeft) + 2 * NetTicks < Silence
  BY <1>1, Afresh
<1>5. \A k \in Kinds : wire[k] \in {Absent} \cup 0..NetTicks
  BY <1>1 DEF Prompt
<1>6. CASE ClientHears
  <2>1. /\ quiet'["client"] = 0 /\ quiet'["node"] = quiet["node"]
        /\ wire' = [wire EXCEPT !["pong"] = Absent]
    BY <1>6 DEF ClientHears
  <2>2. \A k \in Kinds : wire'[k] = IF k = "pong" THEN Absent ELSE wire[k]
    BY <2>1
  <2>3. Prompt'
    BY <1>1, <1>2, <2>2 DEF Prompt
  <2>4. NodeClock' /\ ClientClock'
    BY <1>1, <1>3, <1>4, <2>1, <2>2 DEF NodeClock, ClientClock
  <2>. QED BY <1>3, <2>3, <2>4 DEF Clocks
<1>7. ASSUME NEW kind \in Kinds, NodeHears(kind) PROVE Clocks'
  <2>. DEFINE taken == [wire EXCEPT ![kind] = Absent]
  <2>1. /\ quiet'["node"] = 0 /\ quiet'["client"] = quiet["client"]
        /\ kind \in {"packet", "ping"}
        /\ wire' = IF kind = "ping" THEN Departs("pong", taken) ELSE taken
    BY <1>7 DEF NodeHears
  <2>2. /\ taken \in [Kinds -> Int]
        /\ \A k \in Kinds : taken[k] = IF k = kind THEN Absent ELSE wire[k]
    OBVIOUS
  <2>. HIDE DEF taken
  <2>3. /\ \A k \in Kinds : wire'[k] = taken[k] \/ (k = "pong" /\ taken[k] = Absent /\ wire'[k] = 0)
        /\ kind = "ping" => wire'["pong"] # Absent
    <3>1. CASE kind = "ping"
      <4>1. wire' = Departs("pong", taken)
        BY <2>1, <3>1
      <4>2. /\ \A k \in Kinds : \/ Departs("pong", taken)[k] = taken[k]
                                \/ k = "pong" /\ taken[k] = Absent /\ Departs("pong", taken)[k] = 0
            /\ Departs("pong", taken)["pong"] # Absent
        BY <1>1, <2>2, OnItsWay
      <4>. QED BY <4>1, <4>2
    <3>2. CASE kind # "ping"
      BY <2>1, <3>2
    <3>. QED BY <3>1, <3>2
  <2>4. Prompt'
    BY <1>1, <1>2, <1>5, <2>2, <2>3 DEF Prompt
  <2>5. NodeClock'
    BY <1>3, <1>4, <2>1 DEF NodeClock
  <2>6. ClientClock'
    <3>1. quiet["client"] \in Nat
      OBVIOUS
    <3>2. CASE kind = "ping"
      <4>1. /\ wire'["pong"] \in Int
            /\ wire'["pong"] = wire["pong"] \/ (wire["pong"] = Absent /\ wire'["pong"] = 0)
        BY <2>1, <2>2, <2>3, <3>2
      <4>2. \/ wire["pong"] # Absent /\ quiet["client"] + NetTicks - wire["pong"] < Silence
            \/ quiet["client"] + NetTicks < Silence
            \/ quiet["client"] + ToProbe(probeLeft) + 2 * NetTicks < Silence
        BY <1>1, <1>5, <3>1 DEF ClientClock
      <4>. QED BY <1>3, <1>4, <1>5, <2>1, <2>3, <3>1, <3>2, <4>1, <4>2 DEF ClientClock
    <3>3. CASE kind = "packet"
      BY <1>1, <1>3, <2>1, <2>2, <2>3, <3>3 DEF ClientClock
    <3>. QED BY <2>1, <3>2, <3>3
  <2>. QED BY <1>3, <2>4, <2>5, <2>6 DEF Clocks
<1>. QED BY <1>6, <1>7

\* A tick takes as much from what is left as it adds to the silence.
LEMMA TickStep ==
    ASSUME ClientInv, Serving, Tick
    PROVE  Clocks'
<1>. USE Constants DEF ClientInv, Types
<1>1. Deadlines /\ Prompt /\ NodeClock /\ ClientClock /\ Running /\ nodeUp /\ ~hung
  BY DEF Clocks, Serving
<1>2. /\ idleLeft' = Down(idleLeft) /\ probeLeft' = Down(probeLeft)
      /\ lock' = IF lock = Unlocked THEN lock ELSE [lock EXCEPT !.age = @ + 1]
      /\ wire' = [k \in Kinds |-> IF wire[k] = Absent THEN Absent ELSE wire[k] + 1]
      /\ UNCHANGED <<interval, probing>>
  BY <1>1 DEF Tick
<1>3. /\ ~MustProbe
      /\ lock # Unlocked => lock.age < DrainTicks
      /\ \A k \in Kinds : wire[k] < NetTicks
  BY <1>1 DEF Tick, Pressing, Prompt
<1>4. \A e \in Ends : quiet'[e] \in Nat /\ quiet[e] \in Nat /\ quiet'[e] <= quiet[e] + 1
  BY DEF Tick
<1>5. Deadlines'
  BY <1>1, <1>2 DEF Deadlines, Down
<1>6. \A k \in Kinds : /\ wire[k] \in {Absent} \cup 0..NetTicks
                       /\ wire'[k] = IF wire[k] = Absent THEN Absent ELSE wire[k] + 1
  BY <1>1, <1>2 DEF Prompt
<1>7. /\ lock'.kind = lock.kind
      /\ lock'.age = IF lock = Unlocked THEN lock.age ELSE lock.age + 1
  BY <1>1, <1>2
<1>8. Prompt'
  <2>1. /\ lock'.kind \in {"none", "packet", "ping"} /\ lock'.age \in 0..DrainTicks
        /\ lock'.kind = "none" => lock' = Unlocked
    BY <1>1, <1>2, <1>3, <1>7 DEF Prompt
  <2>2. \A k \in Kinds : wire'[k] \in {Absent} \cup 0..NetTicks
    BY <1>3, <1>6
  <2>3. probing' => lock'.kind = "packet"
    BY <1>1, <1>2, <1>7 DEF Prompt
  <2>. QED BY <2>1, <2>2, <2>3 DEF Prompt
<1>9. /\ lock.age \in Nat /\ lock.age <= DrainTicks
      /\ idleLeft \in Nat /\ probeLeft \in Nat
  BY <1>1 DEF Prompt, Deadlines
<1>10. /\ ToProbe(Sooner)' = ToProbe(Sooner) - 1 /\ ToProbe(Sooner) \in Nat
       /\ ToProbe(probeLeft)' = ToProbe(probeLeft) - 1 /\ ToProbe(probeLeft) \in Nat
  <2>1. CASE lock.kind = "ping" \/ probing
    <3>1. lock # Unlocked
      BY <1>1, <2>1 DEF Prompt, Unlocked
    <3>2. lock'.age = lock.age + 1 /\ lock.age < DrainTicks
      BY <1>3, <1>7, <3>1
    <3>. QED BY <1>2, <1>7, <1>9, <2>1, <3>2 DEF ToProbe
  <2>2. CASE lock.kind # "ping" /\ ~probing
    <3>1. idleLeft > 0 /\ probeLeft > 0
      BY <1>3, <1>9, <2>2 DEF MustProbe, Due
    <3>2. idleLeft' = idleLeft - 1 /\ probeLeft' = probeLeft - 1
      BY <1>2, <3>1 DEF Down
    <3>3. Sooner' = Sooner - 1 /\ Sooner \in Nat
      BY <1>9, <3>2 DEF Sooner
    <3>. QED BY <1>2, <1>7, <1>9, <2>2, <3>2, <3>3 DEF ToProbe
  <2>. QED BY <2>1, <2>2
<1>11. NodeClock'
  BY <1>1, <1>4, <1>6, <1>10 DEF NodeClock
<1>12. ClientClock'
  BY <1>1, <1>4, <1>6, <1>10 DEF ClientClock
<1>. QED BY <1>5, <1>8, <1>11, <1>12 DEF Clocks

LEMMA ServingStep ==
    ASSUME ClientInv, [ClientNext]_clientVars, Serving'
    PROVE  Clocks'
<1>. USE DEF ClientInv, Types
<1>1. stage' = "running" /\ nodeUp' /\ ~hung'
  BY DEF Serving, Running
<1>2. ~Hang /\ ~NodeEnds /\ ~Cleans
  BY <1>1 DEF Hang, NodeEnds, Cleans, NextEndpoint, Finish
<1>3. \A next : Leaves(next) => stage' = next
  BY DEF Leaves
<1>4. ~AttemptFails /\ ~Cancel /\ ~DrainTimeout /\ ~GivesUp
  BY <1>1, <1>3 DEF AttemptFails, Cancel, DrainTimeout, GivesUp, ClientGivesUp, ClientSeesEnd
<1>5. ~Dialled /\ ~HandshakeDone
  BY <1>1 DEF Dialled, HandshakeDone, NodeAnswers
<1>6. CASE Configured
  <2>1. ~hung /\ nodeUp
    BY <1>6 DEF Configured
  <2>. QED BY <1>6, <2>1, NewSession
<1>7. CASE SendPacket \/ Probe \/ Sent \/ NodeReads \/ ClientHears
  <2>1. Serving
    BY <1>1, <1>7 DEF SendPacket, Probe, Sent, NodeReads, NodeHears, ClientHears, RunningOn,
       Serving
  <2>. QED BY <1>7, <2>1, LockStep, SentStep, HeardStep DEF NodeReads
<1>8. CASE Tick
  <2>1. Serving
    BY <1>1, <1>8 DEF Tick, Serving, Running
  <2>. QED BY <1>8, <2>1, TickStep
<1>9. CASE UNCHANGED clientVars
  <2>1. UNCHANGED <<stage, hung, nodeUp, idleLeft, interval, probeLeft, lock, probing, wire, quiet>>
    BY <1>9 DEF clientVars, timers, traffic
  <2>2. Serving /\ Clocks
    BY <1>1, <2>1 DEF Serving, Running
  <2>3. ToProbe(Sooner)' = ToProbe(Sooner) /\ ToProbe(probeLeft)' = ToProbe(probeLeft)
    BY <2>1 DEF ToProbe, Sooner
  <2>. QED BY <2>1, <2>2, <2>3 DEF Clocks, Deadlines, Prompt, NodeClock, ClientClock
<1>. QED BY <1>2, <1>4, <1>5, <1>6, <1>7, <1>8, <1>9 DEF ClientNext, Attempts, Drains

-----------------------------------------------------------------------------
(* Theorems.                                                               *)

\* On a working network neither end falls silent for as long as the other
\* waits, whatever is uploaded and whenever the probe finds the lock taken, if
\* the intervals of the heartbeat leave room for two drains and the way there
\* and back.  (Heartbeat in sever/heartbeat.py, send() in sever/client.py,
\* read_frame's limit.)
THEOREM NeverSilent == ClientSpec => []HeardInTime
<1>1. ClientInv /\ [ClientNext]_clientVars => ClientInv'
  BY Typed, ConfigStep, ServingStep DEF ClientInv
<1>2. ClientInv => HeardInTime
  <2>. SUFFICES ASSUME ClientInv, Serving PROVE \A e \in Ends : quiet[e] < Silence
    BY DEF HeardInTime, Serving
  <2>1. Deadlines /\ Prompt /\ NodeClock /\ ClientClock
    BY DEF ClientInv, Clocks
  <2>2. /\ ToProbe(Sooner) \in Nat /\ ToProbe(probeLeft) \in Nat
        /\ \A k \in Kinds : wire[k] \in {Absent} \cup 0..NetTicks
        /\ quiet["node"] \in Nat /\ quiet["client"] \in Nat
    BY <2>1, Afresh, Constants DEF ClientInv, Types, Prompt
  <2>3. quiet["node"] < Silence
    BY <2>1, <2>2, Constants DEF NodeClock
  <2>4. quiet["client"] < Silence
    BY <2>1, <2>2, Constants DEF ClientClock
  <2>. QED BY <2>3, <2>4 DEF Ends
<1>. QED BY <1>1, <1>2, ClientInitInv, PTL DEF ClientSpec
=============================================================================
