------------------------ MODULE WebSocketProtocolProofs ------------------------
(***************************************************************************)
(* Proofs about WebSocketProtocol, for every stream of a peer and however  *)
(* its bytes are cut into pieces.                                          *)
(***************************************************************************)
EXTENDS WebSocketProtocol, SequenceTheorems, WellFoundedInduction, TLAPS

-----------------------------------------------------------------------------
(* Induction over the natural numbers.                                     *)

(* A set of numbers that has a member has a least one.                     *)
LEMMA Least ==
    ASSUME NEW T \in SUBSET Nat, T # {}
    PROVE  \E m \in T : \A k \in T : ~(k < m)
<1>1. IsWellFoundedOn(OpToRel(<, Nat), Nat)
  BY NatLessThanWellFounded
<1>2. \E m \in T : \A k \in T : ~(<<k, m>> \in OpToRel(<, Nat))
  BY <1>1, WFMin
<1>3. \A k, m \in Nat : k < m => <<k, m>> \in OpToRel(<, Nat)
  BY DEF OpToRel
<1> QED
  BY <1>2, <1>3

(* A set with 0 and the successors of its members has every number.        *)
LEMMA Induct ==
    ASSUME NEW S \in SUBSET Nat, 0 \in S, \A n \in S : n + 1 \in S
    PROVE  S = Nat
<1> SUFFICES ASSUME Nat \ S # {} PROVE FALSE
  OBVIOUS
<1>1. PICK m \in Nat \ S : \A k \in Nat \ S : ~(k < m)
  BY Least
<1>2. m - 1 \in Nat /\ m - 1 < m
  OBVIOUS
<1>3. m - 1 \in S
  BY <1>1, <1>2
<1>4. m - 1 + 1 \in S
  BY <1>3
<1> QED
  BY <1>4

(* A set with 0 and the successors of its members below n has all to n.    *)
LEMMA InductTo ==
    ASSUME NEW n \in Nat, NEW S \in SUBSET Nat, 0 \in S,
           \A i \in S : i < n => i + 1 \in S
    PROVE  \A i \in 0..n : i \in S
<1> DEFINE T == S \union {i \in Nat : i > n}
<1>1. 0 \in T
  OBVIOUS
<1>2. \A i \in T : i + 1 \in T
  OBVIOUS
<1>3. T = Nat
  <2> HIDE DEF T
  <2>1. T \in SUBSET Nat
    BY DEF T
  <2> QED
    BY <1>1, <1>2, <2>1, Induct
<1> QED
  BY <1>3

-----------------------------------------------------------------------------
(* The wire.                                                               *)

(* The successive concatenations that FlattenSeq makes.                    *)
IsFlat(f, seqs, n) == f = [i \in 1..n |-> IF i = 1 THEN seqs[i] ELSE f[i - 1] \o seqs[i]]

(* FlattenSeq is the last of them.                                         *)
LEMMA FlattenIs ==
    ASSUME NEW seqs, Len(seqs) \in Nat \ {0}
    PROVE  \E f : IsFlat(f, seqs, Len(seqs)) /\ FlattenSeq(seqs) = f[Len(seqs)]
<1> DEFINE S == {n \in Nat : \E f : IsFlat(f, seqs, n)}
<1>1. 0 \in S
  <2> DEFINE f == [i \in 1..0 |-> <<>>]
  <2>1. f = [i \in 1..0 |-> IF i = 1 THEN seqs[i] ELSE f[i - 1] \o seqs[i]]
    OBVIOUS
  <2> HIDE DEF f
  <2> QED
    BY <2>1 DEF IsFlat
<1>2. ASSUME NEW n \in S PROVE n + 1 \in S
  <2>1. PICK f : IsFlat(f, seqs, n)
    OBVIOUS
  <2> DEFINE g == [i \in 1..(n + 1) |-> IF i <= n THEN f[i]
                                        ELSE IF i = 1 THEN seqs[i] ELSE f[n] \o seqs[i]]
  <2>2. \A i \in 1..n : f[i] = IF i = 1 THEN seqs[i] ELSE f[i - 1] \o seqs[i]
    BY <2>1 DEF IsFlat
  <2>3. \A i \in 1..n : g[i] = f[i]
    OBVIOUS
  <2>4. ASSUME NEW i \in 1..(n + 1)
        PROVE  g[i] = IF i = 1 THEN seqs[i] ELSE g[i - 1] \o seqs[i]
    <3>1. CASE i <= n
      <4>1. g[i] = f[i] /\ (i # 1 => g[i - 1] = f[i - 1])
        BY <2>3, <3>1
      <4> HIDE DEF g
      <4> QED
        BY <2>2, <3>1, <4>1
    <3>2. CASE i = n + 1
      <4>1. g[i] = IF i = 1 THEN seqs[i] ELSE f[n] \o seqs[i]
        BY <3>2
      <4>2. i # 1 => i - 1 = n /\ g[i - 1] = f[n]
        BY <2>3, <3>2
      <4> HIDE DEF g
      <4> QED
        BY <4>1, <4>2
    <3> QED
      BY <3>1, <3>2
  <2>5. IsFlat(g, seqs, n + 1)
    <3>1. g = [i \in 1..(n + 1) |-> g[i]]
      OBVIOUS
    <3> HIDE DEF g
    <3> QED
      BY <2>4, <3>1 DEF IsFlat
  <2> HIDE DEF g
  <2> QED
    BY <2>5
<1> HIDE DEF S
<1>3. Len(seqs) \in S
  <2>1. S = Nat
    BY <1>1, <1>2, Induct DEF S
  <2> QED
    BY <2>1
<1>4. \E f : IsFlat(f, seqs, Len(seqs))
  BY <1>3 DEF S
<1> DEFINE h == CHOOSE f : IsFlat(f, seqs, Len(seqs))
<1>5. IsFlat(h, seqs, Len(seqs))
  BY <1>4
<1>6. FlattenSeq(seqs) = h[Len(seqs)]
  BY DEF FlattenSeq, IsFlat
<1> QED
  BY <1>5, <1>6

(* The bytes of the first k frames, for each k.                            *)
Places(fs) == [frame : 1..Len(fs), at : Nat]
Fields(fs, g) ==
    /\ g \in [0..Len(fs) -> Seq(Places(fs))]
    /\ g[0] = <<>>
    /\ \A k \in 0..(Len(fs) - 1) : g[k + 1] = g[k] \o Wire(fs, k + 1)
    /\ g[Len(fs)] = WholeWire(fs)

(* The length of a frame is a number, and its bytes are as many.           *)
LEMMA WireType ==
    ASSUME NEW fs \in Seq(Frames), NEW n \in 1..Len(fs)
    PROVE  /\ fs[n] \in Frames
           /\ HeaderSize[fs[n].size] \in Nat \ {0} /\ Len(fs[n].payload) \in Nat
           /\ WireLength(fs[n]) \in Nat \ {0}
           /\ Wire(fs, n) \in Seq(Places(fs)) /\ Len(Wire(fs, n)) = WireLength(fs[n])
           /\ \A i \in 1..WireLength(fs[n]) : Wire(fs, n)[i] = [frame |-> n, at |-> i]
<1>1. fs[n] \in Frames
  OBVIOUS
<1>2. fs[n].size \in Sizes /\ fs[n].payload \in Seq(Byte)
  BY <1>1 DEF Frames
<1>3. HeaderSize[fs[n].size] \in Nat \ {0} /\ Len(fs[n].payload) \in Nat
  BY <1>2, SizeAssumption
<1>4. WireLength(fs[n]) \in Nat \ {0}
  BY <1>3 DEF WireLength
<1> DEFINE w == WireLength(fs[n])
<1>5. /\ [i \in 1..w |-> [frame |-> n, at |-> i]] \in Seq(Places(fs))
      /\ Len([i \in 1..w |-> [frame |-> n, at |-> i]]) = w
  <2> HIDE DEF w
  <2>1. w \in Nat /\ n \in Nat
    BY <1>4 DEF w
  <2> QED
    BY <2>1 DEF Places
<1> QED
  BY <1>1, <1>3, <1>4, <1>5 DEF Wire

(* The whole wire is the frames behind one another.                        *)
LEMMA FieldsExist ==
    ASSUME NEW fs \in Seq(Frames)
    PROVE  \E g : Fields(fs, g)
<1> DEFINE N == Len(fs)
           seqs == [n \in DOMAIN fs |-> Wire(fs, n)]
<1>1. N \in Nat /\ DOMAIN fs = 1..N
  BY LenProperties
<1>2. \A n \in 1..N : Wire(fs, n) \in Seq(Places(fs))
  BY WireType
<1>3. seqs \in Seq(Seq(Places(fs))) /\ Len(seqs) = N /\ \A n \in 1..N : seqs[n] = Wire(fs, n)
  <2> DEFINE q == [n \in 1..N |-> Wire(fs, n)]
  <2>1. seqs = q
    BY <1>1
  <2>2. q \in Seq(Seq(Places(fs))) /\ Len(q) = N /\ \A n \in 1..N : q[n] = Wire(fs, n)
    <3> HIDE DEF N
    <3> QED
      BY <1>1, <1>2
  <2> QED
    BY <2>1, <2>2
<1>4. WholeWire(fs) = FlattenSeq(seqs)
  BY DEF WholeWire
<1> HIDE DEF seqs
<1>5. CASE N = 0
  <2>1. seqs = <<>>
    BY <1>3, <1>5
  <2>2. WholeWire(fs) = <<>>
    BY <1>4, <2>1 DEF FlattenSeq
  <2> DEFINE g == [k \in 0..N |-> <<>>]
  <2>3. g \in [0..N -> Seq(Places(fs))] /\ g[0] = <<>> /\ g[N] = <<>>
    BY <1>5
  <2> HIDE DEF g
  <2>4. Fields(fs, g)
    BY <1>5, <2>2, <2>3 DEF Fields
  <2> QED
    BY <2>4
<1>6. CASE N # 0
  <2>1. PICK f : IsFlat(f, seqs, N) /\ FlattenSeq(seqs) = f[N]
    BY <1>1, <1>3, <1>6, FlattenIs
  <2>2. \A i \in 1..N : f[i] = IF i = 1 THEN seqs[i] ELSE f[i - 1] \o seqs[i]
    BY <2>1 DEF IsFlat
  <2> DEFINE g == [k \in 0..N |-> IF k = 0 THEN <<>> ELSE f[k]]
  <2> HIDE DEF N
  <2>3. g[0] = <<>> /\ (\A i \in 1..N : g[i] = f[i]) /\ g[N] = f[N]
    BY <1>1, <1>6
  <2>4. g = [k \in 0..N |-> g[k]]
    OBVIOUS
  <2> HIDE DEF g
  <2>5. \A k \in 0..(N - 1) : g[k] \in Seq(Places(fs)) => g[k + 1] = g[k] \o Wire(fs, k + 1)
    <3> SUFFICES ASSUME NEW k \in 0..(N - 1), g[k] \in Seq(Places(fs))
                 PROVE  g[k + 1] = g[k] \o Wire(fs, k + 1)
      OBVIOUS
    <3>1. k + 1 \in 1..N /\ g[k + 1] = f[k + 1] /\ seqs[k + 1] = Wire(fs, k + 1)
      BY <1>1, <1>3, <2>3
    <3>2. CASE k = 0
      <4>1. g[k + 1] = Wire(fs, k + 1)
        BY <2>2, <3>1, <3>2
      <4>2. Wire(fs, k + 1) \in Seq(Places(fs))
        BY <1>2, <3>1
      <4>3. <<>> \o Wire(fs, k + 1) = Wire(fs, k + 1)
        BY <4>2, ConcatEmptySeq
      <4>4. g[k] = <<>>
        BY <2>3, <3>2
      <4> QED
        BY <4>1, <4>3, <4>4
    <3>3. CASE k # 0
      <4>1. g[k] = f[k] /\ k + 1 # 1 /\ k + 1 - 1 = k
        BY <1>1, <2>3, <3>3
      <4> DEFINE j == k + 1
      <4>2. j \in 1..N /\ j # 1
        BY <3>1, <4>1
      <4> HIDE DEF j
      <4>3. f[j] = IF j = 1 THEN seqs[j] ELSE f[j - 1] \o seqs[j]
        BY <2>2, <4>2, Zenon
      <4>4. f[j] = f[j - 1] \o seqs[j]
        BY <4>2, <4>3, Zenon
      <4>5. j - 1 = k
        BY <4>1 DEF j
      <4>6. f[j] = f[k] \o seqs[j]
        BY <4>4, <4>5, Zenon
      <4> QED
        BY <3>1, <4>1, <4>6 DEF j
    <3> QED
      BY <3>2, <3>3
  <2> DEFINE S == {k \in Nat : k \in 0..N => g[k] \in Seq(Places(fs))}
  <2>6. \A k \in 0..N : k \in S
    <3>1. 0 \in S
      BY <2>3, EmptySeq
    <3>2. \A k \in S : k < N => k + 1 \in S
      <4> SUFFICES ASSUME NEW k \in S, k < N PROVE g[k + 1] \in Seq(Places(fs))
        OBVIOUS
      <4>1. k \in 0..(N - 1) /\ g[k] \in Seq(Places(fs)) /\ k + 1 \in 1..N
        BY <1>1
      <4> HIDE DEF S
      <4>2. g[k + 1] = g[k] \o Wire(fs, k + 1) /\ Wire(fs, k + 1) \in Seq(Places(fs))
        BY <1>2, <2>5, <4>1
      <4> QED
        BY <4>1, <4>2, ConcatProperties
    <3> HIDE DEF S
    <3>3. S \in SUBSET Nat
      BY DEF S
    <3> QED
      BY <1>1, <3>1, <3>2, <3>3, InductTo
  <2>7. g \in [0..N -> Seq(Places(fs))]
    BY <2>4, <2>6
  <2>8. Fields(fs, g)
    BY <1>1, <1>4, <2>1, <2>3, <2>5, <2>7 DEF Fields, N
  <2> QED
    BY <2>8
<1> QED
  BY <1>5, <1>6

Field(fs) == CHOOSE g : Fields(fs, g)

(* Where frame k + 1 begins: behind that many bytes.                       *)
Off(fs, k) == Len(Field(fs)[k])

(* Each of the fields begins with the earlier ones.                        *)
Begins(x, y) == Len(x) <= Len(y) /\ \A i \in 1..Len(x) : y[i] = x[i]

(* A field built up to a later frame begins with what it was before.       *)
LEMMA FieldsGrow ==
    ASSUME NEW fs \in Seq(Frames), NEW g, Fields(fs, g),
           NEW n \in 0..Len(fs), NEW k \in 0..n
    PROVE  Begins(g[k], g[n])
<1> DEFINE N == Len(fs)
           S == {b \in Nat : b \in 0..N => \A a \in 0..b : Begins(g[a], g[b])}
<1>1. N \in Nat
  BY LenProperties
<1> HIDE DEF N
<1>2. \A a \in 0..N : g[a] \in Seq(Places(fs)) /\ Len(g[a]) \in Nat
  BY LenProperties DEF Fields, N
<1>3. 0 \in S
  BY <1>1, <1>2 DEF Begins
<1>4. ASSUME NEW b \in S, b < N PROVE b + 1 \in S
  <2>1. b \in 0..N /\ b + 1 \in 0..N /\ b \in 0..(N - 1)
    BY <1>1, <1>4
  <2>2. \A a \in 0..b : Begins(g[a], g[b])
    BY <2>1
  <2> HIDE DEF S
  <2>3. g[b + 1] = g[b] \o Wire(fs, b + 1) /\ Wire(fs, b + 1) \in Seq(Places(fs))
    <3>1. b + 1 \in 1..Len(fs)
      BY <2>1 DEF N
    <3> QED
      BY <2>1, <3>1, WireType DEF Fields, N
  <2>4. /\ Len(Wire(fs, b + 1)) \in Nat
        /\ Len(g[b + 1]) = Len(g[b]) + Len(Wire(fs, b + 1))
        /\ \A i \in 1..Len(g[b]) : g[b + 1][i] = g[b][i]
    <3> DEFINE x == g[b]
               y == Wire(fs, b + 1)
    <3>1. x \in Seq(Places(fs)) /\ y \in Seq(Places(fs))
      BY <1>2, <2>1, <2>3
    <3> HIDE DEF x, y
    <3>2. /\ Len(y) \in Nat /\ Len(x) \in Nat /\ Len(x \o y) = Len(x) + Len(y)
          /\ \A i \in 1..Len(x) : (x \o y)[i] = x[i]
      BY <3>1
    <3> QED
      BY <2>3, <3>2 DEF x, y
  <2>5. Begins(g[b], g[b + 1])
    <3>1. Len(g[b]) \in Nat
      BY <1>2, <2>1
    <3> DEFINE p == Len(g[b])
               q == Len(Wire(fs, b + 1))
               r == Len(g[b + 1])
    <3>2. p \in Nat /\ q \in Nat /\ r = p + q
      BY <2>4, <3>1
    <3> HIDE DEF p, q, r
    <3>3. p <= r
      BY <3>2
    <3> QED
      BY <2>4, <3>3 DEF Begins, p, r
  <2>6. ASSUME NEW a \in 0..b PROVE Begins(g[a], g[b + 1])
    <3>1. Begins(g[a], g[b]) /\ a \in 0..N
      <4>1. a \in 0..N
        BY <1>1, <2>1
      <4>2. Begins(g[a], g[b])
        BY <2>2, Zenon
      <4> QED
        BY <4>1, <4>2
    <3>2. Len(g[a]) \in Nat /\ Len(g[b]) \in Nat /\ Len(g[b + 1]) \in Nat
      BY <1>2, <2>1, <3>1
    <3> DEFINE x == g[a]
               y == g[b]
               z == g[b + 1]
    <3>3. Len(x) \in Nat /\ Len(y) \in Nat /\ Len(z) \in Nat /\ Begins(x, y) /\ Begins(y, z)
      BY <2>5, <3>1, <3>2
    <3> HIDE DEF x, y, z
    <3>4. Begins(x, z)
      BY <3>3 DEF Begins
    <3> QED
      BY <3>4 DEF x, z
  <2>7. Begins(g[b + 1], g[b + 1])
    BY <1>2, <2>1 DEF Begins
  <2>8. \A a \in 0..(b + 1) : a \in 0..b \/ a = b + 1
    BY <2>1
  <2> QED
    <3>1. \A a \in 0..(b + 1) : Begins(g[a], g[b + 1])
      BY <2>6, <2>7, <2>8
    <3>2. b + 1 \in Nat
      BY <2>1
    <3> QED
      BY <3>1, <3>2 DEF S
<1>5. S \in SUBSET Nat
  OBVIOUS
<1>6. n \in S
  <2>1. n \in 0..N
    BY DEF N
  <2> HIDE DEF S
  <2> QED
    BY <1>1, <1>3, <1>4, <1>5, <2>1, InductTo
<1> QED
  BY <1>6 DEF N

(* Where each byte of the wire is.                                         *)
LEMMA WirePlaces ==
    ASSUME NEW fs \in Seq(Frames)
    PROVE  /\ WholeWire(fs) \in Seq(Places(fs))
           /\ Off(fs, 0) = 0 /\ Off(fs, Len(fs)) = Len(WholeWire(fs))
           /\ \A k \in 0..Len(fs) : Off(fs, k) \in Nat /\ Off(fs, k) <= Len(WholeWire(fs))
           /\ \A k \in 0..(Len(fs) - 1) :
                 /\ Off(fs, k + 1) = Off(fs, k) + WireLength(fs[k + 1])
                 /\ \A i \in 1..WireLength(fs[k + 1]) :
                       WholeWire(fs)[Off(fs, k) + i] = [frame |-> k + 1, at |-> i]
<1> DEFINE N == Len(fs)
           g == Field(fs)
<1>1. N \in Nat
  BY LenProperties
<1>2. Fields(fs, g)
  BY FieldsExist DEF Field
<1> HIDE DEF g
<1>3. \A k \in 0..N : g[k] \in Seq(Places(fs)) /\ Len(g[k]) \in Nat /\ Off(fs, k) = Len(g[k])
  BY <1>2, LenProperties DEF Fields, Off, g
<1>4. g[0] = <<>> /\ g[N] = WholeWire(fs) /\ 0 \in 0..N /\ N \in 0..N
  BY <1>1, <1>2 DEF Fields
<1>5. \A k \in 0..N : Off(fs, k) <= Len(WholeWire(fs))
  BY <1>1, <1>2, <1>3, <1>4, FieldsGrow DEF Begins
<1>6. ASSUME NEW k \in 0..(N - 1)
      PROVE  /\ Off(fs, k + 1) = Off(fs, k) + WireLength(fs[k + 1])
             /\ \A i \in 1..WireLength(fs[k + 1]) :
                   WholeWire(fs)[Off(fs, k) + i] = [frame |-> k + 1, at |-> i]
  <2> DEFINE x == g[k]
             y == Wire(fs, k + 1)
             w == WireLength(fs[k + 1])
  <2>1. k \in 0..N /\ k + 1 \in 0..N /\ k + 1 \in 1..N
    BY <1>1
  <2>2. /\ y \in Seq(Places(fs)) /\ Len(y) = w /\ w \in Nat
        /\ \A i \in 1..w : y[i] = [frame |-> k + 1, at |-> i]
    BY <2>1, WireType
  <2>3. x \in Seq(Places(fs)) /\ g[k + 1] = x \o y
    BY <1>2, <1>3, <2>1 DEF Fields
  <2>4. \A i \in 1..Len(g[k + 1]) : WholeWire(fs)[i] = g[k + 1][i]
    BY <1>2, <1>4, <2>1, FieldsGrow DEF Begins
  <2>5. Off(fs, k) = Len(x) /\ Off(fs, k + 1) = Len(x \o y)
    BY <1>3, <2>1, <2>3
  <2> HIDE DEF x, y, w
  <2>6. /\ Len(x \o y) = Len(x) + w /\ Len(x) \in Nat
        /\ \A i \in 1..w : (x \o y)[Len(x) + i] = y[i]
    <3>1. Len(x) \in Nat /\ w \in Nat
      BY <2>2, <2>3, LenProperties
    <3>2. /\ Len(x \o y) = Len(x) + w
          /\ \A i \in 1..(Len(x) + w) :
                (x \o y)[i] = IF i <= Len(x) THEN x[i] ELSE y[i - Len(x)]
      BY <2>2, <2>3, ConcatProperties
    <3>3. ASSUME NEW i \in 1..w PROVE (x \o y)[Len(x) + i] = y[i]
      <4>1. Len(x) + i \in 1..(Len(x) + w) /\ ~(Len(x) + i <= Len(x)) /\ Len(x) + i - Len(x) = i
        BY <3>1
      <4> QED
        BY <3>2, <4>1
    <3> QED
      BY <3>1, <3>2, <3>3
  <2>7. ASSUME NEW i \in 1..w
        PROVE  WholeWire(fs)[Off(fs, k) + i] = [frame |-> k + 1, at |-> i]
    <3>1. Len(x) + i \in 1..Len(g[k + 1])
      BY <2>2, <2>3, <2>6
    <3>2. WholeWire(fs)[Len(x) + i] = (x \o y)[Len(x) + i]
      BY <2>3, <2>4, <3>1
    <3> QED
      BY <2>2, <2>5, <2>6, <3>2
  <2> QED
    BY <2>5, <2>6, <2>7 DEF w
<1>7. WholeWire(fs) \in Seq(Places(fs)) /\ Off(fs, 0) = 0 /\ Off(fs, N) = Len(WholeWire(fs))
  BY <1>3, <1>4, EmptySeq
<1> QED
  BY <1>3, <1>5, <1>6, <1>7

-----------------------------------------------------------------------------
(* What the recursive functions of the model compute.                      *)

IsMeanings(f, fs, n) ==
    f = [i \in 0..n |-> IF i = 0 THEN NothingYet ELSE Meant(f[i - 1], fs[i])]

(* What n + 1 frames mean is what the last of them adds to the others.     *)
LEMMA MeaningsAre ==
    ASSUME NEW fs, Len(fs) \in Nat
    PROVE  /\ Meanings(fs)[0] = NothingYet
           /\ \A k \in 0..(Len(fs) - 1) :
                 Meanings(fs)[k + 1] = Meant(Meanings(fs)[k], fs[k + 1])
<1> DEFINE N == Len(fs)
           S == {n \in Nat : \E f : IsMeanings(f, fs, n)}
<1>1. 0 \in S
  <2> DEFINE f == [i \in 0..0 |-> NothingYet]
  <2>1. f = [i \in 0..0 |-> IF i = 0 THEN NothingYet ELSE Meant(f[i - 1], fs[i])]
    OBVIOUS
  <2> HIDE DEF f
  <2> QED
    BY <2>1 DEF IsMeanings
<1>2. ASSUME NEW n \in S PROVE n + 1 \in S
  <2>1. PICK f : IsMeanings(f, fs, n)
    OBVIOUS
  <2>2. n \in Nat
    OBVIOUS
  <2> HIDE DEF S
  <2> DEFINE g == [i \in 0..(n + 1) |-> IF i <= n THEN f[i] ELSE Meant(f[n], fs[i])]
  <2>3. \A i \in 0..n : f[i] = IF i = 0 THEN NothingYet ELSE Meant(f[i - 1], fs[i])
    BY <2>1 DEF IsMeanings
  <2>4. \A i \in 0..n : g[i] = f[i]
    BY <2>2
  <2>5. ASSUME NEW i \in 0..(n + 1)
        PROVE  g[i] = IF i = 0 THEN NothingYet ELSE Meant(g[i - 1], fs[i])
    <3>1. CASE i <= n
      <4>1. i \in 0..n /\ g[i] = f[i] /\ (i # 0 => g[i - 1] = f[i - 1])
        BY <2>2, <2>4, <3>1
      <4> HIDE DEF g
      <4>2. f[i] = IF i = 0 THEN NothingYet ELSE Meant(f[i - 1], fs[i])
        BY <2>3, <4>1
      <4> QED
        BY <4>1, <4>2
    <3>2. CASE i = n + 1
      <4>1. g[i] = Meant(f[n], fs[i]) /\ i # 0
        BY <2>2, <3>2
      <4>2. i - 1 = n /\ n \in 0..n
        BY <2>2, <3>2
      <4>3. g[n] = f[n]
        BY <2>4, <4>2
      <4> HIDE DEF g
      <4> QED
        BY <4>1, <4>2, <4>3
    <3> QED
      BY <2>2, <3>1, <3>2
  <2>6. IsMeanings(g, fs, n + 1)
    <3>1. g = [i \in 0..(n + 1) |-> g[i]]
      OBVIOUS
    <3> HIDE DEF g
    <3> QED
      BY <2>5, <3>1 DEF IsMeanings
  <2> HIDE DEF g
  <2> QED
    BY <2>2, <2>6 DEF S
<1>3. \E f : IsMeanings(f, fs, N)
  <2> HIDE DEF S, N
  <2>1. S = Nat
    BY <1>1, <1>2, Induct DEF S
  <2> QED
    BY <2>1 DEF S, N
<1> DEFINE h == CHOOSE f : IsMeanings(f, fs, N)
<1>4. IsMeanings(h, fs, N)
  BY <1>3
<1>5. Meanings(fs) = h
  BY DEF Meanings, IsMeanings
<1> HIDE DEF h
<1>6. \A i \in 0..N : h[i] = IF i = 0 THEN NothingYet ELSE Meant(h[i - 1], fs[i])
  BY <1>4 DEF IsMeanings
<1>7. h[0] = NothingYet
  BY <1>6
<1>8. ASSUME NEW k \in 0..(N - 1) PROVE h[k + 1] = Meant(h[k], fs[k + 1])
  <2>1. k + 1 \in 0..N /\ k + 1 # 0 /\ k + 1 - 1 = k
    OBVIOUS
  <2> DEFINE j == k + 1
  <2> HIDE DEF j
  <2>2. h[j] = IF j = 0 THEN NothingYet ELSE Meant(h[j - 1], fs[j])
    BY <1>6, <2>1 DEF j
  <2>3. j # 0 /\ j - 1 = k
    BY <2>1 DEF j
  <2>4. h[j] = Meant(h[k], fs[j])
    BY <2>2, <2>3
  <2> QED
    BY <2>4 DEF j
<1> QED
  BY <1>5, <1>7, <1>8

IsLoop(f, n) ==
    f = [taken \in 0..n |->
            IF n - taken < InflateBuffer THEN taken
            ELSE IF taken + InflateBuffer > MaxPayload THEN taken + InflateBuffer
            ELSE f[taken + InflateBuffer]]

(* There is a function that the loop of inflate computes.                  *)
LEMMA LoopExists ==
    ASSUME NEW n \in Nat
    PROVE  \E f : IsLoop(f, n)
<1> DEFINE Body(f, t) == IF n - t < InflateBuffer THEN t
                         ELSE IF t + InflateBuffer > MaxPayload THEN t + InflateBuffer
                         ELSE f[t + InflateBuffer]
           Sound(f, m) == \A t \in 0..n : n - t <= m => f[t] = Body(f, t)
           S == {m \in Nat : \E f : f = [t \in 0..n |-> f[t]] /\ Sound(f, m)}
<1>1. InflateBuffer \in Nat \ {0}
  BY SizeAssumption
<1>2. 0 \in S
  <2> DEFINE f == [t \in 0..n |-> t]
  <2>1. f = [t \in 0..n |-> f[t]] /\ Sound(f, 0)
    BY <1>1
  <2> HIDE DEF f
  <2> QED
    BY <2>1
<1>3. ASSUME NEW m \in S PROVE m + 1 \in S
  <2>1. PICK f : f = [t \in 0..n |-> f[t]] /\ Sound(f, m)
    OBVIOUS
  <2>2. m \in Nat
    OBVIOUS
  <2> HIDE DEF S
  <2> DEFINE g == [t \in 0..n |-> IF n - t <= m THEN f[t] ELSE Body(f, t)]
  <2>3. \A t \in 0..n : n - t <= m => g[t] = f[t]
    OBVIOUS
  <2>4. ASSUME NEW t \in 0..n, n - t <= m + 1 PROVE g[t] = Body(g, t)
    <3>1. g[t] = Body(f, t)
      BY <2>1
    <3>2. ASSUME ~(n - t < InflateBuffer)
          PROVE  g[t + InflateBuffer] = f[t + InflateBuffer]
      <4>1. t + InflateBuffer \in 0..n /\ n - (t + InflateBuffer) <= m
        BY <1>1, <2>2, <2>4, <3>2
      <4> HIDE DEF g
      <4> QED
        BY <2>3, <4>1
    <3> HIDE DEF g
    <3> QED
      BY <3>1, <3>2
  <2>5. g = [t \in 0..n |-> g[t]]
    OBVIOUS
  <2> HIDE DEF g
  <2>6. Sound(g, m + 1)
    BY <2>4
  <2> HIDE DEF Sound
  <2>7. \E h : h = [t \in 0..n |-> h[t]] /\ Sound(h, m + 1)
    BY <2>5, <2>6
  <2>8. m + 1 \in Nat
    BY <2>2
  <2> QED
    BY <2>7, <2>8 DEF S
<1>4. n \in S
  <2> HIDE DEF S
  <2>1. S \in SUBSET Nat
    BY DEF S
  <2>2. S = Nat
    BY <1>2, <1>3, <2>1, Induct
  <2> QED
    BY <2>2
<1>5. PICK f : f = [t \in 0..n |-> f[t]] /\ Sound(f, n)
  BY <1>4
<1>6. \A t \in 0..n : f[t] = Body(f, t)
  BY <1>5
<1> QED
  BY <1>5, <1>6 DEF IsLoop

(* The loop takes no more than there is.                                   *)
LEMMA LoopTakes ==
    ASSUME NEW n \in Nat
    PROVE  InflateLoop(n) \in 0..n
<1> DEFINE h == CHOOSE f : IsLoop(f, n)
           S == {m \in Nat : \A t \in 0..n : n - t <= m => h[t] \in 0..n}
<1>1. IsLoop(h, n)
  BY LoopExists
<1>2. InflateLoop(n) = h[0]
  BY DEF InflateLoop, IsLoop
<1> HIDE DEF h
<1>3. InflateBuffer \in Nat \ {0}
  BY SizeAssumption
<1>4. \A t \in 0..n : h[t] = IF n - t < InflateBuffer THEN t
                             ELSE IF t + InflateBuffer > MaxPayload THEN t + InflateBuffer
                             ELSE h[t + InflateBuffer]
  BY <1>1 DEF IsLoop
<1>5. 0 \in S
  BY <1>3, <1>4
<1>6. ASSUME NEW m \in S PROVE m + 1 \in S
  <2>1. m \in Nat /\ \A t \in 0..n : n - t <= m => h[t] \in 0..n
    OBVIOUS
  <2> HIDE DEF S
  <2>2. ASSUME NEW t \in 0..n, n - t <= m + 1 PROVE h[t] \in 0..n
    <3>1. ASSUME ~(n - t < InflateBuffer)
          PROVE  t + InflateBuffer \in 0..n /\ h[t + InflateBuffer] \in 0..n
      <4>1. t + InflateBuffer \in 0..n /\ n - (t + InflateBuffer) <= m
        BY <1>3, <2>1, <2>2, <3>1
      <4> QED
        BY <2>1, <4>1
    <3> QED
      BY <1>4, <3>1
  <2>3. m + 1 \in Nat
    BY <2>1
  <2>4. \A t \in 0..n : n - t <= m + 1 => h[t] \in 0..n
    BY <2>2
  <2> QED
    BY <2>3, <2>4 DEF S
<1>7. n \in S
  <2> HIDE DEF S
  <2>1. S \in SUBSET Nat
    BY DEF S
  <2>2. S = Nat
    BY <1>5, <1>6, <2>1, Induct
  <2> QED
    BY <2>2
<1> QED
  BY <1>2, <1>7

-----------------------------------------------------------------------------
(* isValidUtf8 against the automaton.                                      *)

(* u runs the automaton on s.                                              *)
Automaton == [ok : BOOLEAN, need : 0..3, lo : Nat, hi : Nat]
Runs(u, s) ==
    /\ \A k \in 0..Len(s) : u[k] \in Automaton
    /\ u[0] = Utf8Start
    /\ \A k \in 0..(Len(s) - 1) : u[k + 1] = Utf8Step(u[k], s[k + 1])
Accepts(u, s) == u[Len(s)].ok /\ u[Len(s)].need = 0

IsRun(u, s, n) == u = [i \in 0..n |-> IF i = 0 THEN Utf8Start ELSE Utf8Step(u[i - 1], s[i])]

(* A step of the automaton leads to one of its states.                     *)
LEMMA StepType ==
    ASSUME NEW r \in Automaton, NEW b
    PROVE  Utf8Step(r, b) \in Automaton
<1> DEFINE next == [r EXCEPT !.need = @ - 1, !.lo = 128, !.hi = 191]
           fail == [r EXCEPT !.ok = FALSE]
           first == [ok |-> TRUE, need |-> IF b < 224 THEN 1 ELSE IF b < 240 THEN 2 ELSE 3,
                     lo |-> IF b = 224 THEN 160 ELSE IF b = 240 THEN 144 ELSE 128,
                     hi |-> IF b = 237 THEN 159 ELSE IF b = 244 THEN 143 ELSE 191]
<1> DEFINE three == 0..3
<1>1. r.need > 0 => next \in Automaton
  <2>1. r \in [ok : BOOLEAN, need : three, lo : Nat, hi : Nat]
    BY DEF Automaton
  <2>2. r.need > 0 => r.need - 1 \in three
    BY <2>1
  <2>3. 128 \in Nat /\ 191 \in Nat
    OBVIOUS
  <2> DEFINE q == r.need - 1
  <2>5. next = [r EXCEPT !.need = q, !.lo = 128, !.hi = 191]
    BY <2>1
  <2> HIDE DEF three, next, q
  <2>4. r.need > 0 => next \in [ok : BOOLEAN, need : three, lo : Nat, hi : Nat]
    <3> SUFFICES ASSUME q \in three
                 PROVE  next \in [ok : BOOLEAN, need : three, lo : Nat, hi : Nat]
      BY <2>2 DEF q
    <3>1. r = [ok |-> r.ok, need |-> r.need, lo |-> r.lo, hi |-> r.hi] /\ r.ok \in BOOLEAN
      BY <2>1
    <3>2. next = [ok |-> r.ok, need |-> q, lo |-> 128, hi |-> 191]
      BY <2>5, <3>1
    <3> QED
      BY <2>3, <3>1, <3>2
  <2> QED
    BY <2>4 DEF Automaton, three
<1>2. fail \in Automaton
  <2>1. r \in [ok : BOOLEAN, need : three, lo : Nat, hi : Nat]
    BY DEF Automaton
  <2> HIDE DEF three
  <2>2. fail \in [ok : BOOLEAN, need : three, lo : Nat, hi : Nat]
    BY <2>1
  <2> QED
    BY <2>2 DEF Automaton, three
<1>4. first \in Automaton
  <2>1. first.need \in 0..3 /\ first.lo \in Nat /\ first.hi \in Nat /\ first.ok \in BOOLEAN
    OBVIOUS
  <2> QED
    BY <2>1 DEF Automaton
<1>3. \/ Utf8Step(r, b) = next /\ r.need > 0
      \/ Utf8Step(r, b) \in {r, first, fail}
  <2> HIDE DEF next, first, fail
  <2>1. Utf8Step(r, b) =
          CASE r.ok /\ r.need > 0 /\ b \in r.lo..r.hi -> next
            [] r.ok /\ r.need = 0 /\ b \in 0..127 -> r
            [] r.ok /\ r.need = 0 /\ b \in 194..244 -> first
            [] OTHER -> fail
    BY DEF Utf8Step, next, first, fail
  <2> QED
    BY <2>1
<1> HIDE DEF next, fail, first
<1> QED
  BY <1>1, <1>2, <1>3, <1>4

(* There is a run, and what WellFormed says is whether it accepts.         *)
LEMMA RunExists ==
    ASSUME NEW s, Len(s) \in Nat
    PROVE  \E u : Runs(u, s) /\ (WellFormed(s) <=> Accepts(u, s))
<1> DEFINE N == Len(s)
           S == {n \in Nat : \E f : IsRun(f, s, n)}
<1>1. 0 \in S
  <2> DEFINE f == [i \in 0..0 |-> Utf8Start]
  <2>1. f = [i \in 0..0 |-> IF i = 0 THEN Utf8Start ELSE Utf8Step(f[i - 1], s[i])]
    OBVIOUS
  <2> HIDE DEF f
  <2> QED
    BY <2>1 DEF IsRun
<1>2. ASSUME NEW n \in S PROVE n + 1 \in S
  <2>1. PICK f : IsRun(f, s, n)
    OBVIOUS
  <2>2. n \in Nat
    OBVIOUS
  <2> HIDE DEF S
  <2> DEFINE g == [i \in 0..(n + 1) |-> IF i <= n THEN f[i] ELSE Utf8Step(f[n], s[i])]
  <2>3. \A i \in 0..n : f[i] = IF i = 0 THEN Utf8Start ELSE Utf8Step(f[i - 1], s[i])
    BY <2>1 DEF IsRun
  <2>4. \A i \in 0..n : g[i] = f[i]
    BY <2>2
  <2>5. ASSUME NEW i \in 0..(n + 1)
        PROVE  g[i] = IF i = 0 THEN Utf8Start ELSE Utf8Step(g[i - 1], s[i])
    <3>1. CASE i <= n
      <4>1. i \in 0..n /\ g[i] = f[i] /\ (i # 0 => g[i - 1] = f[i - 1])
        BY <2>2, <2>4, <3>1
      <4> HIDE DEF g
      <4>2. f[i] = IF i = 0 THEN Utf8Start ELSE Utf8Step(f[i - 1], s[i])
        BY <2>3, <4>1
      <4> QED
        BY <4>1, <4>2
    <3>2. CASE i = n + 1
      <4>1. g[i] = Utf8Step(f[n], s[i]) /\ i # 0
        BY <2>2, <3>2
      <4>2. i - 1 = n /\ n \in 0..n
        BY <2>2, <3>2
      <4>3. g[n] = f[n]
        BY <2>4, <4>2
      <4> HIDE DEF g
      <4> QED
        BY <4>1, <4>2, <4>3
    <3> QED
      BY <2>2, <3>1, <3>2
  <2>6. IsRun(g, s, n + 1)
    <3>1. g = [i \in 0..(n + 1) |-> g[i]]
      OBVIOUS
    <3> HIDE DEF g
    <3> QED
      BY <2>5, <3>1 DEF IsRun
  <2> HIDE DEF g
  <2> QED
    BY <2>2, <2>6 DEF S
<1>3. \E f : IsRun(f, s, N)
  <2> HIDE DEF S, N
  <2>1. S = Nat
    BY <1>1, <1>2, Induct DEF S
  <2> QED
    BY <2>1 DEF S, N
<1> DEFINE h == CHOOSE f : IsRun(f, s, N)
<1>4. IsRun(h, s, N)
  BY <1>3
<1>5. WellFormed(s) <=> Accepts(h, s)
  BY DEF WellFormed, IsRun, Accepts
<1> HIDE DEF h
<1>6. \A i \in 0..N : h[i] = IF i = 0 THEN Utf8Start ELSE Utf8Step(h[i - 1], s[i])
  BY <1>4 DEF IsRun
<1>7. h[0] = Utf8Start
  BY <1>6
<1>8. ASSUME NEW k \in 0..(N - 1) PROVE h[k + 1] = Utf8Step(h[k], s[k + 1])
  <2>1. k + 1 \in 0..N /\ k + 1 # 0 /\ k + 1 - 1 = k
    OBVIOUS
  <2> DEFINE j == k + 1
  <2> HIDE DEF j
  <2>2. h[j] = IF j = 0 THEN Utf8Start ELSE Utf8Step(h[j - 1], s[j])
    BY <1>6, <2>1 DEF j
  <2>3. j # 0 /\ j - 1 = k
    BY <2>1 DEF j
  <2>4. h[j] = Utf8Step(h[k], s[j])
    BY <2>2, <2>3
  <2> QED
    BY <2>4 DEF j
<1>9. \A k \in 0..N : h[k] \in Automaton
  <2> DEFINE T == {k \in Nat : k <= N => h[k] \in Automaton}
  <2>1. 0 \in T
    <3>1. Utf8Start \in Automaton
      BY DEF Automaton, Utf8Start
    <3> QED
      BY <1>7, <3>1
  <2>2. ASSUME NEW k \in T, k < N PROVE k + 1 \in T
    <3>1. k \in 0..(N - 1) /\ h[k] \in Automaton /\ k + 1 \in Nat
      BY <2>2
    <3>2. h[k + 1] = Utf8Step(h[k], s[k + 1])
      BY <1>8, <3>1
    <3>3. h[k + 1] \in Automaton
      BY <3>1, <3>2, StepType
    <3> QED
      BY <3>1, <3>3
  <2>3. \A k \in 0..N : k \in T
    <3> HIDE DEF T, N
    <3>1. T \in SUBSET Nat /\ N \in Nat
      BY DEF T, N
    <3> QED
      BY <2>1, <2>2, <3>1, InductTo
  <2> QED
    BY <2>3
<1> QED
  BY <1>5, <1>7, <1>8, <1>9 DEF Runs

(* What the automaton refused stays refused.                               *)
LEMMA RefusedStays ==
    ASSUME NEW s \in Seq(Byte), NEW u, Runs(u, s), NEW j \in 0..Len(s), u[j].ok = FALSE
    PROVE  ~Accepts(u, s)
<1> DEFINE S == {m \in Nat : j + m <= Len(s) => u[j + m].ok = FALSE}
<1>1. Len(s) \in Nat
  BY LenProperties
<1>2. 0 \in S
  BY <1>1
<1>3. ASSUME NEW m \in S PROVE m + 1 \in S
  <2>1. m \in Nat
    OBVIOUS
  <2>2. ASSUME j + (m + 1) <= Len(s) PROVE u[j + (m + 1)].ok = FALSE
    <3> DEFINE k == j + m
    <3>1. k \in 0..(Len(s) - 1) /\ k + 1 = j + (m + 1)
      BY <1>1, <2>1, <2>2
    <3>2. u[k].ok = FALSE
      BY <1>1, <3>1
    <3> HIDE DEF k, S
    <3>3. u[k + 1] = Utf8Step(u[k], s[k + 1])
      BY <3>1 DEF Runs
    <3>4. Utf8Step(u[k], s[k + 1]) = [u[k] EXCEPT !.ok = FALSE]
      BY <3>2 DEF Utf8Step
    <3>5. u[k] \in Automaton
      BY <3>1 DEF Runs
    <3>6. u[k + 1].ok = FALSE
      BY <3>3, <3>4, <3>5 DEF Automaton
    <3> QED
      BY <3>1, <3>6
  <2>3. m + 1 \in Nat
    BY <2>1
  <2> QED
    BY <2>2, <2>3
<1>4. Len(s) - j \in S
  <2>1. Len(s) - j \in Nat
    BY <1>1
  <2> HIDE DEF S
  <2>2. S \in SUBSET Nat
    BY DEF S
  <2>3. S = Nat
    BY <1>2, <1>3, <2>2, Induct
  <2> QED
    BY <2>1, <2>3
<1>5. j + (Len(s) - j) = Len(s)
  BY <1>1
<1> QED
  BY <1>1, <1>4, <1>5 DEF Accepts

IsValid(f, s) ==
    f = [i \in 1..Len(s) + 4 |->
            i > Len(s) \/ LET n == Utf8Length(s, i) IN n > 0 /\ f[i + n]]

(* A character is at most four bytes long.                                 *)
LEMMA Utf8LengthType ==
    ASSUME NEW s, NEW i
    PROVE  Utf8Length(s, i) \in 0..4
  BY DEF Utf8Length

(* There is a function that isValidUtf8 computes.                          *)
LEMMA ValidExists ==
    ASSUME NEW s, Len(s) \in Nat
    PROVE  \E f : IsValid(f, s)
<1> DEFINE N == Len(s)
           Body(f, i) == i > N \/ LET n == Utf8Length(s, i) IN n > 0 /\ f[i + n]
           Sound(f, m) == \A i \in 1..N + 4 : N - i < m => f[i] = Body(f, i)
           S == {m \in Nat : \E f : f = [i \in 1..N + 4 |-> f[i]] /\ Sound(f, m)}
<1>1. 0 \in S
  <2> DEFINE f == [i \in 1..N + 4 |-> TRUE]
  <2>1. f = [i \in 1..N + 4 |-> f[i]] /\ \A i \in 1..N + 4 : f[i] = TRUE
    OBVIOUS
  <2> HIDE DEF f
  <2>2. Sound(f, 0)
    <3> SUFFICES ASSUME NEW i \in 1..N + 4, N - i < 0 PROVE f[i] = Body(f, i)
      OBVIOUS
    <3>1. Body(f, i) = TRUE /\ f[i] = TRUE
      BY <2>1
    <3> QED
      BY <3>1
  <2> HIDE DEF Sound
  <2>3. \E g : g = [i \in 1..N + 4 |-> g[i]] /\ Sound(g, 0)
    BY <2>1, <2>2
  <2> QED
    BY <2>3
<1>2. ASSUME NEW m \in S PROVE m + 1 \in S
  <2>1. PICK f : f = [i \in 1..N + 4 |-> f[i]] /\ Sound(f, m)
    OBVIOUS
  <2>2. m \in Nat
    OBVIOUS
  <2> HIDE DEF S
  <2> DEFINE g == [i \in 1..N + 4 |-> IF N - i < m THEN f[i] ELSE Body(f, i)]
  <2>3. \A i \in 1..N + 4 : N - i < m => g[i] = f[i]
    OBVIOUS
  <2>4. ASSUME NEW i \in 1..N + 4, N - i < m + 1 PROVE g[i] = Body(g, i)
    <3>1. g[i] = Body(f, i)
      BY <2>1
    <3> HIDE DEF g
    <3>2. CASE i > N
      BY <3>1, <3>2
    <3>3. CASE ~(i > N)
      <4> DEFINE n == Utf8Length(s, i)
      <4>1. n \in 0..4
        BY Utf8LengthType
      <4>2. n > 0 => g[i + n] = f[i + n]
        <5> HIDE DEF n
        <5>1. n > 0 => i + n \in 1..N + 4 /\ N - (i + n) < m
          BY <2>2, <2>4, <3>3, <4>1
        <5> QED
          BY <2>3, <5>1
      <4> HIDE DEF n
      <4> QED
        BY <3>1, <3>3, <4>2 DEF n
    <3> QED
      BY <3>2, <3>3
  <2>5. g = [i \in 1..N + 4 |-> g[i]]
    OBVIOUS
  <2> HIDE DEF g
  <2>6. Sound(g, m + 1)
    BY <2>4
  <2> HIDE DEF Sound
  <2>7. \E h : h = [i \in 1..N + 4 |-> h[i]] /\ Sound(h, m + 1)
    BY <2>5, <2>6
  <2>8. m + 1 \in Nat
    BY <2>2
  <2> QED
    BY <2>7, <2>8 DEF S
<1>3. N \in S
  <2> HIDE DEF S
  <2>1. S \in SUBSET Nat
    BY DEF S
  <2>2. S = Nat
    BY <1>1, <1>2, <2>1, Induct
  <2> QED
    BY <2>2
<1>4. PICK f : f = [i \in 1..N + 4 |-> f[i]] /\ Sound(f, N)
  BY <1>3
<1>5. \A i \in 1..N + 4 : f[i] = Body(f, i)
  <2>1. \A i \in 1..N + 4 : N - i < N
    OBVIOUS
  <2>2. \A i \in 1..N + 4 : N - i < N => f[i] = Body(f, i)
    BY <1>4
  <2> HIDE DEF Body, N
  <2> QED
    BY <2>1, <2>2
<1>6. [i \in 1..N + 4 |-> f[i]] = [i \in 1..N + 4 |-> Body(f, i)]
  BY <1>5
<1> QED
  BY <1>4, <1>6 DEF IsValid

(* The automaton waiting for `need` more bytes, the next one in lo..hi.    *)
Waiting(need, lo, hi) == [ok |-> TRUE, need |-> need, lo |-> lo, hi |-> hi]

(* The lowest and the highest second byte behind the first one.            *)
Low(b) == IF b = 224 THEN 160 ELSE IF b = 240 THEN 144 ELSE 128
High(b) == IF b = 237 THEN 159 ELSE IF b = 244 THEN 143 ELSE 191

(* What the automaton makes of a first byte.                               *)
LEMMA FirstByte ==
    ASSUME NEW b \in Byte
    PROVE  /\ b < 128 => Utf8Step(Utf8Start, b) = Utf8Start
           /\ b \in 194..223 => Utf8Step(Utf8Start, b) = Waiting(1, Low(b), High(b))
           /\ b \in 224..239 => Utf8Step(Utf8Start, b) = Waiting(2, Low(b), High(b))
           /\ b \in 240..244 => Utf8Step(Utf8Start, b) = Waiting(3, Low(b), High(b))
           /\ b \in 128..193 \/ b > 244 => Utf8Step(Utf8Start, b).ok = FALSE
<1> DEFINE first == [ok |-> TRUE, need |-> IF b < 224 THEN 1 ELSE IF b < 240 THEN 2 ELSE 3,
                     lo |-> Low(b), hi |-> High(b)]
           fail == [Utf8Start EXCEPT !.ok = FALSE]
<1>1. Utf8Step(Utf8Start, b) = IF b \in 0..127 THEN Utf8Start
                               ELSE IF b \in 194..244 THEN first ELSE fail
  <2>1. Utf8Start.ok /\ Utf8Start.need = 0
    BY DEF Utf8Start
  <2> QED
    BY <2>1 DEF Utf8Step, Low, High
<1>2. fail.ok = FALSE
  BY DEF Utf8Start
<1>3. b \in 194..244 =>
        first = Waiting(IF b < 224 THEN 1 ELSE IF b < 240 THEN 2 ELSE 3, Low(b), High(b))
  BY DEF Waiting
<1> HIDE DEF first, fail
<1> QED
  BY <1>1, <1>2, <1>3 DEF Byte

(* What it makes of another byte.                                          *)
LEMMA NextByte ==
    ASSUME NEW need \in 1..3, NEW lo \in Nat, NEW hi \in Nat, NEW b \in Byte
    PROVE  /\ b \in lo..hi => Utf8Step(Waiting(need, lo, hi), b) = Waiting(need - 1, 128, 191)
           /\ b \notin lo..hi => Utf8Step(Waiting(need, lo, hi), b).ok = FALSE
<1> DEFINE r == Waiting(need, lo, hi)
<1>1. r.ok /\ r.need = need /\ r.lo = lo /\ r.hi = hi
  BY DEF Waiting
<1>2. need # 0 /\ need > 0
  OBVIOUS
<1>3. [r EXCEPT !.need = @ - 1, !.lo = 128, !.hi = 191] = Waiting(need - 1, 128, 191)
  <2> DEFINE q == need - 1
  <2>1. r.need - 1 = q
    BY <1>1
  <2> HIDE DEF q
  <2>2. r = [ok |-> TRUE, need |-> need, lo |-> lo, hi |-> hi]
    BY DEF Waiting
  <2> HIDE DEF r
  <2> DEFINE next == [r EXCEPT !.need = q, !.lo = 128, !.hi = 191]
  <2>3. next = [r EXCEPT !.need = q, !.lo = 128, !.hi = 191]
    OBVIOUS
  <2> HIDE DEF next
  <2>4. next = [ok |-> TRUE, need |-> q, lo |-> 128, hi |-> 191]
    BY <2>2, <2>3
  <2> QED
    BY <2>1, <2>4 DEF q, Waiting, next
<1>4. [r EXCEPT !.ok = FALSE].ok = FALSE
  BY DEF Waiting
<1> HIDE DEF r
<1>5. b \in lo..hi => Utf8Step(r, b) = [r EXCEPT !.need = @ - 1, !.lo = 128, !.hi = 191]
  BY <1>1, <1>2 DEF Utf8Step
<1>6. b \notin lo..hi => Utf8Step(r, b) = [r EXCEPT !.ok = FALSE]
  BY <1>1, <1>2 DEF Utf8Step
<1> QED
  BY <1>3, <1>4, <1>5, <1>6 DEF r

(* What follows when the automaton waits for another byte behind j bytes.  *)
There(s, j, lo, hi) == j + 1 <= Len(s) /\ s[j + 1] \in lo..hi
Awaits(u, s, j, need, lo, hi) ==
    u[j] = Waiting(need, lo, hi) =>
        /\ There(s, j, lo, hi) => u[j + 1] = Waiting(need - 1, 128, 191)
        /\ ~There(s, j, lo, hi) => ~Accepts(u, s)

(* It takes a byte that fits, and accepts nothing without one.             *)
LEMMA Awaited ==
    ASSUME NEW s \in Seq(Byte), NEW u, Runs(u, s), NEW j \in 0..Len(s),
           NEW need \in 1..3, NEW lo \in Nat, NEW hi \in Nat
    PROVE  Awaits(u, s, j, need, lo, hi)
<1> SUFFICES ASSUME u[j] = Waiting(need, lo, hi)
             PROVE  /\ There(s, j, lo, hi) => u[j + 1] = Waiting(need - 1, 128, 191)
                    /\ ~There(s, j, lo, hi) => ~Accepts(u, s)
  BY DEF Awaits
<1>1. Len(s) \in Nat
  BY LenProperties
<1>2. CASE j + 1 <= Len(s)
  <2>1. j \in 0..(Len(s) - 1) /\ j + 1 \in 1..Len(s) /\ j + 1 \in 0..Len(s)
    BY <1>1, <1>2
  <2>2. s[j + 1] \in Byte
    BY <2>1, ElementOfSeq
  <2>3. u[j + 1] = Utf8Step(u[j], s[j + 1])
    BY <2>1 DEF Runs
  <2> DEFINE b == s[j + 1]
  <2> HIDE DEF b
  <2>6. /\ b \in lo..hi => Utf8Step(Waiting(need, lo, hi), b) = Waiting(need - 1, 128, 191)
        /\ b \notin lo..hi => Utf8Step(Waiting(need, lo, hi), b).ok = FALSE
    <3>1. b \in Byte
      BY <2>2 DEF b
    <3>2. \A n \in 1..3, x \in Nat, y \in Nat, c \in Byte :
             /\ c \in x..y => Utf8Step(Waiting(n, x, y), c) = Waiting(n - 1, 128, 191)
             /\ c \notin x..y => Utf8Step(Waiting(n, x, y), c).ok = FALSE
      BY NextByte
    <3> QED
      BY <3>1, <3>2
  <2>4. CASE s[j + 1] \in lo..hi
    BY <1>2, <2>3, <2>4, <2>6 DEF b, There
  <2>5. CASE s[j + 1] \notin lo..hi
    <3>1. u[j + 1].ok = FALSE
      BY <2>3, <2>5, <2>6 DEF b
    <3>2. ~Accepts(u, s)
      BY <2>1, <3>1, RefusedStays
    <3> QED
      BY <2>5, <3>2 DEF There
  <2> QED
    BY <2>4, <2>5
<1>3. CASE j = Len(s)
  <2>1. u[Len(s)].need = need
    BY <1>3 DEF Waiting
  <2>2. ~(j + 1 <= Len(s)) /\ need # 0
    BY <1>1, <1>3
  <2> QED
    BY <2>1, <2>2 DEF Accepts, There
<1> QED
  BY <1>1, <1>2, <1>3

(* A byte that continues a character is k bytes behind the one at i.       *)
Tail80(s, i, k) == i + k <= Len(s) /\ s[i + k] \in 128..191

(* How many bytes isValidUtf8 goes on behind a first byte of each kind.    *)
LEMMA Lengths ==
    ASSUME NEW s \in Seq(Byte), NEW i \in 1..Len(s)
    PROVE  LET b == s[i]
               n == Utf8Length(s, i)
           IN  /\ b < 128 => n = 1
               /\ b \in 128..193 \/ b > 244 => n = 0
               /\ b \in 194..223 => n = IF Tail80(s, i, 1) THEN 2 ELSE 0
               /\ b \in 224..239 => n = IF There(s, i, Low(b), High(b)) /\ Tail80(s, i, 2)
                                        THEN 3 ELSE 0
               /\ b \in 240..244 => n = IF /\ There(s, i, Low(b), High(b))
                                           /\ Tail80(s, i, 2) /\ Tail80(s, i, 3)
                                        THEN 4 ELSE 0
<1> DEFINE b == s[i]
           n == Utf8Length(s, i)
           three == /\ Tail80(s, i, 1) /\ Tail80(s, i, 2)
                    /\ ~(b = 224 /\ s[i + 1] \in 128..159)
                    /\ ~(b = 237 /\ s[i + 1] \in 160..191)
           four == /\ Tail80(s, i, 1) /\ Tail80(s, i, 2) /\ Tail80(s, i, 3)
                   /\ ~(b = 240 /\ s[i + 1] \in 128..143)
                   /\ ~(b = 244 /\ s[i + 1] > 143)
<1>1. n = IF b < 128 THEN 1
            ELSE IF b \in 192..223 /\ Tail80(s, i, 1) /\ b \notin {192, 193} THEN 2
            ELSE IF b \in 224..239 /\ three THEN 3
            ELSE IF b \in 240..247 /\ four /\ b <= 244 THEN 4
            ELSE 0
  BY DEF Utf8Length, Tail80
<1>2. b \in Byte
  BY ElementOfSeq
<1>3. b \in 224..239 => (three <=> There(s, i, Low(b), High(b)) /\ Tail80(s, i, 2))
  <2> SUFFICES ASSUME b \in 224..239
               PROVE  three <=> There(s, i, Low(b), High(b)) /\ Tail80(s, i, 2)
    OBVIOUS
  <2> DEFINE c == s[i + 1]
  <2>1. i + 1 <= Len(s) => c \in Byte
    BY ElementOfSeq
  <2> HIDE DEF b, c
  <2>2. c \in Byte => (/\ c \in 128..191 /\ ~(b = 224 /\ c \in 128..159)
                       /\ ~(b = 237 /\ c \in 160..191)
                       <=> c \in Low(b)..High(b))
    BY DEF Low, High, Byte
  <2> QED
    BY <2>1, <2>2 DEF Tail80, There, c
<1>4. b \in 240..244 => (four <=> There(s, i, Low(b), High(b)) /\ Tail80(s, i, 2) /\ Tail80(s, i, 3))
  <2> SUFFICES ASSUME b \in 240..244
               PROVE  four <=> There(s, i, Low(b), High(b)) /\ Tail80(s, i, 2) /\ Tail80(s, i, 3)
    OBVIOUS
  <2> DEFINE c == s[i + 1]
  <2>1. i + 1 <= Len(s) => c \in Byte
    BY ElementOfSeq
  <2> HIDE DEF b, c
  <2>2. c \in Byte => (/\ c \in 128..191 /\ ~(b = 240 /\ c \in 128..143)
                       /\ ~(b = 244 /\ c > 143)
                       <=> c \in Low(b)..High(b))
    BY DEF Low, High, Byte
  <2> QED
    BY <2>1, <2>2 DEF Tail80, There, c
<1> HIDE DEF b, n, three, four
<1>5. /\ b < 128 => n = 1
      /\ b \in 128..193 \/ b > 244 => n = 0
      /\ b \in 194..223 => n = IF Tail80(s, i, 1) THEN 2 ELSE 0
      /\ b \in 224..239 => n = IF three THEN 3 ELSE 0
      /\ b \in 240..244 => n = IF four THEN 4 ELSE 0
  <2> DEFINE one == Tail80(s, i, 1)
  <2> HIDE DEF one
  <2>1. n = IF b < 128 THEN 1
              ELSE IF b \in 192..223 /\ one /\ b \notin {192, 193} THEN 2
              ELSE IF b \in 224..239 /\ three THEN 3
              ELSE IF b \in 240..247 /\ four /\ b <= 244 THEN 4
              ELSE 0
    BY <1>1 DEF one
  <2> SUFFICES /\ b < 128 => n = 1
               /\ b \in 128..193 \/ b > 244 => n = 0
               /\ b \in 194..223 => n = IF one THEN 2 ELSE 0
               /\ b \in 224..239 => n = IF three THEN 3 ELSE 0
               /\ b \in 240..244 => n = IF four THEN 4 ELSE 0
    BY DEF one
  <2> QED
    BY <1>2, <2>1 DEF Byte
<1> QED
  BY <1>3, <1>4, <1>5 DEF b, n

(* What isValidUtf8 takes for a character the automaton takes as well.     *)
Taken(u, s, i, n) ==
    /\ n > 0 => i + n <= Len(s) + 1 /\ u[i + n - 1] = Utf8Start
    /\ n = 0 => ~Accepts(u, s)

(* So the automaton stands behind it, at the start of a character again.   *)
LEMMA Character ==
    ASSUME NEW s \in Seq(Byte), NEW u, Runs(u, s), NEW i \in 1..Len(s), u[i - 1] = Utf8Start
    PROVE  Taken(u, s, i, Utf8Length(s, i))
<1> DEFINE b == s[i]
           n == Utf8Length(s, i)
           second == There(s, i, Low(b), High(b))
<1>1. Len(s) \in Nat /\ i \in Nat /\ i # 0 /\ i <= Len(s)
  BY LenProperties
<1>2. b \in Byte
  BY ElementOfSeq
<1>3. u[i] = Utf8Step(Utf8Start, b)
  <2>1. i - 1 \in 0..(Len(s) - 1) /\ i - 1 + 1 = i
    BY <1>1
  <2> QED
    BY <2>1 DEF Runs
<1>4. i \in 0..Len(s) /\ i + 1 - 1 = i
  BY <1>1
<1>5. Waiting(0, 128, 191) = Utf8Start
  BY DEF Waiting, Utf8Start
<1>6. Low(b) \in Nat /\ High(b) \in Nat
  BY DEF Low, High
<1>7. /\ b < 128 => n = 1
      /\ b \in 128..193 \/ b > 244 => n = 0
      /\ b \in 194..223 => n = IF Tail80(s, i, 1) THEN 2 ELSE 0
      /\ b \in 224..239 => n = IF second /\ Tail80(s, i, 2) THEN 3 ELSE 0
      /\ b \in 240..244 => n = IF second /\ Tail80(s, i, 2) /\ Tail80(s, i, 3) THEN 4 ELSE 0
  BY Lengths
<1>8. \A j \in 0..Len(s), need \in 1..3, lo \in Nat, hi \in Nat : Awaits(u, s, j, need, lo, hi)
  BY Awaited
<1>9. \A k \in 1..3 : Tail80(s, i, k) <=> There(s, i + (k - 1), 128, 191)
  <2> SUFFICES ASSUME NEW k \in 1..3
               PROVE  Tail80(s, i, k) <=> There(s, i + (k - 1), 128, 191)
    OBVIOUS
  <2>1. i + (k - 1) + 1 = i + k
    BY <1>1
  <2> QED
    BY <2>1 DEF Tail80, There
<1> HIDE DEF b, n, second
<1>10. /\ b < 128 => u[i] = Utf8Start
       /\ b \in 194..223 => u[i] = Waiting(1, 128, 191)
       /\ b \in 224..239 => u[i] = Waiting(2, Low(b), High(b))
       /\ b \in 240..244 => u[i] = Waiting(3, Low(b), High(b))
       /\ b \in 128..193 \/ b > 244 => u[i].ok = FALSE
  <2>1. b \in 194..223 => Low(b) = 128 /\ High(b) = 191
    BY DEF Low, High
  <2>2. /\ b < 128 => Utf8Step(Utf8Start, b) = Utf8Start
        /\ b \in 194..223 => Utf8Step(Utf8Start, b) = Waiting(1, Low(b), High(b))
        /\ b \in 224..239 => Utf8Step(Utf8Start, b) = Waiting(2, Low(b), High(b))
        /\ b \in 240..244 => Utf8Step(Utf8Start, b) = Waiting(3, Low(b), High(b))
        /\ b \in 128..193 \/ b > 244 => Utf8Step(Utf8Start, b).ok = FALSE
    BY <1>2, FirstByte
  <2> QED
    BY <1>3, <2>1, <2>2
<1>12. CASE b < 128
  <2>1. n = 1 /\ u[i] = Utf8Start
    BY <1>7, <1>10, <1>12
  <2>2. i + 1 <= Len(s) + 1
    BY <1>1
  <2> QED
    BY <1>4, <2>1, <2>2 DEF Taken, n
<1>13. CASE b \in 128..193 \/ b > 244
  <2>1. n = 0 /\ u[i].ok = FALSE
    BY <1>7, <1>10, <1>13
  <2>2. ~Accepts(u, s)
    BY <1>4, <2>1, RefusedStays
  <2> QED
    BY <2>1, <2>2 DEF Taken, n
<1>14. CASE b \in 194..223
  <2>1. u[i] = Waiting(1, 128, 191) /\ n = IF Tail80(s, i, 1) THEN 2 ELSE 0
    BY <1>7, <1>10, <1>14
  <2>2. Awaits(u, s, i, 1, 128, 191)
    BY <1>4, <1>8
  <2>3. Tail80(s, i, 1) <=> There(s, i, 128, 191)
    BY <1>1, <1>9
  <2>4. /\ Tail80(s, i, 1) => u[i + 1] = Utf8Start
        /\ ~Tail80(s, i, 1) => ~Accepts(u, s)
    BY <1>5, <2>1, <2>2, <2>3 DEF Awaits
  <2>5. i + 2 - 1 = i + 1 /\ (Tail80(s, i, 1) => i + 2 <= Len(s) + 1)
    BY <1>1 DEF Tail80
  <2> QED
    BY <2>1, <2>4, <2>5 DEF Taken, n
<1>15. CASE b \in 224..239
  <2>1. u[i] = Waiting(2, Low(b), High(b)) /\ n = IF second /\ Tail80(s, i, 2) THEN 3 ELSE 0
    BY <1>7, <1>10, <1>15
  <2>2. Awaits(u, s, i, 2, Low(b), High(b))
    BY <1>4, <1>6, <1>8
  <2>3. /\ second => u[i + 1] = Waiting(1, 128, 191)
        /\ ~second => ~Accepts(u, s)
    BY <2>1, <2>2 DEF Awaits, second
  <2>4. second => i + 1 \in 0..Len(s)
    BY <1>1 DEF second, There
  <2>5. second => Awaits(u, s, i + 1, 1, 128, 191)
    BY <1>8, <2>4
  <2>6. (Tail80(s, i, 2) <=> There(s, i + 1, 128, 191)) /\ i + 1 + 1 = i + 2
    BY <1>1, <1>9
  <2>7. second => /\ Tail80(s, i, 2) => u[i + 2] = Utf8Start
                  /\ ~Tail80(s, i, 2) => ~Accepts(u, s)
    BY <1>5, <2>3, <2>5, <2>6 DEF Awaits
  <2>8. i + 3 - 1 = i + 2 /\ (Tail80(s, i, 2) => i + 3 <= Len(s) + 1)
    BY <1>1 DEF Tail80
  <2> QED
    BY <2>1, <2>3, <2>7, <2>8 DEF Taken, n
<1>16. CASE b \in 240..244
  <2>1. /\ u[i] = Waiting(3, Low(b), High(b))
        /\ n = IF second /\ Tail80(s, i, 2) /\ Tail80(s, i, 3) THEN 4 ELSE 0
    BY <1>7, <1>10, <1>16
  <2>2. Awaits(u, s, i, 3, Low(b), High(b))
    BY <1>4, <1>6, <1>8
  <2>3. /\ second => u[i + 1] = Waiting(2, 128, 191)
        /\ ~second => ~Accepts(u, s)
    BY <2>1, <2>2 DEF Awaits, second
  <2>4. second => i + 1 \in 0..Len(s)
    BY <1>1 DEF second, There
  <2>5. second => Awaits(u, s, i + 1, 2, 128, 191)
    BY <1>8, <2>4
  <2>6. /\ (Tail80(s, i, 2) <=> There(s, i + 1, 128, 191)) /\ i + 1 + 1 = i + 2
        /\ (Tail80(s, i, 3) <=> There(s, i + 2, 128, 191)) /\ i + 2 + 1 = i + 3
    BY <1>1, <1>9
  <2>7. second => /\ Tail80(s, i, 2) => u[i + 2] = Waiting(1, 128, 191)
                  /\ ~Tail80(s, i, 2) => ~Accepts(u, s)
    BY <2>3, <2>5, <2>6 DEF Awaits
  <2>8. Tail80(s, i, 2) => i + 2 \in 0..Len(s)
    BY <1>1 DEF Tail80
  <2>9. Tail80(s, i, 2) => Awaits(u, s, i + 2, 1, 128, 191)
    BY <1>8, <2>8
  <2>10. second /\ Tail80(s, i, 2) =>
            /\ Tail80(s, i, 3) => u[i + 3] = Utf8Start
            /\ ~Tail80(s, i, 3) => ~Accepts(u, s)
    BY <1>5, <2>6, <2>7, <2>9 DEF Awaits
  <2>11. i + 4 - 1 = i + 3 /\ (Tail80(s, i, 3) => i + 4 <= Len(s) + 1)
    BY <1>1 DEF Tail80
  <2> QED
    BY <2>1, <2>3, <2>7, <2>10, <2>11 DEF Taken, n
<1> QED
  BY <1>2, <1>12, <1>13, <1>14, <1>15, <1>16 DEF Byte

(* isValidUtf8 holds of the well-formed texts and of no others.            *)
THEOREM Utf8Same ==
    ASSUME NEW s \in Seq(Byte)
    PROVE  IsValidUtf8(s) <=> WellFormed(s)
<1>1. Len(s) \in Nat
  BY LenProperties
<1>2. PICK u : Runs(u, s) /\ (WellFormed(s) <=> Accepts(u, s))
  BY <1>1, RunExists
<1> DEFINE v == CHOOSE f : IsValid(f, s)
<1>3. IsValid(v, s)
  BY <1>1, ValidExists
<1>4. IsValidUtf8(s) <=> v[1]
  BY DEF IsValidUtf8, IsValid
<1> HIDE DEF v
<1>5. \A i \in 1..Len(s) + 4 :
         v[i] = (i > Len(s) \/ (Utf8Length(s, i) > 0 /\ v[i + Utf8Length(s, i)]))
  BY <1>3 DEF IsValid
<1> DEFINE Agree(i) == u[i - 1] = Utf8Start => (v[i] <=> Accepts(u, s))
           S == {m \in Nat : \A i \in 1..Len(s) + 1 : Len(s) + 1 - i <= m => Agree(i)}
<1>6. Agree(Len(s) + 1)
  <2>1. v[Len(s) + 1] = TRUE
    <3> DEFINE k == Len(s) + 1
    <3>1. k \in 1..Len(s) + 4 /\ k > Len(s)
      BY <1>1
    <3> HIDE DEF k
    <3>2. v[k] = (k > Len(s) \/ (Utf8Length(s, k) > 0 /\ v[k + Utf8Length(s, k)]))
      BY <1>5, <3>1, Zenon
    <3>3. v[k] = TRUE
      BY <3>1, <3>2, Zenon
    <3> QED
      BY <3>3 DEF k
  <2>2. Len(s) + 1 - 1 = Len(s)
    BY <1>1
  <2>3. u[Len(s)] = Utf8Start => Accepts(u, s)
    BY DEF Accepts, Utf8Start
  <2> QED
    BY <2>1, <2>2, <2>3
<1>7. 0 \in S
  <2> SUFFICES ASSUME NEW i \in 1..Len(s) + 1, Len(s) + 1 - i <= 0 PROVE Agree(i)
    OBVIOUS
  <2>1. i = Len(s) + 1
    BY <1>1
  <2> HIDE DEF Agree
  <2> QED
    BY <1>6, <2>1
<1>8. ASSUME NEW m \in S PROVE m + 1 \in S
  <2>1. m \in Nat /\ \A i \in 1..Len(s) + 1 : Len(s) + 1 - i <= m => Agree(i)
    OBVIOUS
  <2> HIDE DEF S
  <2>2. ASSUME NEW i \in 1..Len(s) + 1, Len(s) + 1 - i <= m + 1, i <= Len(s) PROVE Agree(i)
    <3> SUFFICES ASSUME u[i - 1] = Utf8Start PROVE v[i] <=> Accepts(u, s)
      OBVIOUS
    <3> DEFINE n == Utf8Length(s, i)
    <3>1. i \in 1..Len(s)
      BY <1>1, <2>2
    <3>2. Taken(u, s, i, n)
      BY <1>2, <3>1, Character
    <3>3. v[i] = (n > 0 /\ v[i + n])
      <4>1. i \in 1..Len(s) + 4 /\ ~(i > Len(s))
        BY <1>1, <3>1
      <4>2. v[i] = (i > Len(s) \/ (n > 0 /\ v[i + n]))
        BY <1>5, <4>1, Zenon
      <4> QED
        BY <4>1, <4>2, Zenon
    <3>4. n \in 0..4
      BY Utf8LengthType
    <3> HIDE DEF n, Agree
    <3>5. CASE n = 0
      <4>1. ~(n > 0) /\ ~Accepts(u, s)
        BY <3>2, <3>5 DEF Taken
      <4> QED
        BY <3>3, <4>1, Zenon
    <3>6. CASE n > 0
      <4>1. i + n \in 1..Len(s) + 1 /\ Len(s) + 1 - (i + n) <= m
        BY <1>1, <2>1, <2>2, <3>2, <3>4, <3>6 DEF Taken
      <4>2. Agree(i + n)
        BY <2>1, <4>1
      <4>3. u[i + n - 1] = Utf8Start
        BY <3>2, <3>6 DEF Taken
      <4>4. v[i + n] <=> Accepts(u, s)
        <5> DEFINE k == i + n
        <5>1. u[k - 1] = Utf8Start
          <6>1. k - 1 = i + n - 1
            BY <3>1, <3>4
          <6> HIDE DEF k
          <6> QED
            BY <4>3, <6>1
        <5>2. Agree(k)
          BY <4>2
        <5> HIDE DEF k
        <5>3. u[k - 1] = Utf8Start => (v[k] <=> Accepts(u, s))
          BY <5>2 DEF Agree
        <5>4. v[k] <=> Accepts(u, s)
          BY <5>1, <5>3
        <5> QED
          BY <5>4 DEF k
      <4> QED
        BY <3>3, <3>6, <4>4, Zenon
    <3> QED
      BY <3>4, <3>5, <3>6
  <2>3. \A i \in 1..Len(s) + 1 : i <= Len(s) \/ i = Len(s) + 1
    BY <1>1
  <2> HIDE DEF Agree
  <2>4. \A i \in 1..Len(s) + 1 : Len(s) + 1 - i <= m + 1 => Agree(i)
    BY <1>6, <2>2, <2>3
  <2>5. m + 1 \in Nat
    BY <2>1
  <2> QED
    BY <2>4, <2>5 DEF S
<1>9. Len(s) \in S
  <2> HIDE DEF S
  <2>1. S \in SUBSET Nat
    BY DEF S
  <2>2. S = Nat
    BY <1>7, <1>8, <2>1, Induct
  <2> QED
    BY <1>1, <2>2
<1>10. Agree(1)
  <2>1. 1 \in 1..Len(s) + 1 /\ Len(s) + 1 - 1 <= Len(s)
    BY <1>1
  <2> HIDE DEF Agree
  <2> QED
    BY <1>9, <2>1
<1>11. u[1 - 1] = Utf8Start
  BY <1>2 DEF Runs
<1> QED
  BY <1>2, <1>4, <1>10, <1>11

-----------------------------------------------------------------------------
(* Close frames and inflation against what they stand for.                 *)

(* A piece of a sequence.                                                  *)
LEMMA Pieces ==
    ASSUME NEW P, NEW s \in Seq(P), NEW m \in Nat, NEW n \in Nat, n <= Len(s)
    PROVE  /\ SubSeq(s, m + 1, n) \in Seq(P)
           /\ Len(SubSeq(s, m + 1, n)) = IF m <= n THEN n - m ELSE 0
           /\ \A i \in 1..n - m : SubSeq(s, m + 1, n)[i] = s[m + i]
<1>1. Len(s) \in Nat /\ \A i \in 1..Len(s) : s[i] \in P
  BY ElementOfSeq
<1>2. \A i \in (m + 1)..n : s[i] \in P
  BY <1>1
<1>3. /\ SubSeq(s, m + 1, n) \in Seq(P)
      /\ Len(SubSeq(s, m + 1, n)) = IF m + 1 <= n THEN n - (m + 1) + 1 ELSE 0
      /\ \A i \in 1..(n - (m + 1) + 1) : SubSeq(s, m + 1, n)[i] = s[m + 1 + i - 1]
  BY <1>2, SubSeqProperties
<1>4. \A i \in 1..n - m : SubSeq(s, m + 1, n)[i] = s[m + i]
  <2> SUFFICES ASSUME NEW i \in 1..n - m PROVE SubSeq(s, m + 1, n)[i] = s[m + i]
    OBVIOUS
  <2>1. i \in 1..(n - (m + 1) + 1) /\ m + 1 + i - 1 = m + i
    OBVIOUS
  <2> QED
    BY <1>3, <2>1
<1> QED
  BY <1>3, <1>4

(* The whole of a sequence as a piece of it.                               *)
LEMMA WholePiece ==
    ASSUME NEW S, NEW s \in Seq(S)
    PROVE  SubSeq(s, 1, Len(s)) = s
<1> DEFINE n == Len(s)
           q == SubSeq(s, 1, n)
<1>1. n \in Nat /\ n <= Len(s) /\ s = [i \in 1..n |-> s[i]]
  BY LenProperties, SeqDef
<1>2. q \in Seq(S) /\ Len(q) = n /\ \A i \in 1..n : q[i] = s[i]
  <2>1. 0 \in Nat /\ SubSeq(s, 0 + 1, n) = q
    OBVIOUS
  <2>2. /\ SubSeq(s, 0 + 1, n) \in Seq(S)
        /\ Len(SubSeq(s, 0 + 1, n)) = IF 0 <= n THEN n - 0 ELSE 0
        /\ \A i \in 1..n - 0 : SubSeq(s, 0 + 1, n)[i] = s[0 + i]
    BY <1>1, <2>1, Pieces
  <2>3. n - 0 = n /\ 0 <= n /\ \A i \in 1..n : 0 + i = i
    BY <1>1
  <2> DEFINE z == SubSeq(s, 0 + 1, n)
  <2>4. z \in Seq(S) /\ Len(z) = n /\ \A i \in 1..n : z[i] = s[i]
    <3>1. z \in Seq(S) /\ (Len(z) = IF 0 <= n THEN n - 0 ELSE 0) /\ \A i \in 1..n - 0 : z[i] = s[0 + i]
      BY <2>2
    <3> HIDE DEF z, n
    <3> QED
      BY <2>3, <3>1
  <2> HIDE DEF n
  <2> QED
    BY <2>1, <2>4
<1>3. q = [i \in 1..Len(q) |-> q[i]]
  BY <1>2, SeqDef
<1> HIDE DEF n, q
<1> QED
  BY <1>1, <1>2, <1>3 DEF n, q

(* A close is answered with its own payload if that is legal, and with     *)
(* none otherwise.                                                         *)
LEMMA CloseReply ==
    ASSUME NEW p \in Seq(Byte)
    PROVE  FormatClosePayload(ParseClosePayload(p).code, ParseClosePayload(p).message)
             = IF LegalClose(p) THEN p ELSE <<>>
<1> DEFINE code == p[1] * 256 + p[2]
           message == SubSeq(p, 3, Len(p))
<1>1. Len(p) \in Nat
  BY LenProperties
<1>2. CASE Len(p) < 2
  <2>1. ParseClosePayload(p).code = 1005
    BY <1>2 DEF ParseClosePayload
  <2>2. ~LegalClose(p)
    BY <1>1, <1>2 DEF LegalClose
  <2> QED
    BY <2>1, <2>2 DEF FormatClosePayload
<1>3. CASE Len(p) >= 2
  <2>1. p[1] \in 0..255 /\ p[2] \in 0..255
    <3>1. 1 \in 1..Len(p) /\ 2 \in 1..Len(p)
      BY <1>1, <1>3
    <3> QED
      BY <3>1, ElementOfSeq DEF Byte
  <2>2. code \in Nat /\ code \div 256 = p[1] /\ code % 256 = p[2]
    <3> DEFINE x == p[1]
               y == p[2]
    <3>1. x \in 0..255 /\ y \in 0..255
      BY <2>1
    <3> HIDE DEF x, y
    <3>2. x * 256 + y \in Nat /\ (x * 256 + y) \div 256 = x /\ (x * 256 + y) % 256 = y
      BY <3>1
    <3> QED
      BY <3>2 DEF x, y
  <2>3. /\ message \in Seq(Byte) /\ Len(message) = Len(p) - 2
        /\ \A i \in 1..Len(p) - 2 : message[i] = p[2 + i]
    <3>1. /\ SubSeq(p, 2 + 1, Len(p)) \in Seq(Byte)
          /\ Len(SubSeq(p, 2 + 1, Len(p))) = IF 2 <= Len(p) THEN Len(p) - 2 ELSE 0
          /\ \A i \in 1..Len(p) - 2 : SubSeq(p, 2 + 1, Len(p))[i] = p[2 + i]
      BY <1>1, Pieces
    <3> QED
      BY <1>1, <1>3, <3>1
  <2>4. IsValidUtf8(message) <=> WellFormed(message)
    BY <2>3, Utf8Same
  <2> DEFINE bad == \/ code < 1000 \/ code > 4999
                    \/ code > 1011 /\ code < 4000
                    \/ code \in 1004..1006
                    \/ ~IsValidUtf8(message)
  <2>5. ParseClosePayload(p) = IF bad THEN [code |-> 1006, message |-> <<>>]
                               ELSE [code |-> code, message |-> message]
    BY <1>1, <1>3 DEF ParseClosePayload
  <2>6. LegalClose(p) <=>
            /\ code \in (1000..1003) \union (1007..1011) \union (4000..4999)
            /\ WellFormed(message)
    BY <1>3 DEF LegalClose
  <2>7. <<code \div 256, code % 256>> \o message = p
    <3> DEFINE two == <<p[1], p[2]>>
    <3>1. two \in Seq(Byte) /\ Len(two) = 2 /\ two[1] = p[1] /\ two[2] = p[2]
      BY <2>1 DEF Byte
    <3> HIDE DEF two, message
    <3>2. /\ two \o message \in Seq(Byte) /\ Len(two \o message) = 2 + Len(message)
          /\ \A i \in 1..2 + Len(message) :
                (two \o message)[i] = IF i <= 2 THEN two[i] ELSE message[i - 2]
      <4>1. /\ two \o message \in Seq(Byte)
            /\ Len(two \o message) = Len(two) + Len(message)
            /\ \A i \in 1..Len(two) + Len(message) :
                  (two \o message)[i] = IF i <= Len(two) THEN two[i] ELSE message[i - Len(two)]
        BY <2>3, <3>1, ConcatProperties
      <4> QED
        BY <3>1, <4>1
    <3>3. Len(two \o message) = Len(p)
      BY <1>1, <2>3, <3>2
    <3>4. ASSUME NEW i \in 1..Len(p) PROVE (two \o message)[i] = p[i]
      <4>1. (two \o message)[i] = IF i <= 2 THEN two[i] ELSE message[i - 2]
        BY <1>1, <2>3, <3>2
      <4>2. CASE i <= 2
        <5>1. i = 1 \/ i = 2
          BY <1>1, <4>2
        <5> QED
          BY <3>1, <4>1, <4>2, <5>1
      <4>3. CASE ~(i <= 2)
        <5>1. i - 2 \in 1..Len(p) - 2 /\ 2 + (i - 2) = i
          BY <1>1, <4>3
        <5> QED
          BY <2>3, <4>1, <4>3, <5>1
      <4> QED
        BY <4>2, <4>3
    <3>5. two \o message = p
      <4> DEFINE q == two \o message
      <4>1. q \in Seq(Byte) /\ Len(q) = Len(p) /\ \A i \in 1..Len(p) : q[i] = p[i]
        BY <3>2, <3>3, <3>4
      <4> HIDE DEF q
      <4>2. q = p
        BY <4>1, SeqEqual
      <4> QED
        BY <4>2 DEF q
    <3> QED
      BY <2>2, <3>5 DEF two
  <2> HIDE DEF code, message
  <2>8. LegalClose(p) <=> ~bad
    BY <2>2, <2>4, <2>6
  <2> HIDE DEF bad
  <2>9. CASE bad
    <3>1. ParseClosePayload(p).code = 1006
      BY <2>5, <2>9
    <3> QED
      BY <2>8, <2>9, <3>1 DEF FormatClosePayload
  <2>10. CASE ~bad
    <3>1. ParseClosePayload(p).code = code /\ ParseClosePayload(p).message = message
      BY <2>5, <2>10
    <3>2. code \notin {0, 1005, 1006}
      BY <2>2, <2>10 DEF bad
    <3> QED
      BY <2>7, <2>8, <2>10, <3>1, <3>2 DEF FormatClosePayload
  <2> QED
    BY <2>9, <2>10
<1> QED
  BY <1>1, <1>2, <1>3

(* Inflation fails for corrupt data and for a result that is too long.     *)
LEMMA Inflates ==
    ASSUME NEW d \in Seq(Byte)
    PROVE  /\ Expand(d) \in Seq(Byte) /\ Len(Expand(d)) = 2 * Len(d)
           /\ Inflate(d)[1] <=> ~(Corrupt \in Range(d) \/ 2 * Len(d) > MaxPayload)
           /\ Inflate(d)[1] => Inflate(d)[2] = Expand(d)
<1>1. Len(d) \in Nat /\ Expand(d) \in Seq(Byte) /\ Len(Expand(d)) = 2 * Len(d)
  <2>1. d \o d \in Seq(Byte) /\ Len(d \o d) = Len(d) + Len(d) /\ Len(d) \in Nat
    BY ConcatProperties
  <2> QED
    BY <2>1 DEF Expand
<1>2. InflateLoop(Len(Expand(d))) \in 0..Len(Expand(d))
  BY <1>1, LoopTakes
<1>3. MaxPayload \in Nat
  BY SizeAssumption
<1> DEFINE fails == \/ Corrupt \in Range(d)
                    \/ InflateLoop(Len(Expand(d))) > MaxPayload
                    \/ Len(Expand(d)) > MaxPayload
<1>4. fails <=> Corrupt \in Range(d) \/ 2 * Len(d) > MaxPayload
  BY <1>1, <1>2, <1>3
<1>5. Inflate(d) = IF fails THEN <<FALSE, <<>>>> ELSE <<TRUE, Expand(d)>>
  BY DEF Inflate
<1> HIDE DEF fails
<1> QED
  BY <1>1, <1>4, <1>5

-----------------------------------------------------------------------------
(* What the frames mean.                                                   *)

Note == [op : 0..15, data : Seq(Byte)]
MeaningSet == [op : 0..2, data : Seq(Byte), compressed : BOOLEAN,
               verdict : {"open", "closed", "ended"},
               events : Seq(Note), replies : Seq(Note)]

(* A meaning between two frames: a message begun is as long as allowed, and *)
(* compressed only if that was agreed on.                                  *)
Fair(m) ==
    /\ m \in MeaningSet
    /\ m.op = CONTINUATION => m.data = <<>> /\ ~m.compressed
    /\ m.compressed => Negotiated
    /\ Len(m.data) <= MaxPayload

(* What a frame adds to a meaning.                                         *)
Adds(m, r) == Begins(m.events, r.events) /\ Begins(m.replies, r.replies)

(* A sequence begins with itself, and an appended one with what it was.    *)
LEMMA BeginsAppend ==
    ASSUME NEW q \in Seq(Note), NEW x \in Note
    PROVE  Begins(q, q) /\ Append(q, x) \in Seq(Note) /\ Begins(q, Append(q, x))
<1>1. /\ Append(q, x) \in Seq(Note) /\ Len(q) \in Nat /\ Len(Append(q, x)) = Len(q) + 1
      /\ \A i \in 1..Len(q) : Append(q, x)[i] = q[i]
  BY AppendProperties
<1> QED
  BY <1>1 DEF Begins

(* A refused meaning keeps all but the verdict.                            *)
LEMMA RefusedFair ==
    ASSUME NEW m, Fair(m)
    PROVE  /\ Fair(Refused(m)) /\ Adds(m, Refused(m))
           /\ Refused(m).verdict = "closed" /\ Refused(m).events = m.events
           /\ Refused(m).replies = m.replies
<1> DEFINE r == Refused(m)
<1>1. m \in MeaningSet
  BY DEF Fair
<1>2. r = [m EXCEPT !.verdict = "closed"]
  BY DEF Refused
<1> HIDE DEF r
<1>3. /\ r \in MeaningSet /\ r.op = m.op /\ r.data = m.data /\ r.compressed = m.compressed
      /\ r.verdict = "closed" /\ r.events = m.events /\ r.replies = m.replies
  BY <1>1, <1>2 DEF MeaningSet
<1>4. Begins(m.events, m.events) /\ Begins(m.replies, m.replies)
  BY <1>1 DEF MeaningSet, Begins
<1>5. Fair(r) /\ Adds(m, r)
  BY <1>3, <1>4 DEF Fair, Adds
<1> QED
  BY <1>3, <1>5 DEF r

(* A complete message ends what was begun.                                 *)
LEMMA MessageFair ==
    ASSUME NEW m, Fair(m), NEW op \in 1..2, NEW data \in Seq(Byte)
    PROVE  LET r == Message(m, op, data)
           IN  /\ Fair(r) /\ Adds(m, r)
               /\ op = TEXT /\ ~WellFormed(data) => r = Refused(m)
               /\ ~(op = TEXT /\ ~WellFormed(data)) =>
                     /\ r.op = CONTINUATION /\ r.data = <<>> /\ r.compressed = FALSE
                     /\ r.verdict = m.verdict /\ r.replies = m.replies
                     /\ r.events = Append(m.events, [op |-> op, data |-> data])
<1> DEFINE r == Message(m, op, data)
           note == [op |-> op, data |-> data]
<1>1. m \in MeaningSet
  BY DEF Fair
<1>2. CASE op = TEXT /\ ~WellFormed(data)
  <2>1. r = Refused(m)
    BY <1>2 DEF Message
  <2> HIDE DEF r
  <2>2. Fair(r) /\ Adds(m, r)
    BY <2>1, RefusedFair
  <2> QED
    BY <1>2, <2>1, <2>2 DEF r
<1>3. CASE ~(op = TEXT /\ ~WellFormed(data))
  <2>1. note \in Note
    BY DEF Note
  <2>2. r = [m EXCEPT !.events = Append(m.events, note),
                      !.op = CONTINUATION, !.data = <<>>, !.compressed = FALSE]
    BY <1>3 DEF Message
  <2> HIDE DEF r, note
  <2> DEFINE ev == Append(m.events, note)
  <2>3. ev \in Seq(Note) /\ Begins(m.events, ev) /\ Begins(m.replies, m.replies)
    BY <1>1, <2>1, BeginsAppend DEF MeaningSet
  <2>4. <<>> \in Seq(Byte) /\ Len(<<>>) = 0 /\ MaxPayload \in Nat
    BY EmptySeq, SizeAssumption
  <2>5. m = [op |-> m.op, data |-> m.data, compressed |-> m.compressed,
             verdict |-> m.verdict, events |-> m.events, replies |-> m.replies]
    BY <1>1 DEF MeaningSet
  <2>6. r = [op |-> 0, data |-> <<>>, compressed |-> FALSE,
             verdict |-> m.verdict, events |-> ev, replies |-> m.replies]
    BY <2>2, <2>5 DEF CONTINUATION
  <2> HIDE DEF ev
  <2>7. r \in MeaningSet
    BY <1>1, <2>3, <2>4, <2>6 DEF MeaningSet
  <2>8. Fair(r) /\ Adds(m, r)
    BY <2>3, <2>4, <2>6, <2>7 DEF Fair, Adds
  <2>9. r.op = CONTINUATION /\ r.data = <<>> /\ r.compressed = FALSE
        /\ r.verdict = m.verdict /\ r.replies = m.replies /\ r.events = ev
    BY <2>6 DEF CONTINUATION
  <2> QED
    BY <1>3, <2>8, <2>9 DEF r, ev, note
<1> QED
  BY <1>2, <1>3

-----------------------------------------------------------------------------
(* The callbacks, one by one.                                              *)

(* The fields of a connection.                                             *)
Shape(c) ==
    c = [wantsHead |-> c.wantsHead, spill |-> c.spill, opStack |-> c.opStack,
         lastFin |-> c.lastFin, remaining |-> c.remaining, mask |-> c.mask,
         fragment |-> c.fragment, tip |-> c.tip, compression |-> c.compression,
         state |-> c.state, events |-> c.events, replies |-> c.replies]

(* What no callback touches, and what only the handling of fragments does. *)
Keeps(c, r) ==
    /\ Shape(r)
    /\ r.wantsHead = c.wantsHead /\ r.spill = c.spill /\ r.opStack = c.opStack
    /\ r.lastFin = c.lastFin /\ r.remaining = c.remaining /\ r.mask = c.mask
Handled(c, r) == Keeps(c, r) /\ r.fragment = c.fragment /\ r.tip = c.tip
Silent(c, r) == r.events = c.events /\ r.replies = c.replies

(* ForceClose changes the state and nothing else.                          *)
LEMMA Closes ==
    ASSUME NEW c, Shape(c)
    PROVE  /\ Handled(c, ForceClose(c)) /\ Silent(c, ForceClose(c))
           /\ ForceClose(c).state = "closed" /\ ForceClose(c).compression = c.compression
BY DEF ForceClose, Shape, Handled, Keeps, Silent

(* A message is delivered, or text that is not UTF-8 closes.               *)
LEMMA Emits ==
    ASSUME NEW c, Shape(c), NEW data, NEW op, NEW app
    PROVE  LET r == EmitMessage(c, data, op, app)
           IN  /\ Handled(c, r) /\ r.replies = c.replies /\ r.compression = c.compression
               /\ op = TEXT /\ ~IsValidUtf8(data) => r.state = "closed" /\ r.events = c.events
               /\ ~(op = TEXT /\ ~IsValidUtf8(data)) =>
                     /\ r.state = app
                     /\ r.events = Append(c.events, [op |-> op, data |-> data])
<1> DEFINE r == EmitMessage(c, data, op, app)
           note == [op |-> op, data |-> data]
<1>1. CASE op = TEXT /\ ~IsValidUtf8(data)
  <2>1. r = ForceClose(c)
    BY <1>1 DEF EmitMessage
  <2> HIDE DEF r
  <2>2. Handled(c, r) /\ Silent(c, r) /\ r.state = "closed" /\ r.compression = c.compression
    BY <2>1, Closes
  <2> QED
    BY <1>1, <2>2 DEF r, Silent
<1>2. CASE ~(op = TEXT /\ ~IsValidUtf8(data))
  <2> DEFINE ev == Append(c.events, note)
  <2>1. r = [c EXCEPT !.events = ev, !.state = app]
    BY <1>2 DEF EmitMessage
  <2> HIDE DEF r, ev
  <2>2. /\ Handled(c, r) /\ r.replies = c.replies /\ r.compression = c.compression
        /\ r.state = app /\ r.events = ev
    BY <2>1 DEF Shape, Handled, Keeps
  <2> QED
    BY <1>2, <2>2 DEF r, ev
<1> QED
  BY <1>1, <1>2

(* A control frame is answered and delivered.                              *)
LEMMA Controls ==
    ASSUME NEW c, Shape(c), NEW data, NEW op, NEW app
    PROVE  LET r == HandleControl(c, data, op, app)
               cf == ParseClosePayload(data)
           IN  /\ Handled(c, r) /\ r.compression = c.compression
               /\ op = CLOSE =>
                     /\ r.state = "ended" /\ r.events = c.events
                     /\ r.replies = Append(c.replies,
                           [op |-> CLOSE, data |-> FormatClosePayload(cf.code, cf.message)])
               /\ op # CLOSE =>
                     /\ r.state = app
                     /\ r.events = Append(c.events, [op |-> op, data |-> data])
                     /\ r.replies = IF op = PING
                                    THEN Append(c.replies, [op |-> PONG, data |-> data])
                                    ELSE c.replies
<1> DEFINE r == HandleControl(c, data, op, app)
           cf == ParseClosePayload(data)
<1>1. CASE op = CLOSE
  <2> DEFINE note == [op |-> CLOSE, data |-> FormatClosePayload(cf.code, cf.message)]
             re == Append(c.replies, note)
  <2>1. r = [c EXCEPT !.state = "ended", !.replies = re]
    BY <1>1 DEF HandleControl
  <2> HIDE DEF r, re
  <2>2. /\ Handled(c, r) /\ r.compression = c.compression
        /\ r.state = "ended" /\ r.events = c.events /\ r.replies = re
    BY <2>1 DEF Shape, Handled, Keeps
  <2> QED
    BY <1>1, <2>2 DEF r, re
<1>2. CASE op # CLOSE
  <2> DEFINE pong == Append(c.replies, [op |-> PONG, data |-> data])
             re == IF op = PING THEN pong ELSE c.replies
             ev == Append(c.events, [op |-> op, data |-> data])
             c1 == IF op = PING THEN [c EXCEPT !.replies = pong] ELSE c
  <2>1. r = [c1 EXCEPT !.events = Append(c1.events, [op |-> op, data |-> data]), !.state = app]
    BY <1>2 DEF HandleControl
  <2>2. Handled(c, c1) /\ c1.compression = c.compression /\ c1.events = c.events /\ c1.replies = re
    <3> HIDE DEF pong
    <3> QED
      BY DEF Shape, Handled, Keeps
  <2> HIDE DEF c1, re
  <2>3. r = [c1 EXCEPT !.events = ev, !.state = app]
    BY <2>1, <2>2
  <2> HIDE DEF r, ev
  <2>4. /\ Handled(c1, r) /\ r.compression = c1.compression
        /\ r.state = app /\ r.events = ev /\ r.replies = c1.replies
    BY <2>2, <2>3 DEF Shape, Handled, Keeps
  <2>5. Handled(c, r)
    BY <2>2, <2>4 DEF Handled, Keeps
  <2> QED
    BY <1>2, <2>2, <2>4, <2>5 DEF r, ev, re
<1> QED
  BY <1>1, <1>2

(* A complete message is inflated first if it is compressed.               *)
LEMMA Messages ==
    ASSUME NEW c, Shape(c), NEW data, NEW op, NEW app
    PROVE  LET r == HandleMessage(c, data, op, app)
               inflated == Inflate(data)
               packed == c.compression = "compressed"
               text == IF packed THEN inflated[2] ELSE data
               bad == \/ packed /\ ~inflated[1]
                      \/ op = TEXT /\ ~IsValidUtf8(text)
           IN  /\ Handled(c, r) /\ r.replies = c.replies
               /\ r.compression = IF packed THEN "enabled" ELSE c.compression
               /\ bad => r.state = "closed" /\ r.events = c.events
               /\ ~bad => r.state = app /\ r.events = Append(c.events, [op |-> op, data |-> text])
<1> DEFINE r == HandleMessage(c, data, op, app)
           inflated == Inflate(data)
           c1 == [c EXCEPT !.compression = "enabled"]
<1>1. CASE c.compression # "compressed"
  <2>1. r = EmitMessage(c, data, op, app)
    BY <1>1 DEF HandleMessage
  <2> HIDE DEF r
  <2> QED
    BY <1>1, <2>1, Emits DEF r
<1>2. CASE c.compression = "compressed"
  <2>1. /\ Handled(c, c1) /\ Silent(c, c1) /\ c1.compression = "enabled" /\ Shape(c1)
    BY DEF Shape, Handled, Keeps, Silent
  <2>2. r = IF inflated[1] THEN EmitMessage(c1, inflated[2], op, app) ELSE ForceClose(c1)
    BY <1>2 DEF HandleMessage
  <2> HIDE DEF r, c1
  <2>3. CASE inflated[1]
    <3>1. r = EmitMessage(c1, inflated[2], op, app)
      BY <2>2, <2>3
    <3> HIDE DEF inflated
    <3>2. /\ Handled(c1, r) /\ r.replies = c1.replies /\ r.compression = c1.compression
          /\ op = TEXT /\ ~IsValidUtf8(inflated[2]) => r.state = "closed" /\ r.events = c1.events
          /\ ~(op = TEXT /\ ~IsValidUtf8(inflated[2])) =>
                r.state = app /\ r.events = Append(c1.events, [op |-> op, data |-> inflated[2]])
      BY <2>1, <3>1, Emits
    <3>3. Handled(c, r)
      BY <2>1, <3>2 DEF Handled, Keeps
    <3> QED
      BY <1>2, <2>1, <2>3, <3>2, <3>3 DEF r, Silent, inflated
  <2>4. CASE ~inflated[1]
    <3>1. r = ForceClose(c1)
      BY <2>2, <2>4
    <3>2. Handled(c1, r) /\ Silent(c1, r) /\ r.state = "closed" /\ r.compression = c1.compression
      BY <2>1, <3>1, Closes
    <3>3. Handled(c, r)
      BY <2>1, <3>2 DEF Handled, Keeps
    <3> QED
      BY <1>2, <2>1, <2>4, <3>2, <3>3 DEF r, Silent
  <2> QED
    BY <2>3, <2>4
<1> QED
  BY <1>1, <1>2

-----------------------------------------------------------------------------
(* The handling of fragments.                                              *)

(* The parts of a concatenation.                                           *)
LEMMA Parts ==
    ASSUME NEW S, NEW a \in Seq(S), NEW b \in Seq(S)
    PROVE  /\ a \o b \in Seq(S) /\ Len(a \o b) = Len(a) + Len(b)
           /\ Len(a) \in Nat /\ Len(b) \in Nat
           /\ SubSeq(a \o b, Len(a) + 1, Len(a \o b)) = b
           /\ \A n \in 0..Len(a) : SubSeq(a \o b, 1, n) = SubSeq(a, 1, n)
<1> DEFINE q == a \o b
           m == Len(a)
           n == Len(b)
<1>1. m \in Nat /\ n \in Nat
  BY LenProperties
<1>2. /\ q \in Seq(S) /\ Len(q) = m + n
      /\ \A i \in 1..m + n : q[i] = IF i <= m THEN a[i] ELSE b[i - m]
  BY ConcatProperties
<1>3. (\A i \in 1..m + n : q[i] \in S) /\ (\A i \in 1..m : a[i] \in S)
  BY <1>2, ElementOfSeq
<1>4. SubSeq(q, m + 1, m + n) = b
  <2> HIDE DEF q, m, n
  <2> DEFINE t == SubSeq(q, m + 1, m + n)
  <2>1. \A i \in (m + 1)..(m + n) : q[i] \in S
    BY <1>1, <1>3
  <2>2. /\ t \in Seq(S)
        /\ Len(t) = IF m + 1 <= m + n THEN m + n - (m + 1) + 1 ELSE 0
        /\ \A i \in 1..(m + n - (m + 1) + 1) : t[i] = q[m + 1 + i - 1]
    BY <1>1, <2>1, SubSeqProperties
  <2> HIDE DEF t
  <2>3. Len(t) = n
    BY <1>1, <2>2
  <2>4. ASSUME NEW i \in 1..n PROVE t[i] = b[i]
    <3>1. i \in 1..(m + n - (m + 1) + 1) /\ m + 1 + i - 1 = m + i
      BY <1>1
    <3>2. m + i \in 1..m + n /\ ~(m + i <= m) /\ m + i - m = i
      BY <1>1
    <3>3. t[i] = q[m + i]
      BY <2>2, <3>1
    <3> DEFINE j == m + i
    <3>4. j \in 1..m + n /\ ~(j <= m) /\ j - m = i
      BY <1>1, <3>2
    <3> HIDE DEF j
    <3>5. q[j] = b[i]
      BY <1>2, <3>4
    <3> QED
      BY <3>3, <3>5 DEF j
  <2>5. t = b
    <3>1. Len(t) = Len(b) /\ \A i \in 1..Len(t) : t[i] = b[i]
      BY <2>3, <2>4 DEF n
    <3> QED
      BY <2>2, <3>1, SeqEqual
  <2> QED
    BY <2>5 DEF t
<1>5. ASSUME NEW k \in 0..m PROVE SubSeq(q, 1, k) = SubSeq(a, 1, k)
  <2> HIDE DEF q, m, n
  <2>0. k \in Int
    BY <1>1
  <2>1. \A i \in 1..k : q[i] = a[i] /\ q[i] \in S /\ a[i] \in S
    BY <1>1, <1>2, <1>3
  <2>2. /\ SubSeq(q, 1, k) \in Seq(S) /\ Len(SubSeq(q, 1, k)) = (IF 1 <= k THEN k - 1 + 1 ELSE 0)
        /\ \A i \in 1..(k - 1 + 1) : SubSeq(q, 1, k)[i] = q[1 + i - 1]
    BY <2>0, <2>1, SubSeqProperties
  <2>3. /\ SubSeq(a, 1, k) \in Seq(S) /\ Len(SubSeq(a, 1, k)) = (IF 1 <= k THEN k - 1 + 1 ELSE 0)
        /\ \A i \in 1..(k - 1 + 1) : SubSeq(a, 1, k)[i] = a[1 + i - 1]
    BY <2>0, <2>1, SubSeqProperties
  <2> DEFINE x == SubSeq(q, 1, k)
             y == SubSeq(a, 1, k)
  <2> HIDE DEF x, y
  <2>4. Len(x) = k /\ Len(y) = k
    BY <1>1, <2>2, <2>3 DEF x, y
  <2>5. ASSUME NEW i \in 1..k PROVE x[i] = y[i]
    <3>1. i \in 1..(k - 1 + 1) /\ 1 + i - 1 = i
      BY <1>1
    <3> QED
      BY <2>1, <2>2, <2>3, <3>1 DEF x, y
  <2>6. x = y
    <3>1. x \in Seq(S) /\ y \in Seq(S) /\ Len(x) = Len(y) /\ \A i \in 1..Len(x) : x[i] = y[i]
      BY <2>2, <2>3, <2>4, <2>5 DEF x, y
    <3> QED
      BY <3>1, SeqEqual
  <2> QED
    BY <2>6 DEF x, y
<1> QED
  BY <1>1, <1>2, <1>4, <1>5

(* What handleFragment adds to the buffer, of a message or of a control    *)
(* frame, and what it leaves alone.                                        *)
LEMMA Appends ==
    ASSUME NEW c, Shape(c), NEW data
    PROVE  LET a == Appended(c, data)
               t == AppendedTip(c, data)
           IN  /\ Keeps(c, a) /\ Silent(c, a) /\ a.fragment = c.fragment \o data /\ a.tip = c.tip
               /\ a.state = c.state /\ a.compression = c.compression
               /\ Keeps(c, t) /\ Silent(c, t) /\ t.fragment = c.fragment \o data
               /\ t.tip = c.tip + Len(data) /\ t.state = c.state /\ t.compression = c.compression
<1> DEFINE a == Appended(c, data)
           t == AppendedTip(c, data)
           full == c.fragment \o data
<1>1. a = [c EXCEPT !.fragment = full]
  BY DEF Appended
<1>2. t = [a EXCEPT !.tip = a.tip + Len(data)]
  BY DEF AppendedTip
<1> HIDE DEF a, t, full
<1>3. /\ Keeps(c, a) /\ Silent(c, a) /\ a.fragment = full /\ a.tip = c.tip
      /\ a.state = c.state /\ a.compression = c.compression
  BY <1>1 DEF Shape, Keeps, Silent
<1>4. /\ Keeps(a, t) /\ Silent(a, t) /\ t.fragment = a.fragment /\ t.tip = a.tip + Len(data)
      /\ t.state = a.state /\ t.compression = a.compression
  BY <1>2, <1>3 DEF Shape, Keeps, Silent
<1>5. Keeps(c, t) /\ Silent(c, t)
  BY <1>3, <1>4 DEF Keeps, Silent
<1> QED
  BY <1>3, <1>4, <1>5 DEF a, t, full

(* A piece that does not complete a message is kept, or closes when what   *)
(* is kept would be too long.                                              *)
LEMMA Grows ==
    ASSUME NEW c, Shape(c), NEW S, c.fragment \in Seq(S), NEW data \in Seq(S),
           NEW remaining, NEW op, NEW fin, NEW app, ~(remaining = 0 /\ fin)
    PROVE  LET r == HandleFragment(c, data, remaining, op, fin, app)
               full == c.fragment \o data
               long == op < 3 /\ Len(full) > MaxPayload
           IN  /\ Keeps(c, r) /\ Silent(c, r) /\ r.compression = c.compression
               /\ long => r.state = "closed" /\ r.fragment = c.fragment /\ r.tip = c.tip
               /\ ~long => /\ r.state = c.state /\ r.fragment = full
                           /\ r.tip = IF op < 3 THEN c.tip ELSE c.tip + Len(data)
<1> DEFINE r == HandleFragment(c, data, remaining, op, fin, app)
           full == c.fragment \o data
<1>1. Len(full) = Len(c.fragment) + Len(data) /\ Len(data) \in Nat /\ Len(c.fragment) \in Nat
  BY Parts
<1>2. RefusePayloadLength(Len(data) + Len(c.fragment)) <=> Len(full) > MaxPayload
  <2> HIDE DEF full
  <2> QED
    BY <1>1, SizeAssumption DEF RefusePayloadLength
<1>3. r = IF op < 3
          THEN IF RefusePayloadLength(Len(data) + Len(c.fragment)) THEN ForceClose(c)
               ELSE Appended(c, data)
          ELSE AppendedTip(c, data)
  BY DEF HandleFragment
<1> HIDE DEF r
<1>4. CASE op < 3 /\ Len(full) > MaxPayload
  <2>1. r = ForceClose(c)
    BY <1>2, <1>3, <1>4
  <2>2. Handled(c, r) /\ Silent(c, r) /\ r.state = "closed" /\ r.compression = c.compression
    BY <2>1, Closes
  <2> QED
    BY <1>4, <2>2 DEF r, Handled
<1>5. CASE op < 3 /\ ~(Len(full) > MaxPayload)
  <2>1. r = Appended(c, data)
    BY <1>2, <1>3, <1>5
  <2>2. /\ Keeps(c, r) /\ Silent(c, r) /\ r.fragment = full /\ r.tip = c.tip
        /\ r.state = c.state /\ r.compression = c.compression
    BY <2>1, Appends
  <2> QED
    BY <1>5, <2>2 DEF r
<1>6. CASE ~(op < 3)
  <2>1. r = AppendedTip(c, data)
    BY <1>3, <1>6
  <2>2. /\ Keeps(c, r) /\ Silent(c, r) /\ r.fragment = full /\ r.tip = c.tip + Len(data)
        /\ r.state = c.state /\ r.compression = c.compression
    BY <2>1, Appends
  <2> QED
    BY <1>6, <2>2 DEF r
<1> QED
  BY <1>4, <1>5, <1>6

(* A piece that completes a message: the message is what was kept and the  *)
(* piece.                                                                  *)
AsMessage(c, r, data, op, app) ==
    LET full == c.fragment \o data
        long == c.fragment # <<>> /\ Len(full) > MaxPayload
        packed == c.compression = "compressed"
        text == IF packed THEN Inflate(full)[2] ELSE full
        bad == \/ packed /\ ~Inflate(full)[1]
               \/ op = TEXT /\ ~IsValidUtf8(text)
    IN  /\ Keeps(c, r) /\ r.replies = c.replies /\ r.tip = c.tip
        /\ long => r.state = "closed" /\ r.events = c.events /\ r.fragment = c.fragment
        /\ ~long =>
              /\ r.compression = IF packed THEN "enabled" ELSE c.compression
              /\ bad => r.state = "closed" /\ r.events = c.events
              /\ ~bad => /\ r.state = app
                         /\ r.events = Append(c.events, [op |-> op, data |-> text])
              /\ r.state = "open" => r.fragment = <<>>
              /\ \/ r.fragment \in {<<>>, c.fragment}
                 \/ r.fragment = full /\ ~(Len(full) > MaxPayload)

(* The last fragment of a message in handleFragment, with what was kept of *)
(* the message before it.                                                  *)
LEMMA WholeMessage ==
    ASSUME NEW c, Shape(c), c.state = "open", NEW S, c.fragment \in Seq(S),
           NEW data \in Seq(S), NEW op, op < 3, NEW app
    PROVE  AsMessage(c, HandleFragment(c, data, 0, op, TRUE, app), data, op, app)
<1> DEFINE r == HandleFragment(c, data, 0, op, TRUE, app)
           full == c.fragment \o data
           packed == c.compression = "compressed"
           text == IF packed THEN Inflate(full)[2] ELSE full
           bad == \/ packed /\ ~Inflate(full)[1]
                  \/ op = TEXT /\ ~IsValidUtf8(text)
<1>1. Len(full) = Len(c.fragment) + Len(data) /\ Len(data) \in Nat /\ Len(c.fragment) \in Nat
  BY Parts
<1>2. RefusePayloadLength(Len(data) + Len(c.fragment)) <=> Len(full) > MaxPayload
  <2> HIDE DEF full
  <2> QED
    BY <1>1, SizeAssumption DEF RefusePayloadLength
<1>3. r = IF c.fragment = <<>> THEN HandleMessage(c, data, op, app)
          ELSE IF RefusePayloadLength(Len(data) + Len(c.fragment)) THEN ForceClose(c)
          ELSE ClearFragment(HandleMessage(Appended(c, data), full, op, app))
  BY DEF HandleFragment
<1> HIDE DEF r
<1>4. CASE c.fragment = <<>>
  <2>1. full = data
    <3>1. <<>> \o data = data
      BY ConcatEmptySeq
    <3> QED
      BY <1>4, <3>1
  <2>2. r = HandleMessage(c, full, op, app)
    BY <1>3, <1>4, <2>1
  <2> HIDE DEF full
  <2>3. /\ Handled(c, r) /\ r.replies = c.replies
        /\ r.compression = IF packed THEN "enabled" ELSE c.compression
        /\ bad => r.state = "closed" /\ r.events = c.events
        /\ ~bad => r.state = app /\ r.events = Append(c.events, [op |-> op, data |-> text])
    BY <2>2, Messages
  <2> HIDE DEF bad, text
  <2>4. Keeps(c, r) /\ r.tip = c.tip /\ r.fragment = <<>>
    BY <1>4, <2>3 DEF Handled
  <2> QED
    BY <1>4, <2>3, <2>4 DEF r, full, bad, text, AsMessage
<1>5. CASE c.fragment # <<>> /\ Len(full) > MaxPayload
  <2>1. r = ForceClose(c)
    BY <1>2, <1>3, <1>5
  <2>2. Handled(c, r) /\ Silent(c, r) /\ r.state = "closed"
    BY <2>1, Closes
  <2> QED
    BY <1>5, <2>2 DEF r, Handled, Silent, AsMessage
<1>6. CASE c.fragment # <<>> /\ ~(Len(full) > MaxPayload)
  <2> DEFINE a == Appended(c, data)
             h == HandleMessage(a, full, op, app)
  <2>1. r = ClearFragment(h)
    BY <1>2, <1>3, <1>6
  <2>2. /\ Keeps(c, a) /\ Silent(c, a) /\ a.fragment = full /\ a.tip = c.tip
        /\ a.state = c.state /\ a.compression = c.compression /\ Shape(a)
    <3>1. /\ Keeps(c, a) /\ Silent(c, a) /\ a.fragment = full /\ a.tip = c.tip
          /\ a.state = c.state /\ a.compression = c.compression
      BY Appends
    <3> QED
      BY <3>1 DEF Keeps
  <2> HIDE DEF a, full
  <2> DEFINE packed1 == a.compression = "compressed"
             text1 == IF packed1 THEN Inflate(full)[2] ELSE full
             bad1 == \/ packed1 /\ ~Inflate(full)[1]
                     \/ op = TEXT /\ ~IsValidUtf8(text1)
  <2>3. /\ Handled(a, h) /\ h.replies = a.replies
        /\ h.compression = IF packed1 THEN "enabled" ELSE a.compression
        /\ bad1 => h.state = "closed" /\ h.events = a.events
        /\ ~bad1 => h.state = app /\ h.events = Append(a.events, [op |-> op, data |-> text1])
    BY <2>2, Messages
  <2>4. packed1 = packed
    BY <2>2
  <2>5. text1 = text
    BY <2>4
  <2>6. bad1 = bad
    BY <2>4, <2>5
  <2> HIDE DEF packed1, text1, bad1, packed, text, bad, h
  <2>7. /\ Handled(a, h) /\ h.replies = c.replies
        /\ h.compression = IF packed THEN "enabled" ELSE c.compression
        /\ bad => h.state = "closed" /\ h.events = c.events
        /\ ~bad => h.state = app /\ h.events = Append(c.events, [op |-> op, data |-> text])
    BY <2>2, <2>3, <2>4, <2>5, <2>6 DEF Silent
  <2>8. Keeps(c, h) /\ h.tip = c.tip /\ h.fragment = full
    BY <2>2, <2>7 DEF Handled, Keeps
  <2>9. r = IF h.state = "open" THEN [h EXCEPT !.fragment = <<>>] ELSE h
    BY <2>1 DEF ClearFragment
  <2>10. /\ Keeps(c, r) /\ r.tip = c.tip /\ r.replies = h.replies /\ r.events = h.events
         /\ r.state = h.state /\ r.compression = h.compression
         /\ r.fragment = IF h.state = "open" THEN <<>> ELSE full
    BY <2>8, <2>9 DEF Keeps, Shape
  <2> QED
    BY <1>6, <2>7, <2>10 DEF r, full, packed, text, bad, AsMessage
<1> QED
  BY <1>4, <1>5, <1>6

(* A piece that completes a control frame: its payload is the tip of what  *)
(* was kept and the piece, and the tip is dropped behind it.               *)
AsControl(c, r, data, op, app) ==
    LET full == c.fragment \o data
        payload == SubSeq(full, Len(c.fragment) - c.tip + 1, Len(full))
        cf == ParseClosePayload(payload)
    IN  /\ Keeps(c, r) /\ r.compression = c.compression
        /\ op = CLOSE =>
              /\ r.state = "ended" /\ r.events = c.events
              /\ r.replies = Append(c.replies,
                    [op |-> CLOSE, data |-> FormatClosePayload(cf.code, cf.message)])
        /\ op # CLOSE =>
              /\ r.state = app
              /\ r.events = Append(c.events, [op |-> op, data |-> payload])
              /\ r.replies = IF op = PING
                             THEN Append(c.replies, [op |-> PONG, data |-> payload])
                             ELSE c.replies
        /\ \/ r.tip = 0 /\ r.fragment = SubSeq(c.fragment, 1, Len(c.fragment) - c.tip)
           \/ r.state # "open" /\ r.tip = c.tip + Len(data) /\ r.fragment = full

(* The last piece of a control frame in handleFragment, with what was kept *)
(* of the frame before it.                                                 *)
LEMMA WholeControl ==
    ASSUME NEW c, Shape(c), c.state = "open", NEW S, c.fragment \in Seq(S),
           NEW data \in Seq(S), c.tip \in 0..Len(c.fragment), NEW op, ~(op < 3), NEW app
    PROVE  AsControl(c, HandleFragment(c, data, 0, op, TRUE, app), data, op, app)
<1> DEFINE r == HandleFragment(c, data, 0, op, TRUE, app)
           full == c.fragment \o data
           payload == SubSeq(full, Len(c.fragment) - c.tip + 1, Len(full))
           cf == ParseClosePayload(payload)
           closing == [op |-> CLOSE, data |-> FormatClosePayload(cf.code, cf.message)]
           said == IF op = PING THEN Append(c.replies, [op |-> PONG, data |-> payload])
                   ELSE c.replies
           heard == Append(c.events, [op |-> op, data |-> payload])
<1>1. /\ Len(full) = Len(c.fragment) + Len(data) /\ Len(data) \in Nat /\ Len(c.fragment) \in Nat
      /\ SubSeq(full, Len(c.fragment) + 1, Len(full)) = data
      /\ \A n \in 0..Len(c.fragment) : SubSeq(full, 1, n) = SubSeq(c.fragment, 1, n)
  <2> DEFINE g == c.fragment
  <2>1. g \in Seq(S)
    OBVIOUS
  <2> HIDE DEF g
  <2>2. /\ Len(g \o data) = Len(g) + Len(data) /\ Len(data) \in Nat /\ Len(g) \in Nat
        /\ SubSeq(g \o data, Len(g) + 1, Len(g \o data)) = data
        /\ \A n \in 0..Len(g) : SubSeq(g \o data, 1, n) = SubSeq(g, 1, n)
    BY <2>1, Parts
  <2> QED
    BY <2>2 DEF g
<1>2. r = IF c.tip = 0 THEN HandleControl(c, data, op, app)
          ELSE DropTip(HandleControl(AppendedTip(c, data), Tip(AppendedTip(c, data)), op, app))
  BY DEF HandleFragment
<1> HIDE DEF r, full
<1>3. CASE c.tip = 0
  <2>1. payload = data
    <3>1. Len(c.fragment) - c.tip + 1 = Len(c.fragment) + 1
      BY <1>1, <1>3
    <3> QED
      BY <1>1, <3>1
  <2>2. r = HandleControl(c, payload, op, app)
    BY <1>2, <1>3, <2>1
  <2> HIDE DEF payload
  <2>3. /\ Handled(c, r) /\ r.compression = c.compression
        /\ op = CLOSE => /\ r.state = "ended" /\ r.events = c.events
                         /\ r.replies = Append(c.replies, closing)
        /\ op # CLOSE => r.state = app /\ r.events = heard /\ r.replies = said
    BY <2>2, Controls
  <2> HIDE DEF heard, said, closing
  <2>4. Keeps(c, r) /\ r.tip = 0 /\ r.fragment = c.fragment
    BY <1>3, <2>3 DEF Handled
  <2>5. SubSeq(c.fragment, 1, Len(c.fragment) - c.tip) = c.fragment
    <3>1. SubSeq(c.fragment, 1, Len(c.fragment)) = c.fragment
      BY SubSeqFull
    <3>2. Len(c.fragment) - c.tip = Len(c.fragment)
      BY <1>1, <1>3
    <3> QED
      BY <3>1, <3>2
  <2> QED
    BY <2>3, <2>4, <2>5 DEF r, payload, full, heard, said, closing, AsControl
<1>4. CASE c.tip # 0
  <2> DEFINE t == AppendedTip(c, data)
             h == HandleControl(t, payload, op, app)
  <2>1. /\ Keeps(c, t) /\ Silent(c, t) /\ t.fragment = full /\ t.tip = c.tip + Len(data)
        /\ t.compression = c.compression /\ Shape(t)
    <3>1. /\ Keeps(c, t) /\ Silent(c, t) /\ t.fragment = c.fragment \o data
          /\ t.tip = c.tip + Len(data) /\ t.compression = c.compression
      BY Appends
    <3> QED
      BY <3>1 DEF Keeps, full
  <2> HIDE DEF t
  <2>2. Len(full) - t.tip = Len(c.fragment) - c.tip
    BY <1>1, <2>1
  <2>3. Tip(t) = payload
    BY <2>1, <2>2 DEF Tip
  <2>4. r = DropTip(h)
    BY <1>2, <1>4, <2>3 DEF t
  <2> HIDE DEF payload
  <2> DEFINE said1 == IF op = PING THEN Append(t.replies, [op |-> PONG, data |-> payload])
                      ELSE t.replies
             heard1 == Append(t.events, [op |-> op, data |-> payload])
  <2>5. /\ Handled(t, h) /\ h.compression = t.compression
        /\ op = CLOSE => /\ h.state = "ended" /\ h.events = t.events
                         /\ h.replies = Append(t.replies, closing)
        /\ op # CLOSE => h.state = app /\ h.events = heard1 /\ h.replies = said1
    BY <2>1, Controls
  <2>6. heard1 = heard /\ said1 = said /\ t.replies = c.replies /\ t.events = c.events
    BY <2>1 DEF Silent
  <2> HIDE DEF heard, said, closing, heard1, said1, h
  <2>7. /\ h.compression = c.compression
        /\ op = CLOSE => /\ h.state = "ended" /\ h.events = c.events
                         /\ h.replies = Append(c.replies, closing)
        /\ op # CLOSE => h.state = app /\ h.events = heard /\ h.replies = said
    BY <2>1, <2>5, <2>6
  <2>8. Keeps(c, h) /\ h.tip = c.tip + Len(data) /\ h.fragment = full
    BY <2>1, <2>5 DEF Handled, Keeps
  <2> DEFINE rest == SubSeq(full, 1, Len(full) - t.tip)
  <2>9. rest = SubSeq(c.fragment, 1, Len(c.fragment) - c.tip)
    <3>1. Len(c.fragment) - c.tip \in 0..Len(c.fragment)
      BY <1>1
    <3> QED
      BY <1>1, <2>2, <3>1
  <2>10. r = IF h.state = "open" THEN [h EXCEPT !.fragment = rest, !.tip = 0] ELSE h
    BY <2>1, <2>4, <2>8 DEF DropTip
  <2> HIDE DEF rest
  <2>11. /\ Keeps(c, r) /\ r.replies = h.replies /\ r.events = h.events
         /\ r.state = h.state /\ r.compression = h.compression
         /\ h.state = "open" => r.tip = 0 /\ r.fragment = rest
         /\ h.state # "open" => r.tip = h.tip /\ r.fragment = full
    BY <2>8, <2>10 DEF Keeps, Shape
  <2> QED
    BY <2>7, <2>8, <2>9, <2>11 DEF r, payload, full, heard, said, closing, AsControl
<1> QED
  BY <1>3, <1>4

-----------------------------------------------------------------------------
(* What is buffered, for any stream at all.                                *)

(* A payload byte, or one that was unmasked wrongly.                       *)
Octet == Byte \union {Garbled}
Ops == 1..2

(* The buffer is as small as it should be.                                 *)
Small(c) ==
    /\ Shape(c) /\ c.fragment \in Seq(Octet) /\ c.tip \in 0..Len(c.fragment)
    /\ Len(c.fragment) - c.tip <= MaxPayload /\ c.tip <= MaxShort

(* Between two frames, and in one of which n bytes are to come.            *)
Waits(c) == c.tip = 0 /\ c.opStack \in Seq(Ops)
Reads(c, n, fin) ==
    \/ Top(c) < 3 /\ c.opStack \in Seq(Ops) /\ c.opStack # <<>> /\ c.tip = 0
    \/ ~(Top(c) < 3) /\ Front(c.opStack) \in Seq(Ops) /\ c.tip + n <= MaxShort /\ fin = TRUE

(* The stack without what was pushed on it last.                           *)
LEMMA Fronts ==
    ASSUME NEW S, NEW s \in Seq(S)
    PROVE  /\ \A x : Front(Append(s, x)) = s /\ Append(s, x)[Len(Append(s, x))] = x
           /\ s # <<>> => Front(s) \in Seq(S) /\ s[Len(s)] \in S
<1>1. Len(s) \in Nat /\ \A i \in 1..Len(s) : s[i] \in S
  BY LenProperties, ElementOfSeq
<1>2. ASSUME NEW x PROVE Front(Append(s, x)) = s /\ Append(s, x)[Len(Append(s, x))] = x
  <2> DEFINE T == S \union {x}
             a == Append(s, x)
  <2>1. s \in Seq(T) /\ x \in T
    BY SeqMonotonic
  <2> HIDE DEF T
  <2>2. a \in Seq(T) /\ Len(a) = Len(s) + 1 /\ (\A i \in 1..Len(s) : a[i] = s[i])
        /\ a[Len(s) + 1] = x
    BY <2>1, AppendProperties
  <2> HIDE DEF a
  <2>3. SubSeq(a, 1, Len(s)) = SubSeq(s, 1, Len(s))
    <3>1. a = s \o <<x>>
      BY <2>1, AppendIsConcat DEF a
    <3>2. <<x>> \in Seq(T)
      BY <2>1
    <3>3. Len(s) \in 0..Len(s)
      BY <1>1
    <3> DEFINE y == <<x>>
    <3> HIDE DEF y
    <3>4. \A n \in 0..Len(s) : SubSeq(s \o y, 1, n) = SubSeq(s, 1, n)
      BY <2>1, <3>2, Parts DEF y
    <3> QED
      BY <3>1, <3>3, <3>4 DEF y
  <2>4. SubSeq(s, 1, Len(s)) = s
    BY SubSeqFull
  <2>5. Len(a) - 1 = Len(s)
    BY <1>1, <2>2
  <2> QED
    BY <2>2, <2>3, <2>4, <2>5 DEF Front, a
<1>3. ASSUME s # <<>> PROVE Front(s) \in Seq(S) /\ s[Len(s)] \in S
  <2>1. Len(s) \in Nat \ {0}
    BY <1>3, EmptySeq
  <2>2. Len(s) - 1 \in Int /\ \A i \in 1..(Len(s) - 1) : s[i] \in S
    BY <1>1, <2>1
  <2>3. SubSeq(s, 1, Len(s) - 1) \in Seq(S)
    BY <2>2, SubSeqProperties
  <2> QED
    BY <1>1, <2>1, <2>3 DEF Front
<1> QED
  BY <1>2, <1>3

(* A piece of a frame keeps the buffer small.                              *)
LEMMA PartSmall ==
    ASSUME NEW c, Small(c), c.state = "open", NEW data \in Seq(Octet), NEW n \in Nat,
           NEW fin, Reads(c, Len(data) + n, fin), NEW app, ~(n = 0 /\ fin)
    PROVE  LET r == HandleFragment(c, data, n, Top(c), fin, app)
           IN  /\ Small(r) /\ Keeps(c, r) /\ r.state \in {"open", "closed"}
               /\ r.state = "open" => Reads(r, n, fin)
<1> DEFINE r == HandleFragment(c, data, n, Top(c), fin, app)
           full == c.fragment \o data
           long == Top(c) < 3 /\ Len(full) > MaxPayload
<1>1. /\ full \in Seq(Octet) /\ Len(full) = Len(c.fragment) + Len(data)
      /\ Len(c.fragment) \in Nat /\ Len(data) \in Nat
  BY Parts DEF Small
<1>2. /\ Keeps(c, r)
      /\ long => r.state = "closed" /\ r.fragment = c.fragment /\ r.tip = c.tip
      /\ ~long => /\ r.state = c.state /\ r.fragment = full
                  /\ r.tip = IF Top(c) < 3 THEN c.tip ELSE c.tip + Len(data)
  BY Grows DEF Small
<1> HIDE DEF r, full
<1>3. MaxPayload \in Nat /\ MaxShort \in Nat
  BY SizeAssumption
<1>4. Shape(r) /\ r.opStack = c.opStack
  BY <1>2 DEF Keeps
<1>5. Top(r) = Top(c) /\ Front(r.opStack) = Front(c.opStack)
  BY <1>4 DEF Top
<1>6. CASE long
  <2>1. Small(r)
    BY <1>2, <1>4, <1>6 DEF Small
  <2> QED
    BY <1>2, <1>6, <2>1 DEF r
<1>7. CASE Top(c) < 3 /\ ~(Len(full) > MaxPayload)
  <2>1. c.tip = 0 /\ c.opStack \in Seq(Ops) /\ c.opStack # <<>>
    BY <1>7 DEF Reads
  <2>2. r.state = "open" /\ r.fragment = full /\ r.tip = 0
    BY <1>2, <1>7, <2>1
  <2>3. Small(r)
    BY <1>1, <1>3, <1>4, <1>7, <2>2 DEF Small
  <2>4. Reads(r, n, fin)
    BY <1>4, <1>5, <1>7, <2>1, <2>2 DEF Reads
  <2> QED
    BY <1>2, <2>2, <2>3, <2>4 DEF r
<1>8. CASE ~(Top(c) < 3)
  <2>1. Front(c.opStack) \in Seq(Ops) /\ c.tip + (Len(data) + n) <= MaxShort /\ fin = TRUE
    BY <1>8 DEF Reads
  <2>2. r.state = "open" /\ r.fragment = full /\ r.tip = c.tip + Len(data)
    BY <1>2, <1>8
  <2>3. c.tip \in 0..Len(c.fragment) /\ Len(c.fragment) - c.tip <= MaxPayload
    BY DEF Small
  <2>4. /\ r.tip \in 0..Len(full) /\ Len(full) - r.tip <= MaxPayload
        /\ r.tip <= MaxShort /\ r.tip + n <= MaxShort
    BY <1>1, <1>3, <2>1, <2>2, <2>3
  <2>5. Small(r)
    BY <1>1, <1>4, <2>2, <2>4 DEF Small
  <2>6. Reads(r, n, fin)
    BY <1>5, <1>8, <2>1, <2>4 DEF Reads
  <2> QED
    BY <1>2, <2>2, <2>5, <2>6 DEF r
<1> QED
  BY <1>6, <1>7, <1>8

(* The last piece of a frame keeps the buffer small, and drops what it     *)
(* completes.                                                              *)
LEMMA WholeSmall ==
    ASSUME NEW c, Small(c), c.state = "open", NEW data \in Seq(Octet),
           NEW fin \in BOOLEAN, Reads(c, Len(data), fin), NEW app
    PROVE  LET r == Popped(HandleFragment(c, data, 0, Top(c), fin, app), fin)
           IN  /\ Small(r) /\ r.wantsHead = c.wantsHead /\ r.spill = c.spill
               /\ r.lastFin = c.lastFin
               /\ r.state = "open" => Waits(r)
<1> DEFINE h == HandleFragment(c, data, 0, Top(c), fin, app)
           r == Popped(h, fin)
           full == c.fragment \o data
<1>1. /\ full \in Seq(Octet) /\ Len(full) = Len(c.fragment) + Len(data)
      /\ Len(c.fragment) \in Nat /\ Len(data) \in Nat
  BY Parts DEF Small
<1>2. MaxPayload \in Nat /\ MaxShort \in Nat
  BY SizeAssumption
<1>3. CASE fin = FALSE
  <2>1. Reads(c, Len(data) + 0, fin)
    <3>1. Len(data) + 0 = Len(data)
      BY <1>1
    <3> QED
      BY <3>1
  <2>2. Small(h) /\ Keeps(c, h) /\ (h.state = "open" => Reads(h, 0, fin))
    BY <1>3, <2>1, PartSmall
  <2>3. r = h
    BY <1>3 DEF Popped
  <2>4. h.state = "open" => Waits(h)
    BY <1>3, <2>2 DEF Reads, Waits
  <2> HIDE DEF r, h
  <2> QED
    BY <2>2, <2>3, <2>4 DEF Keeps, r, h
<1>4. ASSUME fin = TRUE, Keeps(c, h), Small(h), h.state = "open" => h.tip = 0,
             Front(c.opStack) \in Seq(Ops)
      PROVE  Small(r) /\ r.wantsHead = c.wantsHead /\ r.spill = c.spill
             /\ r.lastFin = c.lastFin /\ (r.state = "open" => Waits(r))
  <2>1. r = IF h.state = "open" THEN [h EXCEPT !.opStack = Front(h.opStack)] ELSE h
    BY <1>4 DEF Popped
  <2>2. h.opStack = c.opStack
    BY <1>4 DEF Keeps
  <2> HIDE DEF r, h
  <2> DEFINE front == Front(c.opStack)
  <2>3. r = IF h.state = "open" THEN [h EXCEPT !.opStack = front] ELSE h
    BY <2>1, <2>2
  <2> HIDE DEF front
  <2>4. /\ Shape(r) /\ r.fragment = h.fragment /\ r.tip = h.tip /\ r.state = h.state
        /\ r.wantsHead = h.wantsHead /\ r.spill = h.spill /\ r.lastFin = h.lastFin
        /\ r.state = "open" => r.opStack = front
    BY <1>4, <2>3 DEF Shape, Small
  <2>5. Small(r)
    BY <1>4, <2>4 DEF Small
  <2> QED
    BY <1>4, <2>4, <2>5 DEF Keeps, Waits, front
<1>5. CASE fin = TRUE /\ Top(c) < 3
  <2>1. c.tip = 0 /\ c.opStack \in Seq(Ops) /\ c.opStack # <<>>
    BY <1>5 DEF Reads
  <2>2. /\ Keeps(c, h) /\ h.tip = c.tip
        /\ \/ h.fragment \in {<<>>, c.fragment}
           \/ h.fragment = full /\ ~(Len(full) > MaxPayload)
    <3> DEFINE op == Top(c)
               g == HandleFragment(c, data, 0, op, TRUE, app)
    <3>1. h = g
      BY <1>5
    <3>2. /\ Keeps(c, g) /\ g.tip = c.tip
          /\ \/ g.fragment \in {<<>>, c.fragment}
             \/ g.fragment = full /\ ~(Len(full) > MaxPayload)
      <4> HIDE DEF op
      <4>1. op < 3 /\ Shape(c) /\ c.fragment \in Seq(Octet)
        BY <1>5 DEF Small, op
      <4>2. AsMessage(c, g, data, op, app)
        BY <4>1, WholeMessage
      <4> HIDE DEF g
      <4> QED
        BY <4>2 DEF AsMessage
    <3> QED
      BY <3>1, <3>2
  <2> HIDE DEF h
  <2>3. Small(h)
    <3>1. Shape(h) /\ <<>> \in Seq(Octet) /\ Len(<<>>) = 0 /\ h.tip = 0
      BY <2>1, <2>2, EmptySeq DEF Keeps
    <3>2. c.fragment \in Seq(Octet) /\ Len(c.fragment) <= MaxPayload
      BY <1>1, <2>1 DEF Small
    <3>3. h.fragment \in Seq(Octet) /\ Len(h.fragment) \in Nat /\ Len(h.fragment) <= MaxPayload
      <4>1. h.fragment = <<>> \/ h.fragment = c.fragment
            \/ (h.fragment = full /\ ~(Len(full) > MaxPayload))
        BY <2>2
      <4>2. CASE h.fragment = <<>>
        BY <1>2, <3>1, <4>2
      <4>3. CASE h.fragment = c.fragment
        BY <1>1, <3>2, <4>3
      <4>4. CASE h.fragment = full /\ ~(Len(full) > MaxPayload)
        <5> HIDE DEF full
        <5> QED
          BY <1>1, <1>2, <4>4
      <4> QED
        BY <4>1, <4>2, <4>3, <4>4
    <3> QED
      BY <1>2, <3>1, <3>3 DEF Small
  <2>4. Front(c.opStack) \in Seq(Ops)
    BY <2>1, Fronts
  <2> QED
    BY <1>4, <1>5, <2>1, <2>2, <2>3, <2>4 DEF h
<1>6. CASE fin = TRUE /\ ~(Top(c) < 3)
  <2>1. Front(c.opStack) \in Seq(Ops) /\ c.tip + Len(data) <= MaxShort
    BY <1>6 DEF Reads
  <2>2. c.tip \in 0..Len(c.fragment) /\ Len(c.fragment) - c.tip <= MaxPayload
    BY DEF Small
  <2>3. /\ Keeps(c, h)
        /\ \/ h.tip = 0 /\ h.fragment = SubSeq(c.fragment, 1, Len(c.fragment) - c.tip)
           \/ h.state # "open" /\ h.tip = c.tip + Len(data) /\ h.fragment = full
    <3> DEFINE op == Top(c)
               g == HandleFragment(c, data, 0, op, TRUE, app)
    <3>1. h = g
      BY <1>6
    <3>2. /\ Keeps(c, g)
          /\ \/ g.tip = 0 /\ g.fragment = SubSeq(c.fragment, 1, Len(c.fragment) - c.tip)
             \/ g.state # "open" /\ g.tip = c.tip + Len(data) /\ g.fragment = full
      <4> HIDE DEF op
      <4>1. ~(op < 3) /\ Shape(c) /\ c.fragment \in Seq(Octet)
        BY <1>6 DEF Small, op
      <4>2. AsControl(c, g, data, op, app)
        BY <2>2, <4>1, WholeControl
      <4> HIDE DEF g
      <4> QED
        BY <4>2 DEF AsControl
    <3> QED
      BY <3>1, <3>2
  <2> HIDE DEF h
  <2>4. LET s == SubSeq(c.fragment, 1, Len(c.fragment) - c.tip)
        IN  s \in Seq(Octet) /\ Len(s) = Len(c.fragment) - c.tip
    <3>1. /\ Len(c.fragment) - c.tip \in Int
          /\ \A i \in 1..(Len(c.fragment) - c.tip) : c.fragment[i] \in Octet
      <4>1. \A i \in 1..Len(c.fragment) : c.fragment[i] \in Octet
        BY ElementOfSeq DEF Small
      <4> QED
        BY <1>1, <2>2, <4>1
    <3> DEFINE k == Len(c.fragment) - c.tip
    <3>2. k \in Nat
      BY <1>1, <2>2
    <3> HIDE DEF k
    <3>3. \A i \in 1..k : c.fragment[i] \in Octet
      BY <3>1 DEF k
    <3>4. SubSeq(c.fragment, 1, k) \in Seq(Octet)
          /\ Len(SubSeq(c.fragment, 1, k)) = IF 1 <= k THEN k - 1 + 1 ELSE 0
      BY <3>2, <3>3, SubSeqProperties
    <3>5. Len(SubSeq(c.fragment, 1, k)) = k
      BY <3>2, <3>4
    <3> QED
      BY <3>4, <3>5 DEF k
  <2>5. Small(h)
    <3>1. Shape(h)
      BY <2>3 DEF Keeps
    <3> QED
      <4>1. CASE h.tip = 0 /\ h.fragment = SubSeq(c.fragment, 1, Len(c.fragment) - c.tip)
        <5>1. /\ h.fragment \in Seq(Octet) /\ Len(h.fragment) = Len(c.fragment) - c.tip
              /\ Len(h.fragment) \in Nat
          BY <1>1, <2>2, <2>4, <4>1
        <5> QED
          BY <1>1, <1>2, <2>2, <3>1, <4>1, <5>1 DEF Small
      <4>2. CASE h.tip = c.tip + Len(data) /\ h.fragment = full
        <5>1. /\ h.tip \in 0..Len(full) /\ h.tip <= MaxShort
              /\ Len(full) - h.tip <= MaxPayload
          BY <1>1, <1>2, <2>1, <2>2, <4>2
        <5> QED
          BY <1>1, <3>1, <4>2, <5>1 DEF Small
      <4> QED
        BY <2>3, <4>1, <4>2
  <2>6. h.state = "open" => h.tip = 0
    BY <2>3
  <2> QED
    BY <1>4, <1>6, <2>1, <2>3, <2>5, <2>6 DEF h
<1> QED
  BY <1>3, <1>5, <1>6

Bounded(fs, c) ==
    /\ Small(c) /\ c.spill \in Seq(Places(fs))
    /\ c.wantsHead \in BOOLEAN /\ c.lastFin \in BOOLEAN
    /\ c.state = "open" /\ c.wantsHead => Waits(c)
    /\ c.state = "open" /\ ~c.wantsHead =>
          c.remaining \in Nat /\ Reads(c, c.remaining, c.lastFin)

BufferInv ==
    /\ stream \in Streams /\ arrived \in Nat /\ busy \in BOOLEAN
    /\ src \in Seq(Places(stream)) /\ Bounded(stream, conn)
    /\ busy => conn.state = "open"

(* A frame of the stream.                                                  *)
LEMMA FrameType ==
    ASSUME stream \in Streams, src \in Seq(Places(stream)), src # <<>>
    PROVE  /\ stream \in Seq(Frames) /\ src[1].frame \in 1..Len(stream) /\ Frame \in Frames
           /\ Frame.op \in 0..15 /\ Frame.fin \in BOOLEAN /\ Frame.rsv1 \in BOOLEAN
           /\ Frame.size \in Sizes /\ Frame.payload \in Seq(Byte) /\ Len(Frame.payload) \in Nat
           /\ HeaderSize[Frame.size] \in Nat \ {0}
           /\ WireLength(Frame) = HeaderSize[Frame.size] + Len(Frame.payload)
           /\ Frame.size = "short" => Len(Frame.payload) <= MaxShort
<1>1. stream \in Seq(Frames)
  BY StreamAssumption
<1>2. 1 \in 1..Len(src)
  <2>1. Len(src) \in Nat \ {0}
    BY EmptySeq
  <2> QED
    BY <2>1
<1>3. src[1].frame \in 1..Len(stream)
  <2>1. src[1] \in Places(stream)
    BY <1>2, ElementOfSeq
  <2> QED
    BY <2>1 DEF Places
<1>4. Frame \in Frames
  BY <1>1, <1>3, ElementOfSeq DEF Frame
<1>5. /\ Frame.op \in 0..15 /\ Frame.fin \in BOOLEAN /\ Frame.rsv1 \in BOOLEAN
      /\ Frame.size \in Sizes /\ Frame.payload \in Seq(Byte)
  BY <1>4 DEF Frames
<1>6. Len(Frame.payload) \in Nat
  BY <1>5, LenProperties
<1>7. Frame.size = "short" => Len(Frame.payload) <= MaxShort
  <2> DEFINE n == src[1].frame
  <2>1. Frame = stream[n] /\ n \in DOMAIN stream
    BY <1>1, <1>3, LenProperties DEF Frame
  <2> HIDE DEF n
  <2> QED
    BY <2>1, StreamAssumption
<1>8. HeaderSize[Frame.size] \in Nat \ {0}
  BY <1>5, SizeAssumption
<1> QED
  BY <1>1, <1>3, <1>4, <1>5, <1>6, <1>7, <1>8 DEF WireLength

(* Unmasking keeps the number of bytes.                                    *)
LEMMA UnmaskType ==
    ASSUME stream \in Seq(Frames), NEW bytes \in Seq(Places(stream)), NEW mask
    PROVE  Unmask(bytes, mask) \in Seq(Octet) /\ Len(Unmask(bytes, mask)) = Len(bytes)
<1> DEFINE n == Len(bytes)
           b(j) == LET f == stream[bytes[j].frame]
                       place == bytes[j].at - HeaderSize[f.size]
                   IN  IF /\ place \in DOMAIN f.payload
                          /\ mask[(j - 1) % MaskSize] = (place - 1) % MaskSize
                       THEN f.payload[place] ELSE Garbled
           u == [j \in 1..n |-> b(j)]
<1>1. n \in Nat /\ DOMAIN bytes = 1..n
  BY LenProperties
<1>2. Unmask(bytes, mask) = u
  BY <1>1 DEF Unmask
<1>3. ASSUME NEW j \in 1..n PROVE b(j) \in Octet
  <2> DEFINE f == stream[bytes[j].frame]
  <2>1. bytes[j] \in Places(stream)
    BY <1>3, ElementOfSeq
  <2>2. bytes[j].frame \in 1..Len(stream)
    BY <2>1 DEF Places
  <2>3. f \in Frames
    BY <2>2, ElementOfSeq
  <2> HIDE DEF f
  <2>4. f.payload \in Seq(Byte)
    BY <2>3 DEF Frames
  <2>5. \A i \in DOMAIN f.payload : f.payload[i] \in Byte
    BY <2>4, LenProperties, ElementOfSeq
  <2> QED
    BY <2>5 DEF Octet, f
<1> HIDE DEF n, b
<1>4. u \in Seq(Octet) /\ Len(u) = n
  BY <1>1, <1>3
<1> QED
  BY <1>2, <1>4 DEF n

(* The compression mark is all that SetCompressed sets.                    *)
LEMMA Marks ==
    ASSUME NEW c, Shape(c), NEW f
    PROVE  LET r == SetCompressed(c, f)
           IN  /\ Handled(c, r) /\ Silent(c, r)
               /\ ~f.rsv1 => r = c
               /\ f.rsv1 /\ c.compression = "enabled" =>
                     r.compression = "compressed" /\ r.state = c.state
               /\ f.rsv1 /\ c.compression # "enabled" => r.state = "closed"
<1> DEFINE r == SetCompressed(c, f)
<1>1. CASE ~f.rsv1
  <2>1. r = c
    BY <1>1 DEF SetCompressed
  <2>2. Handled(c, c) /\ Silent(c, c)
    BY DEF Handled, Keeps, Silent
  <2> QED
    BY <1>1, <2>1, <2>2
<1>2. CASE f.rsv1 /\ c.compression = "enabled"
  <2>1. r = [c EXCEPT !.compression = "compressed"]
    BY <1>2 DEF SetCompressed
  <2> HIDE DEF r
  <2>2. Handled(c, r) /\ Silent(c, r) /\ r.compression = "compressed" /\ r.state = c.state
    BY <2>1 DEF Handled, Keeps, Silent, Shape
  <2> QED
    BY <1>2, <2>2 DEF r
<1>3. CASE f.rsv1 /\ c.compression # "enabled"
  <2>1. r = ForceClose(c)
    BY <1>3 DEF SetCompressed
  <2> HIDE DEF r
  <2>2. Handled(c, r) /\ Silent(c, r) /\ r.state = "closed"
    BY <2>1, Closes
  <2> QED
    BY <1>3, <2>2 DEF r
<1> QED
  BY <1>1, <1>2, <1>3

(* The stack and the fin bit are all that is set for a message.            *)
IsPushed(c, p, op, fin) ==
    /\ Shape(p) /\ Silent(c, p) /\ p.wantsHead = c.wantsHead /\ p.spill = c.spill
    /\ p.fragment = c.fragment /\ p.tip = c.tip /\ p.state = c.state
    /\ p.compression = c.compression /\ p.remaining = c.remaining /\ p.mask = c.mask
    /\ p.lastFin = fin
    /\ p.opStack = IF op # CONTINUATION THEN Append(c.opStack, op) ELSE c.opStack

(* The opcode stack with a frame begun, and nothing else changed.          *)
LEMMA Pushes ==
    ASSUME NEW c, Shape(c), NEW f
    PROVE  IsPushed(c, Pushed(c, f), f.op, f.fin)
<1> DEFINE p == Pushed(c, f)
           stack == IF f.op # CONTINUATION THEN Append(c.opStack, f.op) ELSE c.opStack
<1>1. p = [c EXCEPT !.opStack = stack, !.lastFin = f.fin]
  BY DEF Pushed
<1> HIDE DEF p, stack
<1>2. /\ Shape(p) /\ Silent(c, p) /\ p.wantsHead = c.wantsHead /\ p.spill = c.spill
      /\ p.fragment = c.fragment /\ p.tip = c.tip /\ p.state = c.state
      /\ p.compression = c.compression /\ p.remaining = c.remaining /\ p.mask = c.mask
      /\ p.lastFin = f.fin /\ p.opStack = stack
  BY <1>1 DEF Shape, Silent
<1> QED
  BY <1>2 DEF p, stack, IsPushed

(* Behind a header that is in order, the frame may be read.                *)
LEMMA PushedReads ==
    ASSUME BufferInv, HasHead, NEW c, c = SetCompressed(conn, Frame),
           GoodHead(c), ~OutOfOrder(c, Frame)
    PROVE  LET p == Pushed(c, Frame)
           IN  /\ src # <<>> /\ Small(p) /\ p.state = "open" /\ p.wantsHead = conn.wantsHead
               /\ p.spill = conn.spill /\ p.lastFin = Frame.fin
               /\ Reads(p, Len(Frame.payload), Frame.fin)
<1> DEFINE p == Pushed(c, Frame)
           f == Frame
<1>1. src # <<>>
  <2>1. Len(src) >= HeaderSize["short"] /\ HeaderSize["short"] \in Nat \ {0}
    BY SizeAssumption DEF HasHead, Sizes
  <2>2. Len(src) \in Nat
    BY LenProperties DEF BufferInv
  <2>3. Len(src) # 0
    BY <2>1, <2>2
  <2> QED
    BY <2>3
<1>2. /\ f.op \in 0..15 /\ f.fin \in BOOLEAN /\ f.size \in Sizes /\ Len(f.payload) \in Nat
      /\ f.size = "short" => Len(f.payload) <= MaxShort
  BY <1>1, FrameType DEF BufferInv
<1>3. Bounded(stream, conn) /\ conn.state = "open" /\ conn.wantsHead
  BY DEF BufferInv, HasHead, AtHead
<1>4. Small(conn) /\ conn.tip = 0 /\ conn.opStack \in Seq(Ops)
  BY <1>3 DEF Bounded, Waits
<1>5. Handled(conn, c)
  <2>1. Shape(conn)
    BY <1>4 DEF Small
  <2> QED
    BY <2>1, Marks
<1>6. c.state = "open" /\ ~BadHead(f)
  BY DEF GoodHead
<1> HIDE DEF f
<1>7. Shape(c) /\ c.opStack = conn.opStack /\ c.tip = 0 /\ c.fragment = conn.fragment
      /\ c.wantsHead = conn.wantsHead /\ c.spill = conn.spill
  BY <1>4, <1>5 DEF Handled, Keeps
<1>8. /\ Shape(p) /\ p.wantsHead = c.wantsHead /\ p.spill = c.spill
      /\ p.fragment = c.fragment /\ p.tip = c.tip /\ p.state = c.state
      /\ p.lastFin = f.fin
      /\ p.opStack = IF f.op # CONTINUATION THEN Append(c.opStack, f.op) ELSE c.opStack
  <2>1. IsPushed(c, p, f.op, f.fin)
    BY <1>7, Pushes DEF f
  <2> HIDE DEF p
  <2> QED
    BY <2>1 DEF IsPushed
<1> HIDE DEF p
<1>9. Small(p)
  BY <1>4, <1>7, <1>8 DEF Small
<1>10. Reads(p, Len(f.payload), f.fin)
  <2>1. CASE f.op = CONTINUATION
    <3>1. p.opStack = conn.opStack
      BY <1>7, <1>8, <2>1
    <3>2. conn.opStack # <<>>
      BY <1>7, <2>1 DEF OutOfOrder, f
    <3>3. Top(p) \in Ops
      BY <1>4, <3>1, <3>2, Fronts DEF Top
    <3>4. Top(p) < 3 /\ p.tip = 0
      BY <1>7, <1>8, <3>3 DEF Ops
    <3> QED
      BY <1>4, <3>1, <3>2, <3>4 DEF Reads
  <2>2. CASE f.op \in Ops
    <3>1. p.opStack = Append(conn.opStack, f.op)
      BY <1>7, <1>8, <2>2 DEF Ops, CONTINUATION
    <3>2. p.opStack \in Seq(Ops) /\ p.opStack # <<>>
      BY <1>4, <2>2, <3>1, AppendProperties
    <3>3. Top(p) = f.op
      BY <1>4, <3>1, Fronts DEF Top
    <3> QED
      BY <1>7, <1>8, <2>2, <3>2, <3>3 DEF Reads, Ops
  <2>3. CASE f.op > 2
    <3>1. p.opStack = Append(conn.opStack, f.op)
      BY <1>7, <1>8, <2>3 DEF CONTINUATION
    <3>2. Front(p.opStack) = conn.opStack /\ Top(p) = f.op
      BY <1>4, <3>1, Fronts DEF Top
    <3>3. f.fin = TRUE /\ f.size = "short"
      BY <1>2, <1>6, <2>3 DEF BadHead
    <3>4. p.tip + Len(f.payload) <= MaxShort
      <4>1. p.tip = 0
        BY <1>7, <1>8
      <4> QED
        BY <1>2, <3>3, <4>1
    <3>5. ~(Top(p) < 3)
      BY <1>2, <2>3, <3>2
    <3> QED
      BY <1>4, <3>2, <3>3, <3>4, <3>5 DEF Reads
  <2>4. f.op = CONTINUATION \/ f.op \in Ops \/ f.op > 2
    BY <1>2 DEF CONTINUATION, Ops
  <2> QED
    BY <2>1, <2>2, <2>3, <2>4
<1> QED
  BY <1>1, <1>6, <1>7, <1>8, <1>9, <1>10 DEF p, f

(* A callback that breaks the connection keeps the buffer as it is.        *)
LEMMA BrokenBounded ==
    ASSUME NEW fs, NEW c, Bounded(fs, c), NEW r, Handled(c, r), r.state # "open"
    PROVE  Bounded(fs, r)
BY DEF Bounded, Small, Handled, Keeps

(* When consume returns with a connection inside the bounds, they hold.    *)
LEMMA ReturnBounded ==
    ASSUME BufferInv, NEW c, Return(c), Bounded(stream, c)
    PROVE  BufferInv'
<1>1. stream' = stream /\ arrived' = arrived /\ src' = <<>> /\ busy' = FALSE /\ conn' = c
  BY DEF Return
<1>2. <<>> \in Seq(Places(stream))
  BY EmptySeq
<1> QED
  BY <1>1, <1>2 DEF BufferInv

(* When consume goes on with a connection inside the bounds, they hold.    *)
LEMMA ContinueBounded ==
    ASSUME BufferInv, busy, NEW c, NEW n \in Nat, n <= Len(src), Continue(c, n),
           Bounded(stream, c), c.state = "open"
    PROVE  BufferInv'
<1>1. /\ stream' = stream /\ arrived' = arrived /\ busy' = busy
      /\ src' = SubSeq(src, n + 1, Len(src)) /\ conn' = c
  BY DEF Continue
<1>2. src \in Seq(Places(stream)) /\ Len(src) \in Nat
  BY LenProperties DEF BufferInv
<1>3. SubSeq(src, n + 1, Len(src)) \in Seq(Places(stream))
  BY <1>2, Pieces
<1> QED
  BY <1>1, <1>3 DEF BufferInv

(* The first states, and bytes that arrive.                                *)
LEMMA BufferInit == Init => BufferInv
<1> SUFFICES ASSUME Init PROVE BufferInv
  OBVIOUS
<1>1. stream \in Streams /\ arrived = 0 /\ src = <<>> /\ busy = FALSE
  BY DEF Init
<1>2. /\ Shape(conn) /\ conn.fragment = <<>> /\ conn.tip = 0 /\ conn.spill = <<>>
      /\ conn.wantsHead = TRUE /\ conn.lastFin = TRUE /\ conn.opStack = <<>>
  BY DEF Init, Shape
<1>3. \A S : <<>> \in Seq(S)
  BY EmptySeq
<1>4. MaxPayload \in Nat /\ MaxShort \in Nat /\ Len(<<>>) = 0
  BY SizeAssumption, EmptySeq
<1>5. Small(conn) /\ Waits(conn)
  BY <1>2, <1>3, <1>4 DEF Small, Waits
<1> QED
  BY <1>1, <1>2, <1>3, <1>5 DEF BufferInv, Bounded

(* Bytes that arrive are spilled or parsed, and change no buffer of        *)
(* fragments.                                                              *)
LEMMA ReceiveBounded ==
    ASSUME BufferInv, NEW n \in 1..Len(WholeWire(stream)), Receive(n)
    PROVE  BufferInv'
<1> DEFINE W == WholeWire(stream)
           piece == SubSeq(W, arrived + 1, arrived + n)
<1>1. /\ stream' = stream /\ arrived' = arrived + n /\ busy' = TRUE /\ conn' = conn
      /\ arrived + n <= Len(W) /\ src' = conn.spill \o piece /\ conn.state = "open"
  BY DEF Receive
<1>2. arrived \in Nat /\ conn.spill \in Seq(Places(stream)) /\ stream \in Seq(Frames)
  BY StreamAssumption DEF BufferInv, Bounded
<1>3. W \in Seq(Places(stream)) /\ Len(W) \in Nat
  BY <1>2, WirePlaces, LenProperties
<1> HIDE DEF W
<1>4. piece \in Seq(Places(stream))
  <2>1. arrived + n \in Nat /\ arrived + n <= Len(W)
    BY <1>1, <1>2, <1>3
  <2> QED
    BY <1>2, <1>3, <2>1, Pieces
<1> HIDE DEF piece
<1>5. src' \in Seq(Places(stream))
  BY <1>1, <1>2, <1>4, ConcatProperties
<1>6. arrived' \in Nat
  BY <1>1, <1>2, <1>3
<1> QED
  BY <1>1, <1>5, <1>6 DEF BufferInv

(* What is refused keeps what was buffered.                                *)
LEMMA RefuseBounded ==
    ASSUME BufferInv, Spill \/ RefuseHead \/ SpillHead \/ RefuseMessage
    PROVE  BufferInv'
<1>1. Bounded(stream, conn) /\ src \in Seq(Places(stream)) /\ Shape(conn)
  BY DEF BufferInv, Bounded, Small
<1> DEFINE c == SetCompressed(conn, Frame)
<1>2. Handled(conn, c) /\ Shape(c)
  <2>1. Handled(conn, c)
    BY <1>1, Marks
  <2> QED
    BY <2>1 DEF Handled, Keeps
<1>3. ASSUME NEW d, Bounded(stream, d) PROVE Bounded(stream, [d EXCEPT !.spill = src])
  <2> DEFINE e == [d EXCEPT !.spill = src]
  <2>1. Shape(d)
    BY <1>3 DEF Bounded, Small
  <2>2. /\ Shape(e) /\ e.spill = src /\ e.fragment = d.fragment /\ e.tip = d.tip
        /\ e.wantsHead = d.wantsHead /\ e.lastFin = d.lastFin /\ e.state = d.state
        /\ e.remaining = d.remaining /\ e.opStack = d.opStack
    BY <2>1 DEF Shape
  <2> HIDE DEF e
  <2>3. Bounded(stream, e)
    BY <1>1, <1>3, <2>2 DEF Bounded, Small, Waits, Reads, Top
  <2> QED
    BY <2>3 DEF e
<1>4. CASE Spill
  <2> DEFINE d == IF src = <<>> THEN conn ELSE [conn EXCEPT !.spill = src]
  <2>1. Return(d)
    BY <1>4 DEF Spill
  <2>2. Bounded(stream, d)
    BY <1>1, <1>3
  <2> HIDE DEF d
  <2> QED
    BY <2>1, <2>2, ReturnBounded
<1>5. CASE RefuseHead
  <2>1. Return(ForceClose(c))
    BY <1>5 DEF RefuseHead
  <2> HIDE DEF c
  <2>2. Handled(c, ForceClose(c)) /\ ForceClose(c).state = "closed"
    BY <1>2, Closes
  <2> DEFINE d == ForceClose(c)
  <2>3. Handled(conn, d) /\ d.state # "open"
    BY <1>2, <2>2 DEF Handled, Keeps
  <2> HIDE DEF d
  <2>4. Bounded(stream, d)
    BY <1>1, <2>3, BrokenBounded
  <2> QED
    BY <2>1, <2>4, ReturnBounded DEF d
<1>6. CASE SpillHead
  <2> DEFINE d == [c EXCEPT !.spill = src]
  <2>1. Return(d) /\ c.state = "open" /\ conn.state = "open"
    BY <1>6 DEF SpillHead, GoodHead, BufferInv, HasHead, AtHead
  <2> HIDE DEF c
  <2>2. Bounded(stream, c)
    BY <1>1, <1>2, <2>1 DEF Bounded, Handled, Keeps, Small, Waits, Reads, Top
  <2>3. Bounded(stream, d)
    BY <1>3, <2>2
  <2> HIDE DEF d
  <2> QED
    BY <2>1, <2>3, ReturnBounded
<1>7. CASE RefuseMessage
  <2> DEFINE e == IF OutOfOrder(c, Frame) THEN c ELSE Pushed(c, Frame)
             d == ForceClose(e)
  <2>1. Return(d)
    BY <1>7 DEF RefuseMessage
  <2>2. IsPushed(c, Pushed(c, Frame), Frame.op, Frame.fin)
    <3> HIDE DEF c
    <3> QED
      BY <1>2, Pushes
  <2> HIDE DEF c
  <2>3. /\ Shape(e) /\ e.wantsHead = c.wantsHead /\ e.spill = c.spill
        /\ e.fragment = c.fragment /\ e.tip = c.tip
        /\ e.lastFin \in {c.lastFin, Frame.fin}
    BY <1>2, <2>2 DEF IsPushed
  <2>4. Frame.fin \in BOOLEAN
    <3>1. src # <<>>
      <4>1. Len(src) >= HeaderSize["short"] /\ HeaderSize["short"] \in Nat \ {0}
        BY <1>7, SizeAssumption DEF RefuseMessage, HasHead, Sizes
      <4>2. Len(src) # 0
        BY <4>1
      <4> QED
        BY <4>2
    <3> QED
      BY <1>1, <3>1, FrameType DEF BufferInv
  <2> HIDE DEF e
  <2>5. Handled(e, d) /\ d.state = "closed"
    BY <2>3, Closes
  <2> HIDE DEF d
  <2>6. Bounded(stream, d)
    BY <1>1, <1>2, <2>3, <2>4, <2>5 DEF Bounded, Handled, Keeps, Small
  <2> QED
    BY <2>1, <2>6, ReturnBounded
<1> QED
  BY <1>4, <1>5, <1>6, <1>7

(* A frame that is there in full.                                          *)
LEMMA ConsumeWholeBounded ==
    ASSUME BufferInv, NEW app, ConsumeWhole(app)
    PROVE  BufferInv'
<1> DEFINE c == SetCompressed(conn, Frame)
           p == Pushed(c, Frame)
           after == AfterWhole(p, Frame, app)
           bytes == SubSeq(src, HeaderSize[Frame.size] + 1, WireLength(Frame))
           data == Unmask(bytes, FreshMask)
           size == HeaderSize[Frame.size]
           len == Len(Frame.payload)
<1>1. /\ HasHead /\ GoodHead(c) /\ ~OutOfOrder(c, Frame) /\ WireLength(Frame) <= Len(src)
      /\ IF after.state # "open" THEN Return(after)
         ELSE Continue([after EXCEPT !.spill = <<>>], WireLength(Frame))
  BY DEF ConsumeWhole, HeadComplete
<1>2. /\ src # <<>> /\ Small(p) /\ p.state = "open" /\ p.wantsHead = conn.wantsHead
      /\ p.spill = conn.spill /\ p.lastFin = Frame.fin
      /\ Reads(p, len, Frame.fin)
  BY <1>1, PushedReads
<1>3. /\ stream \in Seq(Frames) /\ Frame.fin \in BOOLEAN /\ len \in Nat /\ size \in Nat \ {0}
      /\ WireLength(Frame) = size + len
  BY <1>2, FrameType DEF BufferInv
<1>4. after = Popped(HandleFragment(p, data, 0, Top(p), Frame.fin, app), Frame.fin)
  BY DEF AfterWhole
<1>5. src \in Seq(Places(stream)) /\ Len(src) \in Nat /\ busy /\ conn.wantsHead
      /\ Bounded(stream, conn)
  BY <1>1, LenProperties DEF BufferInv, HasHead, AtHead
<1> HIDE DEF c, p, after, size, len
<1>6. data \in Seq(Octet) /\ Len(data) = len
  <2>1. /\ SubSeq(src, size + 1, size + len) \in Seq(Places(stream))
        /\ Len(SubSeq(src, size + 1, size + len)) = len
    <3> DEFINE end == size + len
    <3>1. size \in Nat /\ end \in Nat /\ end <= Len(src)
      BY <1>1, <1>3
    <3> HIDE DEF end
    <3>2. /\ SubSeq(src, size + 1, end) \in Seq(Places(stream))
          /\ Len(SubSeq(src, size + 1, end)) = IF size <= end THEN end - size ELSE 0
      BY <1>5, <3>1, Pieces
    <3>3. Len(SubSeq(src, size + 1, end)) = len
      BY <1>3, <3>2 DEF end
    <3> QED
      BY <3>2, <3>3 DEF end
  <2>2. bytes = SubSeq(src, size + 1, size + len)
    BY <1>3 DEF size
  <2> HIDE DEF bytes
  <2>3. bytes \in Seq(Places(stream)) /\ Len(bytes) = len
    BY <1>3, <2>1, <2>2
  <2> QED
    BY <1>3, <2>3, UnmaskType
<1> HIDE DEF data
<1>7. /\ Small(after) /\ after.wantsHead = p.wantsHead /\ after.spill = p.spill
      /\ after.lastFin = p.lastFin
      /\ after.state = "open" => Waits(after)
  BY <1>2, <1>3, <1>4, <1>6, WholeSmall
<1>8. after.wantsHead = TRUE
  BY <1>2, <1>5, <1>7 DEF Bounded
<1>9. CASE after.state # "open"
  <2>1. Bounded(stream, after)
    BY <1>2, <1>3, <1>5, <1>7, <1>8, <1>9 DEF Bounded
  <2> QED
    BY <1>1, <1>9, <2>1, ReturnBounded
<1>10. CASE after.state = "open"
  <2> DEFINE e == [after EXCEPT !.spill = <<>>]
  <2>1. Continue(e, WireLength(Frame))
    BY <1>1, <1>10
  <2>2. /\ Shape(e) /\ e.spill = <<>> /\ e.fragment = after.fragment /\ e.tip = after.tip
        /\ e.wantsHead = after.wantsHead /\ e.lastFin = after.lastFin
        /\ e.state = after.state /\ e.opStack = after.opStack
    BY <1>7 DEF Small, Shape
  <2> HIDE DEF e
  <2>3. <<>> \in Seq(Places(stream))
    BY EmptySeq
  <2>4. Bounded(stream, e)
    BY <1>2, <1>3, <1>7, <1>8, <1>10, <2>2, <2>3 DEF Bounded, Small, Waits
  <2>5. WireLength(Frame) \in Nat
    BY <1>3
  <2> QED
    BY <1>1, <1>5, <1>10, <2>1, <2>2, <2>4, <2>5, ContinueBounded
<1> QED
  BY <1>9, <1>10

(* What is noted of a frame that is not there in full.                     *)
IsTaken(p, q, rest, mask) ==
    /\ Shape(q) /\ Silent(p, q) /\ q.spill = <<>> /\ q.wantsHead = FALSE
    /\ q.remaining = rest /\ q.mask = mask
    /\ q.fragment = p.fragment /\ q.tip = p.tip /\ q.opStack = p.opStack
    /\ q.state = p.state /\ q.lastFin = p.lastFin /\ q.compression = p.compression

(* A frame of which a part was taken, and what that leaves alone.          *)
LEMMA Takes ==
    ASSUME NEW p, Shape(p), NEW rest, NEW mask
    PROVE  IsTaken(p, [p EXCEPT !.spill = <<>>, !.wantsHead = FALSE, !.remaining = rest,
                                !.mask = mask], rest, mask)
<1> DEFINE Same(x, y) ==
               /\ Shape(y) /\ Silent(x, y) /\ y.fragment = x.fragment /\ y.tip = x.tip
               /\ y.opStack = x.opStack /\ y.state = x.state /\ y.lastFin = x.lastFin
               /\ y.compression = x.compression
<1>1. ASSUME NEW w, NEW s
      PROVE  LET q == [p EXCEPT !.spill = s, !.wantsHead = w, !.remaining = rest, !.mask = mask]
             IN  Same(p, q) /\ q.spill = s /\ q.wantsHead = w /\ q.remaining = rest /\ q.mask = mask
  <2> DEFINE a == [p EXCEPT !.spill = s]
             b == [a EXCEPT !.wantsHead = w]
             d == [b EXCEPT !.remaining = rest]
             e == [d EXCEPT !.mask = mask]
  <2>1. [p EXCEPT !.spill = s, !.wantsHead = w, !.remaining = rest, !.mask = mask] = e
    OBVIOUS
  <2>2. Same(p, a) /\ a.spill = s
    BY DEF Shape, Silent
  <2> HIDE DEF a
  <2>3. Same(a, b) /\ b.spill = a.spill /\ b.wantsHead = w
    BY <2>2 DEF Shape, Silent
  <2> HIDE DEF b
  <2>4. Same(b, d) /\ d.spill = b.spill /\ d.wantsHead = b.wantsHead /\ d.remaining = rest
    BY <2>3 DEF Shape, Silent
  <2> HIDE DEF d
  <2>5. /\ Same(d, e) /\ e.spill = d.spill /\ e.wantsHead = d.wantsHead
        /\ e.remaining = d.remaining /\ e.mask = mask
    BY <2>4 DEF Shape, Silent
  <2> HIDE DEF e
  <2>6. Same(p, e)
    BY <2>2, <2>3, <2>4, <2>5 DEF Silent
  <2>7. e.spill = s /\ e.wantsHead = w /\ e.remaining = rest /\ e.mask = mask
    BY <2>2, <2>3, <2>4, <2>5
  <2> QED
    BY <2>1, <2>6, <2>7 DEF a, b, d, e
<1> DEFINE q == [p EXCEPT !.spill = <<>>, !.wantsHead = FALSE, !.remaining = rest, !.mask = mask]
<1> HIDE DEF Same
<1>2. Same(p, q) /\ q.spill = <<>> /\ q.wantsHead = FALSE /\ q.remaining = rest /\ q.mask = mask
  BY <1>1
<1> HIDE DEF q
<1>3. IsTaken(p, q, rest, mask)
  BY <1>2 DEF IsTaken, Same
<1> QED
  BY <1>3 DEF q

(* A frame that was read leaves a connection that waits for a header.      *)
IsRested(c, e) ==
    /\ Shape(e) /\ Silent(c, e) /\ e.wantsHead = TRUE /\ e.spill = c.spill
    /\ e.fragment = c.fragment /\ e.tip = c.tip /\ e.opStack = c.opStack
    /\ e.state = c.state /\ e.lastFin = c.lastFin /\ e.compression = c.compression

(* Waiting for the next header changes wantsHead only.                     *)
LEMMA Rests ==
    ASSUME NEW c, Shape(c)
    PROVE  IsRested(c, [c EXCEPT !.wantsHead = TRUE])
<1>1. ASSUME NEW w
      PROVE  LET e == [c EXCEPT !.wantsHead = w]
             IN  /\ Shape(e) /\ Silent(c, e) /\ e.wantsHead = w /\ e.spill = c.spill
                 /\ e.fragment = c.fragment /\ e.tip = c.tip /\ e.opStack = c.opStack
                 /\ e.state = c.state /\ e.lastFin = c.lastFin /\ e.compression = c.compression
  BY DEF Shape, Silent
<1> QED
  BY <1>1 DEF IsRested

(* A part of a frame, with its header.                                     *)
LEMMA ConsumePartBounded ==
    ASSUME BufferInv, ConsumePart
    PROVE  BufferInv'
<1> DEFINE c == SetCompressed(conn, Frame)
           p == Pushed(c, Frame)
           size == HeaderSize[Frame.size]
           len == Len(Frame.payload)
           taken == Len(src) - size
           rest == WireLength(Frame) - Len(src)
           mask == RotateMask(FreshMask, MaskSize - (taken % MaskSize))
           q == [p EXCEPT !.spill = <<>>, !.wantsHead = FALSE, !.remaining = rest, !.mask = mask]
           data == Unmask(SubSeq(src, size + 1, Len(src)), FreshMask)
           after == HandleFragment(q, data, rest, Top(p), Frame.fin, "open")
<1>1. /\ HasHead /\ GoodHead(c) /\ ~OutOfOrder(c, Frame) /\ WireLength(Frame) > Len(src)
      /\ Len(src) >= size /\ Return(AfterPart(p, Frame, "open"))
  BY DEF ConsumePart, HeadComplete
<1>2. /\ src # <<>> /\ Small(p) /\ p.state = "open" /\ p.lastFin = Frame.fin
      /\ Reads(p, len, Frame.fin)
  BY <1>1, PushedReads
<1>3. /\ stream \in Seq(Frames) /\ Frame.fin \in BOOLEAN /\ len \in Nat /\ size \in Nat \ {0}
      /\ WireLength(Frame) = size + len
  BY <1>2, FrameType DEF BufferInv
<1>4. AfterPart(p, Frame, "open") = after
  BY DEF AfterPart
<1>5. src \in Seq(Places(stream)) /\ Len(src) \in Nat
  BY LenProperties DEF BufferInv
<1>6. taken \in Nat /\ rest \in Nat \ {0} /\ taken + rest = len
  BY <1>1, <1>3, <1>5
<1> HIDE DEF c, p, taken, rest, mask, size, len
<1>7. /\ Shape(q) /\ q.spill = <<>> /\ q.wantsHead = FALSE /\ q.remaining = rest
      /\ q.fragment = p.fragment /\ q.tip = p.tip /\ q.opStack = p.opStack
      /\ q.state = p.state /\ q.lastFin = p.lastFin
  <2>1. Shape(p)
    BY <1>2 DEF Small
  <2>2. IsTaken(p, q, rest, mask)
    BY <2>1, Takes
  <2> HIDE DEF q
  <2> QED
    BY <2>2 DEF IsTaken
<1> HIDE DEF q
<1>8. data \in Seq(Octet) /\ Len(data) = taken
  <2> DEFINE bytes == SubSeq(src, size + 1, Len(src))
  <2>1. bytes \in Seq(Places(stream)) /\ Len(bytes) = IF size <= Len(src) THEN Len(src) - size ELSE 0
    <3>1. size \in Nat /\ Len(src) <= Len(src)
      BY <1>3, <1>5
    <3> QED
      BY <1>5, <3>1, Pieces
  <2> HIDE DEF bytes
  <2>2. Len(bytes) = taken
    BY <1>1, <2>1 DEF size, taken
  <2>3. Unmask(bytes, FreshMask) \in Seq(Octet) /\ Len(Unmask(bytes, FreshMask)) = Len(bytes)
    BY <1>3, <2>1, UnmaskType
  <2> QED
    BY <2>2, <2>3 DEF bytes
<1> HIDE DEF data
<1>9. Small(q) /\ q.state = "open" /\ Top(q) = Top(p)
  BY <1>2, <1>7 DEF Small, Top
<1>10. Reads(q, Len(data) + rest, Frame.fin)
  <2>1. Reads(q, len, Frame.fin)
    BY <1>2, <1>7, <1>9 DEF Reads
  <2>2. Len(data) + rest = len
    BY <1>6, <1>8
  <2> QED
    BY <2>1, <2>2
<1>11. after = HandleFragment(q, data, rest, Top(q), Frame.fin, "open")
  BY <1>9
<1> HIDE DEF after
<1>12. /\ Small(after) /\ Keeps(q, after)
       /\ after.state = "open" => Reads(after, rest, Frame.fin)
  <2>1. rest \in Nat /\ ~(rest = 0 /\ Frame.fin)
    BY <1>6
  <2> QED
    BY <1>8, <1>9, <1>10, <1>11, <2>1, PartSmall
<1>13. <<>> \in Seq(Places(stream))
  BY EmptySeq
<1>14. Bounded(stream, after)
  BY <1>2, <1>3, <1>6, <1>7, <1>12, <1>13 DEF Bounded, Keeps
<1> QED
  BY <1>1, <1>4, <1>14, ReturnBounded

(* The rest of a frame.                                                    *)
LEMMA ContinueWholeBounded ==
    ASSUME BufferInv, NEW app, ContinueWhole(app)
    PROVE  BufferInv'
<1> DEFINE n == conn.remaining
           data == Unmask(SubSeq(src, 1, n), conn.mask)
           fin == conn.lastFin
           after == Popped(HandleFragment(conn, data, 0, Top(conn), fin, app), fin)
           e == [after EXCEPT !.wantsHead = TRUE]
<1>1. /\ busy /\ ~conn.wantsHead /\ n <= Len(src)
      /\ IF after.state # "open" THEN Return(after) ELSE Continue(e, n)
  BY DEF ContinueWhole
<1>2. /\ conn.state = "open" /\ Bounded(stream, conn) /\ src \in Seq(Places(stream))
      /\ Len(src) \in Nat /\ stream \in Seq(Frames)
  BY <1>1, StreamAssumption, LenProperties DEF BufferInv
<1>3. /\ Small(conn) /\ n \in Nat /\ fin \in BOOLEAN /\ Reads(conn, n, fin)
      /\ conn.spill \in Seq(Places(stream))
  BY <1>1, <1>2 DEF Bounded
<1>4. data \in Seq(Octet) /\ Len(data) = n
  <2> DEFINE bytes == SubSeq(src, 1, n)
  <2>1. bytes \in Seq(Places(stream)) /\ Len(bytes) = n
    <3>1. 0 \in Nat
      OBVIOUS
    <3>2. /\ SubSeq(src, 0 + 1, n) \in Seq(Places(stream))
          /\ Len(SubSeq(src, 0 + 1, n)) = IF 0 <= n THEN n - 0 ELSE 0
      BY <1>1, <1>2, <1>3, <3>1, Pieces
    <3> QED
      BY <1>3, <3>2
  <2> HIDE DEF bytes
  <2>2. Unmask(bytes, conn.mask) \in Seq(Octet) /\ Len(Unmask(bytes, conn.mask)) = Len(bytes)
    BY <1>2, <2>1, UnmaskType
  <2> QED
    BY <2>1, <2>2 DEF bytes
<1> HIDE DEF data
<1>5. /\ Small(after) /\ after.spill = conn.spill /\ after.lastFin = conn.lastFin
      /\ after.wantsHead = conn.wantsHead
      /\ after.state = "open" => Waits(after)
  BY <1>2, <1>3, <1>4, WholeSmall
<1> HIDE DEF after
<1>6. CASE after.state # "open"
  <2>1. Bounded(stream, after)
    BY <1>2, <1>3, <1>5, <1>6 DEF Bounded
  <2> QED
    BY <1>1, <1>6, <2>1, ReturnBounded
<1>7. CASE after.state = "open"
  <2>0. Shape(after)
    BY <1>5 DEF Small
  <2>1. /\ Shape(e) /\ e.spill = after.spill /\ e.fragment = after.fragment /\ e.tip = after.tip
        /\ e.wantsHead = TRUE /\ e.lastFin = after.lastFin
        /\ e.state = after.state /\ e.opStack = after.opStack
    BY <2>0, Rests DEF IsRested
  <2> HIDE DEF e
  <2>2. Bounded(stream, e)
    BY <1>3, <1>5, <1>7, <2>1 DEF Bounded, Small, Waits
  <2> QED
    BY <1>1, <1>3, <1>7, <2>1, <2>2, ContinueBounded
<1> QED
  BY <1>6, <1>7

(* More of a frame, and not the rest of it.                                *)
LEMMA ContinuePartBounded ==
    ASSUME BufferInv, ContinuePart
    PROVE  BufferInv'
<1> DEFINE left == conn.remaining - Len(src)
           q == [conn EXCEPT !.remaining = left]
           data == Unmask(src, conn.mask)
           fin == conn.lastFin
           after == HandleFragment(q, data, left, Top(conn), fin, "open")
           mask == RotateMask(after.mask, MaskSize - (Len(src) % MaskSize))
           e == [after EXCEPT !.mask = mask]
<1>1. /\ busy /\ ~conn.wantsHead /\ conn.remaining > Len(src)
      /\ Return(IF after.state # "open" THEN after ELSE e)
  BY DEF ContinuePart
<1>2. /\ conn.state = "open" /\ Bounded(stream, conn) /\ src \in Seq(Places(stream))
      /\ Len(src) \in Nat /\ stream \in Seq(Frames)
  BY <1>1, StreamAssumption, LenProperties DEF BufferInv
<1>3. /\ Small(conn) /\ conn.remaining \in Nat /\ fin \in BOOLEAN
      /\ Reads(conn, conn.remaining, fin) /\ conn.spill \in Seq(Places(stream))
  BY <1>1, <1>2 DEF Bounded
<1>4. left \in Nat \ {0} /\ Len(src) + left = conn.remaining
  BY <1>1, <1>2, <1>3
<1>5. data \in Seq(Octet) /\ Len(data) = Len(src)
  BY <1>2, UnmaskType
<1> HIDE DEF data, left
<1>6. /\ Shape(q) /\ q.spill = conn.spill /\ q.wantsHead = conn.wantsHead /\ q.remaining = left
      /\ q.fragment = conn.fragment /\ q.tip = conn.tip /\ q.opStack = conn.opStack
      /\ q.state = conn.state /\ q.lastFin = conn.lastFin
  BY <1>3 DEF Small, Shape
<1> HIDE DEF q
<1>7. Small(q) /\ q.state = "open" /\ Top(q) = Top(conn)
  BY <1>2, <1>3, <1>6 DEF Small, Top
<1>8. Reads(q, Len(data) + left, fin)
  <2>1. Reads(q, conn.remaining, fin)
    BY <1>3, <1>6, <1>7 DEF Reads
  <2> QED
    BY <1>4, <1>5, <2>1
<1>9. after = HandleFragment(q, data, left, Top(q), fin, "open")
  BY <1>7
<1> HIDE DEF after
<1>10. /\ Small(after) /\ Keeps(q, after)
       /\ after.state = "open" => Reads(after, left, fin)
  <2>1. left \in Nat /\ ~(left = 0 /\ fin)
    BY <1>4
  <2> QED
    BY <1>5, <1>7, <1>8, <1>9, <2>1, PartSmall
<1>11. Bounded(stream, after)
  <2>1. /\ after.spill = conn.spill /\ after.wantsHead = conn.wantsHead
        /\ after.lastFin = fin /\ after.remaining = left
    BY <1>6, <1>10 DEF Keeps
  <2>2. conn.wantsHead = FALSE
    BY <1>1, <1>2 DEF Bounded
  <2> QED
    BY <1>3, <1>4, <1>10, <2>1, <2>2 DEF Bounded
<1>12. Bounded(stream, e)
  <2> HIDE DEF mask
  <2>1. /\ Shape(e) /\ e.spill = after.spill /\ e.fragment = after.fragment /\ e.tip = after.tip
        /\ e.wantsHead = after.wantsHead /\ e.lastFin = after.lastFin
        /\ e.state = after.state /\ e.opStack = after.opStack /\ e.remaining = after.remaining
    BY <1>10 DEF Small, Shape
  <2> HIDE DEF e
  <2> QED
    BY <1>11, <2>1 DEF Bounded, Small, Waits, Reads, Top
<1> QED
  BY <1>1, <1>11, <1>12, ReturnBounded

(* Every step of consume keeps the bounds of its buffer.                   *)
LEMMA BufferNext == BufferInv /\ [Next]_vars => BufferInv'
<1> SUFFICES ASSUME BufferInv, [Next]_vars PROVE BufferInv'
  OBVIOUS
<1>1. CASE \E n \in 1..Len(WholeWire(stream)) : Receive(n)
  BY <1>1, ReceiveBounded
<1>2. CASE Spill \/ RefuseHead \/ SpillHead \/ RefuseMessage
  BY <1>2, RefuseBounded
<1>3. CASE ConsumePart
  BY <1>3, ConsumePartBounded
<1>4. CASE ContinuePart
  BY <1>4, ContinuePartBounded
<1>5. CASE \E app \in Reactions : ConsumeWhole(app)
  BY <1>5, ConsumeWholeBounded
<1>6. CASE \E app \in Reactions : ContinueWhole(app)
  BY <1>6, ContinueWholeBounded
<1>7. CASE UNCHANGED vars
  BY <1>7 DEF vars, BufferInv
<1> QED
  BY <1>1, <1>2, <1>3, <1>4, <1>5, <1>6, <1>7 DEF Next

(* Whatever the peer sends, one message of the allowed size and one        *)
(* control frame are all that handleFragment ever keeps for a connection.  *)
THEOREM BufferStaysBounded == Spec => []BufferBounded
<1>1. BufferInv => BufferBounded
  BY DEF BufferInv, Bounded, Small, BufferBounded
<1> QED
  BY <1>1, BufferInit, BufferNext, PTL DEF Spec

(* Once a connection is closed, ended or left, consume makes no more of    *)
(* what arrives: no event, no reply, no change of its state.               *)
THEOREM SilentWhenBroken == Spec => SilentOnceBroken
<1>1. BufferInv /\ [Next]_vars => [conn.state # "open" => conn' = conn /\ ~busy']_vars
  <2> SUFFICES ASSUME BufferInv, Next, conn.state # "open" PROVE conn' = conn /\ ~busy'
    BY DEF vars
  <2>1. ~busy
    BY DEF BufferInv
  <2> QED
    BY <2>1 DEF Next, Receive, Spill, RefuseHead, SpillHead, RefuseMessage, ConsumePart,
         ContinuePart, ConsumeWhole, ContinueWhole, HasHead, AtHead
<1> QED
  BY <1>1, BufferInit, BufferNext, PTL DEF Spec, SilentOnceBroken

-----------------------------------------------------------------------------
(* What the frames of a stream mean, one after another.                    *)

(* A frame keeps a meaning fair, and settled once it is; an open meaning   *)
(* is within a message behind an unfinished data frame only.               *)
LEMMA MeantFair ==
    ASSUME NEW m, Fair(m), NEW f \in Frames
    PROVE  LET r == Meant(m, f)
           IN  /\ Fair(r) /\ Adds(m, r)
               /\ m.verdict # "open" => r = m
               /\ r.verdict = "open" /\ r.op = CONTINUATION => f.fin = TRUE
               /\ r.verdict = "open" /\ r.op # CONTINUATION /\ f.op < 3 => f.fin = FALSE
<1> DEFINE r == Meant(m, f)
           op == OpOf(m, f)
           data == m.data \o f.payload
           packed == m.compressed \/ f.rsv1
           Goal(q) == /\ Fair(q) /\ Adds(m, q)
                      /\ m.verdict # "open" => q = m
                      /\ q.verdict = "open" /\ q.op = CONTINUATION => f.fin = TRUE
                      /\ q.verdict = "open" /\ q.op # CONTINUATION /\ f.op < 3 => f.fin = FALSE
<1>1. m \in MeaningSet
  BY DEF Fair
<1>2. /\ m.op \in 0..2 /\ m.data \in Seq(Byte) /\ m.compressed \in BOOLEAN
      /\ m.verdict \in {"open", "closed", "ended"}
      /\ m.events \in Seq(Note) /\ m.replies \in Seq(Note)
      /\ m = [op |-> m.op, data |-> m.data, compressed |-> m.compressed,
              verdict |-> m.verdict, events |-> m.events, replies |-> m.replies]
  BY <1>1 DEF MeaningSet
<1>3. /\ f.op \in 0..15 /\ f.fin \in BOOLEAN /\ f.rsv1 \in BOOLEAN /\ f.payload \in Seq(Byte)
  BY DEF Frames
<1>4. data \in Seq(Byte) /\ Len(data) \in Nat /\ op \in 0..15
  <2>1. data \in Seq(Byte)
    BY <1>2, <1>3, ConcatProperties
  <2> HIDE DEF data
  <2> QED
    BY <1>2, <1>3, <2>1, LenProperties DEF OpOf
<1>5. Begins(m.events, m.events) /\ Begins(m.replies, m.replies)
  BY <1>2, LenProperties DEF Begins
<1>6. MaxPayload \in Nat
  BY SizeAssumption
<1> HIDE DEF data, op
<1>7. Goal(Refused(m)) \/ m.verdict # "open"
  <2> DEFINE q == Refused(m)
  <2>1. Fair(q) /\ Adds(m, q) /\ q.verdict = "closed"
    BY RefusedFair
  <2> HIDE DEF q
  <2> QED
    BY <2>1 DEF q
<1>8. r = IF m.verdict # "open" THEN m
          ELSE IF Illegal(m, f) THEN Refused(m)
          ELSE IF op = CLOSE
          THEN [m EXCEPT !.verdict = "ended",
                         !.replies = Append(@, [op |-> CLOSE,
                             data |-> IF LegalClose(f.payload) THEN f.payload ELSE <<>>])]
          ELSE IF op > 2
          THEN [m EXCEPT !.events = Append(@, [op |-> op, data |-> f.payload]),
                         !.replies = IF op = PING THEN Append(@, [op |-> PONG, data |-> f.payload])
                                     ELSE @]
          ELSE IF Len(data) > MaxPayload THEN Refused(m)
          ELSE IF ~f.fin THEN [m EXCEPT !.op = op, !.data = data, !.compressed = packed]
          ELSE IF ~packed THEN Message(m, op, data)
          ELSE IF Corrupt \in Range(data) \/ 2 * Len(data) > MaxPayload THEN Refused(m)
          ELSE Message(m, op, Expand(data))
  BY DEF Meant, op, data
<1> HIDE DEF r, Goal
<1> SUFFICES Goal(r)
  BY DEF Goal, r
<1>9. CASE m.verdict # "open"
  <2>1. r = m
    BY <1>8, <1>9
  <2> QED
    BY <1>5, <1>9, <2>1 DEF Goal, Adds
<1>10. CASE m.verdict = "open" /\ Illegal(m, f)
  <2>1. r = Refused(m)
    BY <1>8, <1>10
  <2> QED
    BY <1>7, <1>10, <2>1
<1>11. CASE m.verdict = "open" /\ ~Illegal(m, f) /\ op = CLOSE
  <2> DEFINE note == [op |-> CLOSE, data |-> IF LegalClose(f.payload) THEN f.payload ELSE <<>>]
             re == Append(m.replies, note)
  <2>1. r = [m EXCEPT !.verdict = "ended", !.replies = re]
    BY <1>8, <1>11
  <2>2. note \in Note
    <3>1. <<>> \in Seq(Byte)
      BY EmptySeq
    <3> QED
      BY <1>3, <3>1 DEF Note, CLOSE
  <2> HIDE DEF note
  <2>3. re \in Seq(Note) /\ Begins(m.replies, re)
    BY <1>2, <2>2, BeginsAppend
  <2> HIDE DEF re
  <2>4. r = [op |-> m.op, data |-> m.data, compressed |-> m.compressed,
             verdict |-> "ended", events |-> m.events, replies |-> re]
    BY <1>2, <2>1
  <2>5. r \in MeaningSet
    BY <1>2, <2>3, <2>4 DEF MeaningSet
  <2> QED
    BY <1>5, <1>11, <2>3, <2>4, <2>5 DEF Goal, Fair, Adds
<1>12. CASE m.verdict = "open" /\ ~Illegal(m, f) /\ op # CLOSE /\ op > 2
  <2> DEFINE note == [op |-> op, data |-> f.payload]
             pong == [op |-> PONG, data |-> f.payload]
             ev == Append(m.events, note)
             rp == Append(m.replies, pong)
             re == IF op = PING THEN rp ELSE m.replies
  <2>1. r = [m EXCEPT !.events = ev, !.replies = re]
    BY <1>8, <1>12
  <2>2. note \in Note /\ pong \in Note
    BY <1>3, <1>4 DEF Note, PONG
  <2> HIDE DEF note, pong
  <2>3. /\ ev \in Seq(Note) /\ Begins(m.events, ev)
        /\ rp \in Seq(Note) /\ Begins(m.replies, rp)
    BY <1>2, <2>2, BeginsAppend
  <2> HIDE DEF ev, rp
  <2>4. re \in Seq(Note) /\ Begins(m.replies, re)
    BY <1>2, <1>5, <2>3
  <2> HIDE DEF re
  <2>5. r = [op |-> m.op, data |-> m.data, compressed |-> m.compressed,
             verdict |-> m.verdict, events |-> ev, replies |-> re]
    BY <1>2, <2>1
  <2>6. r \in MeaningSet
    BY <1>2, <2>3, <2>4, <2>5 DEF MeaningSet
  <2>7. f.op = op /\ ~(f.op < 3) /\ f.fin = TRUE
    <3>1. f.op = op
      BY <1>2, <1>12 DEF op, OpOf, CONTINUATION
    <3>2. ~BadHead(f)
      BY <1>12 DEF Illegal
    <3> QED
      BY <1>3, <1>4, <1>12, <3>1, <3>2 DEF BadHead
  <2> QED
    BY <1>12, <2>3, <2>4, <2>5, <2>6, <2>7 DEF Goal, Fair, Adds
<1>13. ASSUME m.verdict = "open", ~Illegal(m, f), op # CLOSE, ~(op > 2)
       PROVE  op \in 1..2 /\ f.op \in 0..2 /\ (packed => Negotiated)
  <2>1. op # CONTINUATION /\ (f.rsv1 => Negotiated)
    BY <1>13 DEF Illegal, op
  <2>2. m.compressed => Negotiated
    BY DEF Fair
  <2>3. f.op \in 0..2
    BY <1>3, <1>4, <1>13 DEF op, OpOf, CONTINUATION
  <2> QED
    BY <1>4, <1>13, <2>1, <2>2, <2>3 DEF CONTINUATION
<1>14. CASE m.verdict = "open" /\ ~Illegal(m, f) /\ op # CLOSE /\ ~(op > 2) /\ Len(data) > MaxPayload
  <2>1. r = Refused(m)
    BY <1>8, <1>14
  <2> QED
    BY <1>7, <1>14, <2>1
<1>15. CASE /\ m.verdict = "open" /\ ~Illegal(m, f) /\ op # CLOSE /\ ~(op > 2)
            /\ ~(Len(data) > MaxPayload) /\ ~f.fin
  <2>1. r = [m EXCEPT !.op = op, !.data = data, !.compressed = packed]
    BY <1>8, <1>15
  <2>2. packed \in BOOLEAN
    OBVIOUS
  <2>3. op \in 1..2 /\ (packed => Negotiated)
    BY <1>13, <1>15
  <2> HIDE DEF packed
  <2>4. r = [op |-> op, data |-> data, compressed |-> packed,
             verdict |-> m.verdict, events |-> m.events, replies |-> m.replies]
    BY <1>2, <2>1
  <2>5. r \in MeaningSet
    BY <1>2, <1>4, <2>2, <2>3, <2>4 DEF MeaningSet
  <2>6. r.op # CONTINUATION
    BY <2>3, <2>4 DEF CONTINUATION
  <2>7. Len(data) <= MaxPayload
    BY <1>4, <1>6, <1>15
  <2>8. Fair(r)
    BY <2>3, <2>4, <2>5, <2>6, <2>7 DEF Fair
  <2> QED
    BY <1>3, <1>5, <1>15, <2>4, <2>6, <2>8 DEF Goal, Adds
<1>16. ASSUME m.verdict = "open", ~Illegal(m, f), op # CLOSE, ~(op > 2), f.fin,
              NEW text \in Seq(Byte), r = Message(m, op, text)
       PROVE  Goal(r)
  <2>1. op \in 1..2
    BY <1>13, <1>16
  <2>2. /\ Fair(r) /\ Adds(m, r)
        /\ op = TEXT /\ ~WellFormed(text) => r = Refused(m)
        /\ ~(op = TEXT /\ ~WellFormed(text)) => r.op = CONTINUATION
    BY <1>16, <2>1, MessageFair
  <2>3. CASE op = TEXT /\ ~WellFormed(text)
    BY <1>7, <1>16, <2>2, <2>3
  <2>4. CASE ~(op = TEXT /\ ~WellFormed(text))
    BY <1>3, <1>16, <2>2, <2>4 DEF Goal
  <2> QED
    BY <2>3, <2>4
<1>17. CASE /\ m.verdict = "open" /\ ~Illegal(m, f) /\ op # CLOSE /\ ~(op > 2)
            /\ ~(Len(data) > MaxPayload) /\ f.fin /\ ~packed
  <2>1. r = Message(m, op, data)
    BY <1>8, <1>17
  <2> QED
    BY <1>4, <1>16, <1>17, <2>1
<1>18. CASE /\ m.verdict = "open" /\ ~Illegal(m, f) /\ op # CLOSE /\ ~(op > 2)
            /\ ~(Len(data) > MaxPayload) /\ f.fin /\ packed
            /\ (Corrupt \in Range(data) \/ 2 * Len(data) > MaxPayload)
  <2>1. r = Refused(m)
    BY <1>8, <1>18
  <2> QED
    BY <1>7, <1>18, <2>1
<1>19. CASE /\ m.verdict = "open" /\ ~Illegal(m, f) /\ op # CLOSE /\ ~(op > 2)
            /\ ~(Len(data) > MaxPayload) /\ f.fin /\ packed
            /\ ~(Corrupt \in Range(data) \/ 2 * Len(data) > MaxPayload)
  <2>1. r = Message(m, op, Expand(data))
    BY <1>8, <1>19
  <2>2. Expand(data) \in Seq(Byte)
    BY <1>4, Inflates
  <2> QED
    BY <1>16, <1>19, <2>1, <2>2
<1> QED
  BY <1>9, <1>10, <1>11, <1>12, <1>14, <1>15, <1>17, <1>18, <1>19

(* A meaning and a later one.                                              *)
Leads(m, r) == Adds(m, r) /\ (m.verdict # "open" => r = m)

(* A meaning leads to itself.                                              *)
LEMMA LeadsItself ==
    ASSUME NEW m, Fair(m)
    PROVE  Leads(m, m)
<1>1. m.events \in Seq(Note) /\ m.replies \in Seq(Note)
  BY DEF Fair, MeaningSet
<1> QED
  BY <1>1, LenProperties DEF Leads, Adds, Begins

(* What leads to a meaning leads where that one leads.                     *)
LEMMA LeadsOn ==
    ASSUME NEW m, NEW n, NEW r, Fair(m), Fair(n), Fair(r), Leads(m, n), Leads(n, r)
    PROVE  Leads(m, r)
<1>1. /\ m.events \in Seq(Note) /\ n.events \in Seq(Note) /\ r.events \in Seq(Note)
      /\ m.replies \in Seq(Note) /\ n.replies \in Seq(Note) /\ r.replies \in Seq(Note)
  BY DEF Fair, MeaningSet
<1>2. ASSUME NEW x \in Seq(Note), NEW y \in Seq(Note), NEW z \in Seq(Note),
             Begins(x, y), Begins(y, z)
      PROVE  Begins(x, z)
  <2>1. Len(x) \in Nat /\ Len(y) \in Nat /\ Len(z) \in Nat
    BY LenProperties
  <2> QED
    BY <1>2, <2>1 DEF Begins
<1>3. Adds(m, r)
  BY <1>1, <1>2 DEF Leads, Adds
<1> QED
  BY <1>3 DEF Leads

(* Every meaning of a stream is fair and leads to the later ones.          *)
LEMMA MeaningsLead ==
    ASSUME NEW fs \in Seq(Frames)
    PROVE  \A k \in 0..Len(fs) :
              Fair(Meanings(fs)[k]) /\ \A j \in 0..k : Leads(Meanings(fs)[j], Meanings(fs)[k])
<1> DEFINE N == Len(fs)
           M(k) == Meanings(fs)[k]
           Good(k) == Fair(M(k)) /\ \A j \in 0..k : Fair(M(j)) /\ Leads(M(j), M(k))
           S == {k \in Nat : k \in 0..N => Good(k)}
<1>1. N \in Nat /\ M(0) = NothingYet /\ \A k \in 0..(N - 1) : M(k + 1) = Meant(M(k), fs[k + 1])
  <2>1. N \in Nat
    BY LenProperties
  <2> QED
    BY <2>1, MeaningsAre
<1>2. Fair(NothingYet) /\ Leads(NothingYet, NothingYet)
  <2>1. /\ <<>> \in Seq(Byte) /\ <<>> \in Seq(Note) /\ Len(<<>>) = 0 /\ MaxPayload \in Nat
    BY EmptySeq, SizeAssumption
  <2>2. Begins(<<>>, <<>>)
    BY <2>1 DEF Begins
  <2> QED
    BY <2>1, <2>2 DEF Fair, MeaningSet, NothingYet, Leads, Adds, CONTINUATION
<1> HIDE DEF M, N
<1>3. 0 \in S
  <2>1. \A j \in 0..0 : j = 0
    OBVIOUS
  <2> QED
    BY <1>1, <1>2, <2>1
<1>4. ASSUME NEW k \in S, k < N PROVE k + 1 \in S
  <2>1. k \in 0..N /\ k \in 0..(N - 1) /\ k + 1 \in 1..N /\ k \in Nat
    BY <1>1, <1>4
  <2>2. Fair(M(k)) /\ \A j \in 0..k : Fair(M(j)) /\ Leads(M(j), M(k))
    BY <2>1
  <2> HIDE DEF S
  <2>3. fs[k + 1] \in Frames
    <3>1. k + 1 \in 1..Len(fs)
      BY <2>1 DEF N
    <3> QED
      BY <3>1, ElementOfSeq
  <2>4. Fair(M(k + 1)) /\ Leads(M(k), M(k + 1))
    <3> DEFINE m == M(k)
               f == fs[k + 1]
               r == Meant(m, f)
    <3>1. M(k + 1) = r
      BY <1>1, <2>1
    <3>2. Fair(m) /\ f \in Frames
      BY <2>2, <2>3
    <3> HIDE DEF m, f
    <3>3. Fair(r) /\ Adds(m, r) /\ (m.verdict # "open" => r = m)
      BY <3>2, MeantFair
    <3> HIDE DEF r
    <3>4. Fair(r) /\ Leads(m, r)
      BY <3>3 DEF Leads
    <3> QED
      BY <3>1, <3>4 DEF m
  <2>5. \A j \in 0..k : Fair(M(j)) /\ Leads(M(j), M(k + 1))
    <3> SUFFICES ASSUME NEW j \in 0..k PROVE Fair(M(j)) /\ Leads(M(j), M(k + 1))
      OBVIOUS
    <3>1. Fair(M(j)) /\ Leads(M(j), M(k))
      BY <2>2
    <3> DEFINE x == M(j)
               y == M(k)
               z == M(k + 1)
    <3>3. Leads(x, y) /\ Leads(y, z) /\ Fair(x) /\ Fair(y) /\ Fair(z)
      BY <2>2, <2>4, <3>1
    <3> HIDE DEF x, y, z
    <3>4. Leads(x, z)
      BY <3>3, LeadsOn
    <3> QED
      BY <3>3, <3>4 DEF x, z
  <2>6. Leads(M(k + 1), M(k + 1))
    BY <2>4, LeadsItself
  <2>7. \A j \in 0..(k + 1) : j \in 0..k \/ j = k + 1
    BY <2>1
  <2>8. \A j \in 0..(k + 1) : Fair(M(j)) /\ Leads(M(j), M(k + 1))
    BY <2>4, <2>5, <2>6, <2>7
  <2>9. k + 1 \in Nat
    BY <2>1
  <2> QED
    BY <2>4, <2>8, <2>9 DEF S
<1>5. \A k \in 0..N : k \in S
  <2> HIDE DEF S
  <2>1. S \in SUBSET Nat
    BY DEF S
  <2> QED
    BY <1>1, <1>3, <1>4, <2>1, InductTo
<1> QED
  BY <1>5 DEF M, N

-----------------------------------------------------------------------------
(* A connection and what it has read.                                      *)

(* The stack and the compression mark that a meaning calls for.            *)
Stack(m) == IF m.op = CONTINUATION THEN <<>> ELSE <<m.op>>
Comp(packed) == IF ~Negotiated THEN "disabled" ELSE IF packed THEN "compressed" ELSE "enabled"

(* Between two frames.                                                     *)
Settled(c, m) ==
    /\ Shape(c) /\ c.state = "open" /\ m.verdict = "open"
    /\ c.opStack = Stack(m) /\ c.fragment = m.data /\ c.tip = 0
    /\ c.compression = Comp(m.compressed)
    /\ c.events = m.events /\ c.replies = m.replies

(* In frame f, of whose payload d bytes have been read.                    *)
Opened(c, m, f) ==
    /\ Shape(c) /\ c.state = "open" /\ m.verdict = "open" /\ ~Illegal(m, f)
    /\ c.opStack = IF f.op = CONTINUATION THEN Stack(m) ELSE Append(Stack(m), f.op)
    /\ c.lastFin = f.fin /\ c.compression = Comp(m.compressed \/ f.rsv1)
    /\ c.events = m.events /\ c.replies = m.replies
Taking(c, m, f, d) ==
    /\ Opened(c, m, f)
    /\ c.fragment = m.data \o SubSeq(f.payload, 1, d)
    /\ c.tip = IF f.op < 3 THEN 0 ELSE d

(* Behind the frame that broke the connection.                             *)
Broken(c, m) ==
    /\ Shape(c) /\ c.state # "open"
    /\ c.events = m.events /\ c.replies = m.replies
    /\ c.state \in {"closed", "ended"} => m.verdict = c.state

(* The reserved bit that marks compression is on messages only.            *)
MarksMessages(f) == f.rsv1 => f.op \in {TEXT, BINARY}

(* What is on top of the stack, and below it.                              *)
LEMMA TopIs ==
    ASSUME NEW c, NEW m, Fair(m), NEW f \in Frames, Opened(c, m, f)
    PROVE  /\ Top(c) = OpOf(m, f) /\ OpOf(m, f) \in 1..15 /\ (OpOf(m, f) < 3 <=> f.op < 3)
           /\ f.op < 3 => Front(c.opStack) = <<>> /\ c.opStack = <<OpOf(m, f)>>
           /\ ~(f.op < 3) => /\ Front(c.opStack) = Stack(m) /\ f.fin = TRUE
                             /\ OpOf(m, f) = f.op /\ f.op \in 8..10
<1>1. m.op \in 0..2 /\ f.op \in 0..15 /\ f.fin \in BOOLEAN
  BY DEF Fair, MeaningSet, Frames
<1>2. ~Illegal(m, f) /\ c.opStack = IF f.op = CONTINUATION THEN Stack(m) ELSE Append(Stack(m), f.op)
  BY DEF Opened
<1>3. /\ OpOf(m, f) # 0 /\ ~BadHead(f)
      /\ ~(f.op \in {TEXT, BINARY} /\ m.op # CONTINUATION)
  BY <1>2 DEF Illegal, CONTINUATION
<1>4. OpOf(m, f) = IF f.op = 0 THEN m.op ELSE f.op
  BY DEF OpOf, CONTINUATION
<1>5. \A x \in Nat : /\ Append(<<>>, x) = <<x>> /\ Front(<<x>>) = <<>>
                     /\ Len(<<x>>) = 1 /\ <<x>>[1] = x
  <2> SUFFICES ASSUME NEW x \in Nat
               PROVE  /\ Append(<<>>, x) = <<x>> /\ Front(<<x>>) = <<>>
                      /\ Len(<<x>>) = 1 /\ <<x>>[1] = x
    OBVIOUS
  <2>1. <<>> \in Seq(Nat)
    BY EmptySeq
  <2>2. Append(<<>>, x) = <<x>>
    OBVIOUS
  <2>3. Front(Append(<<>>, x)) = <<>>
    BY <2>1, Fronts
  <2> QED
    BY <2>2, <2>3
<1>6. CASE f.op = 0
  <2>1. m.op \in 1..2 /\ c.opStack = <<m.op>>
    BY <1>1, <1>2, <1>3, <1>4, <1>6 DEF Stack, CONTINUATION
  <2>2. Front(c.opStack) = <<>> /\ Top(c) = m.op
    BY <1>5, <2>1 DEF Top
  <2> QED
    BY <1>4, <1>6, <2>1, <2>2
<1>7. CASE f.op \in 1..2
  <2>1. m.op = 0
    BY <1>3, <1>7 DEF TEXT, BINARY, CONTINUATION
  <2>2. c.opStack = Append(<<>>, f.op)
    BY <1>2, <1>7, <2>1 DEF Stack, CONTINUATION
  <2>3. c.opStack = <<f.op>>
    BY <1>5, <1>7, <2>2
  <2>4. Front(c.opStack) = <<>> /\ Top(c) = f.op
    BY <1>5, <1>7, <2>3 DEF Top
  <2> QED
    BY <1>4, <1>7, <2>3, <2>4
<1>8. CASE f.op \in 3..15
  <2>1. c.opStack = Append(Stack(m), f.op)
    BY <1>2, <1>8 DEF CONTINUATION
  <2>2. Stack(m) \in Seq(Nat)
    <3>1. <<>> \in Seq(Nat) /\ \A x \in Nat : <<x>> \in Seq(Nat)
      BY EmptySeq
    <3> QED
      BY <1>1, <3>1 DEF Stack
  <2> HIDE DEF Stack
  <2>3. Front(c.opStack) = Stack(m) /\ Top(c) = f.op
    BY <2>1, <2>2, Fronts DEF Top
  <2>4. f.fin = TRUE /\ f.op \in 8..10
    BY <1>1, <1>3, <1>8 DEF BadHead
  <2> QED
    BY <1>4, <1>8, <2>3, <2>4
<1>9. f.op = 0 \/ f.op \in 1..2 \/ f.op \in 3..15
  BY <1>1
<1> QED
  BY <1>6, <1>7, <1>8, <1>9, Zenon

(* What was kept and the next piece.                                       *)
IsJoined(a, p, d, e) ==
    /\ a \o SubSeq(p, 1, d) \in Seq(Byte)
    /\ Len(a \o SubSeq(p, 1, d)) = Len(a) + d
    /\ SubSeq(p, d + 1, e) \in Seq(Byte) /\ Len(SubSeq(p, d + 1, e)) = e - d
    /\ (a \o SubSeq(p, 1, d)) \o SubSeq(p, d + 1, e) = a \o SubSeq(p, 1, e)
    /\ e = Len(p) => a \o SubSeq(p, 1, e) = a \o p

(* Two pieces of a payload that lie side by side, joined behind what there *)
(* was, are one piece.                                                     *)
LEMMA Joined ==
    ASSUME NEW a \in Seq(Byte), NEW p \in Seq(Byte), NEW d \in Nat, NEW e \in Nat,
           d <= e, e <= Len(p)
    PROVE  IsJoined(a, p, d, e)
<1> DEFINE x == SubSeq(p, 1, d)
           y == SubSeq(p, d + 1, e)
           z == SubSeq(p, 1, e)
<1>0. Len(p) \in Nat /\ Len(a) \in Nat
  BY LenProperties
<1>1. x \in Seq(Byte) /\ Len(x) = d
  <2>1. /\ SubSeq(p, 0 + 1, d) \in Seq(Byte)
        /\ Len(SubSeq(p, 0 + 1, d)) = IF 0 <= d THEN d - 0 ELSE 0
    <3>1. 0 \in Nat /\ d <= Len(p)
      BY <1>0
    <3> QED
      BY <3>1, Pieces
  <2> QED
    BY <2>1
<1>2. y \in Seq(Byte) /\ Len(y) = e - d
  BY Pieces
<1>3. x \o y = z
  <2>1. 1 \in 1..Len(p) + 1 /\ d \in 1 - 1..Len(p) /\ e \in d..Len(p)
    BY <1>0
  <2> QED
    BY <2>1, ConcatAdjacentSubSeq
<1>4. e = Len(p) => z = p
  BY SubSeqFull
<1> HIDE DEF x, y, z
<1>5. (a \o x) \o y = a \o (x \o y)
  BY <1>1, <1>2, ConcatAssociative, SMTT(30)
<1>6. a \o x \in Seq(Byte) /\ Len(a \o x) = Len(a) + Len(x)
  BY <1>1, ConcatProperties
<1> QED
  BY <1>1, <1>2, <1>3, <1>4, <1>5, <1>6 DEF x, y, z, IsJoined

(* A piece inside a frame is kept, or refused as the frame is.             *)
LEMMA TakePart ==
    ASSUME NEW m, Fair(m), NEW f \in Frames, NEW d \in Nat, NEW e \in Nat,
           d <= e, e <= Len(f.payload), NEW c, Taking(c, m, f, d),
           NEW rest, NEW app, ~(rest = 0 /\ f.fin)
    PROVE  LET r == HandleFragment(c, SubSeq(f.payload, d + 1, e), rest, Top(c), f.fin, app)
           IN  /\ Keeps(c, r)
               /\ \/ /\ Taking(r, m, f, e)
                     /\ ~(f.op < 3 /\ Len(m.data \o SubSeq(f.payload, 1, e)) > MaxPayload)
                  \/ Broken(r, Meant(m, f)) /\ Meant(m, f) = Refused(m)
<1> DEFINE data == SubSeq(f.payload, d + 1, e)
           r == HandleFragment(c, data, rest, Top(c), f.fin, app)
           before == m.data \o SubSeq(f.payload, 1, d)
           full == m.data \o SubSeq(f.payload, 1, e)
           long == OpOf(m, f) < 3 /\ Len(full) > MaxPayload
<1>1. m.data \in Seq(Byte) /\ f.payload \in Seq(Byte) /\ Len(m.data) \in Nat /\ Len(f.payload) \in Nat
  <2>1. m.data \in Seq(Byte) /\ f.payload \in Seq(Byte)
    BY DEF Fair, MeaningSet, Frames
  <2> QED
    BY <2>1, LenProperties
<1>2. /\ before \in Seq(Byte) /\ data \in Seq(Byte) /\ Len(data) = e - d
      /\ before \o data = full
  <2> DEFINE a == m.data
             q == f.payload
  <2>1. a \in Seq(Byte) /\ q \in Seq(Byte) /\ e <= Len(q)
    BY <1>1
  <2> HIDE DEF a, q
  <2>2. /\ a \o SubSeq(q, 1, d) \in Seq(Byte)
        /\ SubSeq(q, d + 1, e) \in Seq(Byte) /\ Len(SubSeq(q, d + 1, e)) = e - d
        /\ (a \o SubSeq(q, 1, d)) \o SubSeq(q, d + 1, e) = a \o SubSeq(q, 1, e)
    <3>1. IsJoined(a, q, d, e)
      BY <2>1, Joined
    <3> QED
      BY <3>1 DEF IsJoined
  <2> QED
    BY <2>2 DEF a, q
<1>3. Len(full) = Len(m.data) + e
  <2>1. e <= e
    OBVIOUS
  <2> QED
    BY <1>1, <2>1, Joined DEF IsJoined
<1>4. Opened(c, m, f) /\ c.fragment = before /\ c.tip = IF f.op < 3 THEN 0 ELSE d
  BY DEF Taking
<1>5. Top(c) = OpOf(m, f) /\ OpOf(m, f) \in 1..15 /\ (OpOf(m, f) < 3 <=> f.op < 3)
  BY <1>4, TopIs
<1> HIDE DEF data, before, full
<1>6. /\ Keeps(c, r) /\ Silent(c, r) /\ r.compression = c.compression
      /\ long => r.state = "closed" /\ r.fragment = c.fragment /\ r.tip = c.tip
      /\ ~long => /\ r.state = c.state /\ r.fragment = full
                  /\ r.tip = IF OpOf(m, f) < 3 THEN c.tip ELSE c.tip + Len(data)
  <2> DEFINE op == OpOf(m, f)
             fin == f.fin
             g == HandleFragment(c, data, rest, op, fin, app)
             whole == c.fragment \o data
             wide == op < 3 /\ Len(whole) > MaxPayload
  <2>1. Shape(c) /\ c.fragment \in Seq(Byte) /\ ~(rest = 0 /\ fin)
    BY <1>2, <1>4 DEF Opened
  <2> HIDE DEF op, fin
  <2>2. /\ Keeps(c, g) /\ Silent(c, g) /\ g.compression = c.compression
        /\ wide => g.state = "closed" /\ g.fragment = c.fragment /\ g.tip = c.tip
        /\ ~wide => /\ g.state = c.state /\ g.fragment = whole
                    /\ g.tip = IF op < 3 THEN c.tip ELSE c.tip + Len(data)
    BY <1>2, <2>1, Grows
  <2>3. whole = full /\ r = g
    BY <1>2, <1>4, <1>5 DEF op, fin
  <2> HIDE DEF whole, g, r
  <2> QED
    BY <2>2, <2>3 DEF op
<1> HIDE DEF r
<1>7. CASE long
  <2>1. Len(m.data \o f.payload) > MaxPayload
    <3> DEFINE x == Len(m.data)
               y == Len(f.payload)
               z == Len(full)
               n == Len(m.data \o f.payload)
    <3>1. n = x + y
      BY <1>1, ConcatProperties
    <3>2. MaxPayload \in Nat /\ x \in Nat /\ y \in Nat /\ e <= y /\ z = x + e /\ z > MaxPayload
      BY <1>1, <1>3, <1>7, SizeAssumption
    <3> HIDE DEF n, x, y, z
    <3>3. n > MaxPayload
      BY <3>1, <3>2
    <3> QED
      BY <3>3 DEF n
  <2>2. m.verdict = "open" /\ ~Illegal(m, f)
    BY <1>4 DEF Opened
  <2>3. ~(OpOf(m, f) > 2) /\ OpOf(m, f) # CLOSE
    BY <1>5, <1>7 DEF CLOSE
  <2>4. Meant(m, f) = Refused(m)
    BY <2>1, <2>2, <2>3 DEF Meant
  <2>5. /\ Refused(m).verdict = "closed" /\ Refused(m).events = m.events
        /\ Refused(m).replies = m.replies
    BY RefusedFair
  <2>6. Broken(r, Refused(m))
    BY <1>4, <1>6, <1>7, <2>5 DEF Broken, Keeps, Silent, Opened
  <2> QED
    BY <1>6, <2>4, <2>6 DEF r, data
<1>8. CASE ~long
  <2>1. r.tip = IF f.op < 3 THEN 0 ELSE e
    <3>1. CASE f.op < 3
      BY <1>4, <1>5, <1>6, <1>8, <3>1
    <3>2. CASE ~(f.op < 3)
      <4>1. c.tip = d /\ r.tip = c.tip + Len(data)
        BY <1>4, <1>5, <1>6, <1>8, <3>2
      <4>2. r.tip = e
        BY <1>2, <4>1
      <4> QED
        BY <3>2, <4>2
    <3> QED
      BY <3>1, <3>2
  <2>2. Opened(r, m, f)
    BY <1>4, <1>6, <1>8 DEF Opened, Keeps, Silent
  <2>3. Taking(r, m, f, e)
    BY <1>6, <1>8, <2>1, <2>2 DEF Taking, full
  <2>4. ~(f.op < 3 /\ Len(full) > MaxPayload)
    BY <1>5, <1>8
  <2> QED
    BY <1>6, <2>3, <2>4 DEF r, data, full
<1> QED
  BY <1>7, <1>8

(* What the last piece of a frame makes of a connection.                   *)
Done(c, r, m) ==
    /\ r.wantsHead = c.wantsHead /\ r.spill = c.spill /\ r.lastFin = c.lastFin
    /\ Settled(r, m) \/ Broken(r, m)

(* The top of the stack is dropped behind a frame that did not break.      *)
LEMMA Pops ==
    ASSUME NEW h, Shape(h), NEW stack, Front(h.opStack) = stack
    PROVE  LET r == Popped(h, TRUE)
           IN  /\ h.state = "open" =>
                     /\ Shape(r) /\ Silent(h, r) /\ r.wantsHead = h.wantsHead /\ r.spill = h.spill
                     /\ r.lastFin = h.lastFin /\ r.fragment = h.fragment /\ r.tip = h.tip
                     /\ r.state = h.state /\ r.compression = h.compression /\ r.opStack = stack
               /\ h.state # "open" => r = h
<1> DEFINE r == Popped(h, TRUE)
<1>1. r = IF h.state = "open" THEN [h EXCEPT !.opStack = stack] ELSE h
  BY DEF Popped
<1> HIDE DEF r
<1>2. CASE h.state = "open"
  BY <1>1, <1>2 DEF Shape, Silent, r
<1>3. CASE h.state # "open"
  BY <1>1, <1>3 DEF r
<1> QED
  BY <1>2, <1>3

(* Behind a handler, a connection is settled or broken.                    *)
LEMMA PoppedDone ==
    ASSUME NEW c, NEW h, Keeps(c, h), NEW m,
           h.events = m.events, h.replies = m.replies,
           h.state \in {"closed", "ended"} => m.verdict = h.state,
           h.state = "open" => /\ m.verdict = "open" /\ Front(c.opStack) = Stack(m)
                               /\ h.fragment = m.data /\ h.tip = 0
                               /\ h.compression = Comp(m.compressed)
    PROVE  Done(c, Popped(h, TRUE), m)
<1> DEFINE r == Popped(h, TRUE)
           stack == Front(h.opStack)
<1>1. Shape(h) /\ h.opStack = c.opStack
  BY DEF Keeps
<1> HIDE DEF stack
<1>2. /\ h.state = "open" =>
            /\ Shape(r) /\ Silent(h, r) /\ r.wantsHead = h.wantsHead /\ r.spill = h.spill
            /\ r.lastFin = h.lastFin /\ r.fragment = h.fragment /\ r.tip = h.tip
            /\ r.state = h.state /\ r.compression = h.compression /\ r.opStack = stack
      /\ h.state # "open" => r = h
  BY <1>1, Pops DEF stack
<1> HIDE DEF r
<1>3. CASE h.state = "open"
  <2>1. stack = Stack(m)
    BY <1>1, <1>3 DEF stack
  <2>2. Settled(r, m)
    BY <1>2, <1>3, <2>1 DEF Settled, Silent
  <2> QED
    BY <1>2, <1>3, <2>2 DEF Done, Keeps, r
<1>4. CASE h.state # "open"
  <2>1. Broken(h, m)
    BY <1>1, <1>4 DEF Broken
  <2> QED
    BY <1>2, <1>4, <2>1 DEF Done, Keeps, r
<1> QED
  BY <1>3, <1>4

(* The last piece of a message delivers the message, or refuses it.        *)
LEMMA TakeMessage ==
    ASSUME NEW m, Fair(m), NEW f \in Frames, f.op < 3, f.fin = TRUE,
           NEW d \in Nat, d <= Len(f.payload), NEW c, Taking(c, m, f, d), NEW app \in Reactions
    PROVE  Done(c, Popped(HandleFragment(c, SubSeq(f.payload, d + 1, Len(f.payload)), 0, Top(c),
                                         TRUE, app), TRUE), Meant(m, f))
<1> DEFINE data == SubSeq(f.payload, d + 1, Len(f.payload))
           op == OpOf(m, f)
           h == HandleFragment(c, data, 0, op, TRUE, app)
           before == m.data \o SubSeq(f.payload, 1, d)
           full == m.data \o f.payload
           packed == m.compressed \/ f.rsv1
           text == IF packed THEN Expand(full) ELSE full
           bad == \/ packed /\ (Corrupt \in Range(full) \/ 2 * Len(full) > MaxPayload)
                  \/ op = TEXT /\ ~WellFormed(text)
           r == Meant(m, f)
<1>1. /\ m.data \in Seq(Byte) /\ f.payload \in Seq(Byte) /\ Len(m.data) \in Nat
      /\ Len(f.payload) \in Nat /\ MaxPayload \in Nat
      /\ m.compressed \in BOOLEAN /\ f.rsv1 \in BOOLEAN
  <2>1. m.data \in Seq(Byte) /\ f.payload \in Seq(Byte) /\ m.compressed \in BOOLEAN /\ f.rsv1 \in BOOLEAN
    BY DEF Fair, MeaningSet, Frames
  <2> QED
    BY <2>1, LenProperties, SizeAssumption
<1>2. IsJoined(m.data, f.payload, d, Len(f.payload))
  <2>1. Len(f.payload) <= Len(f.payload)
    BY <1>1
  <2> QED
    BY <1>1, <2>1, Joined
<1>3. /\ before \in Seq(Byte) /\ Len(before) = Len(m.data) + d
      /\ data \in Seq(Byte) /\ Len(data) = Len(f.payload) - d /\ before \o data = full
  BY <1>2 DEF IsJoined
<1>4. full \in Seq(Byte) /\ Len(full) = Len(m.data) + Len(f.payload) /\ Len(full) \in Nat
  <2>1. full \in Seq(Byte) /\ Len(full) = Len(m.data) + Len(f.payload)
    BY <1>1, ConcatProperties
  <2>2. Len(full) \in Nat
    BY <2>1, LenProperties
  <2> HIDE DEF full
  <2> QED
    BY <2>1, <2>2
<1>5. Opened(c, m, f) /\ c.fragment = before /\ c.tip = 0
  BY DEF Taking
<1>6. /\ Shape(c) /\ c.state = "open" /\ m.verdict = "open" /\ ~Illegal(m, f)
      /\ c.events = m.events /\ c.replies = m.replies /\ c.compression = Comp(packed)
  BY <1>5 DEF Opened
<1>7. Top(c) = op /\ op \in 1..2 /\ Front(c.opStack) = <<>>
  <2>1. /\ Top(c) = op /\ op \in 1..15 /\ op < 3 /\ Front(c.opStack) = <<>>
    BY <1>5, TopIs
  <2> QED
    BY <2>1
<1>8. Len(f.payload) <= MaxPayload /\ (packed => Negotiated)
  <2>1. f.rsv1 => Negotiated
    BY <1>6 DEF Illegal
  <2>2. m.compressed => Negotiated
    BY DEF Fair
  <2>3. ~(Len(f.payload) > MaxPayload)
    BY <1>6 DEF Illegal
  <2> QED
    BY <1>1, <2>1, <2>2, <2>3
<1> HIDE DEF data, before, op
<1>9. AsMessage(c, h, data, op, app)
  <2>1. c.fragment \in Seq(Byte) /\ op < 3
    BY <1>3, <1>5, <1>7
  <2> QED
    BY <1>3, <1>6, <2>1, WholeMessage
<1>10. c.fragment \o data = full
  BY <1>3, <1>5
<1> HIDE DEF h, full
<1>11. (c.compression = "compressed") <=> packed
  BY <1>6, <1>8 DEF Comp
<1>12. /\ Keeps(c, h) /\ h.replies = c.replies /\ h.tip = 0
       /\ c.fragment # <<>> /\ Len(full) > MaxPayload => h.state = "closed" /\ h.events = c.events
  BY <1>5, <1>9, <1>10 DEF AsMessage
<1>13. /\ Expand(full) \in Seq(Byte)
       /\ Inflate(full)[1] <=> ~(Corrupt \in Range(full) \/ 2 * Len(full) > MaxPayload)
       /\ Inflate(full)[1] => Inflate(full)[2] = Expand(full)
  BY <1>4, Inflates
<1>14. (IsValidUtf8(full) <=> WellFormed(full)) /\ (IsValidUtf8(Expand(full)) <=> WellFormed(Expand(full)))
  BY <1>4, <1>13, Utf8Same
<1>15. ~(c.fragment # <<>> /\ Len(full) > MaxPayload) =>
          /\ h.compression = IF packed THEN "enabled" ELSE c.compression
          /\ bad => h.state = "closed" /\ h.events = c.events
          /\ ~bad => h.state = app /\ h.events = Append(c.events, [op |-> op, data |-> text])
          /\ h.state = "open" => h.fragment = <<>>
  <2> DEFINE packed1 == c.compression = "compressed"
             text1 == IF packed1 THEN Inflate(full)[2] ELSE full
             bad1 == \/ packed1 /\ ~Inflate(full)[1]
                     \/ op = TEXT /\ ~IsValidUtf8(text1)
  <2>1. ~(c.fragment # <<>> /\ Len(full) > MaxPayload) =>
          /\ h.compression = IF packed1 THEN "enabled" ELSE c.compression
          /\ bad1 => h.state = "closed" /\ h.events = c.events
          /\ ~bad1 => h.state = app /\ h.events = Append(c.events, [op |-> op, data |-> text1])
          /\ h.state = "open" => h.fragment = <<>>
    BY <1>9, <1>10 DEF AsMessage
  <2>2. packed1 <=> packed
    BY <1>11
  <2>3. Inflate(full)[1] \/ ~packed => text1 = text
    BY <1>13, <2>2
  <2>4. bad1 <=> bad
    <3>1. CASE packed /\ Inflate(full)[1]
      <4>1. text1 = Expand(full) /\ text = Expand(full)
        BY <1>13, <2>2, <3>1
      <4> HIDE DEF text1, text, packed, packed1
      <4> QED
        BY <1>13, <1>14, <2>2, <3>1, <4>1
    <3>2. CASE packed /\ ~Inflate(full)[1]
      <4> HIDE DEF text1, text, packed, packed1
      <4> QED
        BY <1>13, <2>2, <3>2
    <3>3. CASE ~packed
      <4>1. text1 = full /\ text = full
        BY <2>2, <3>3
      <4> HIDE DEF text1, text, packed, packed1
      <4> QED
        BY <1>14, <2>2, <3>3, <4>1
    <3> QED
      BY <3>1, <3>2, <3>3
  <2>5. ~bad => text1 = text
    <3>1. ~bad /\ packed => Inflate(full)[1]
      BY <1>13
    <3> QED
      BY <2>3, <3>1
  <2> HIDE DEF text1, text, packed1, packed, bad1, bad
  <2> QED
    BY <2>1, <2>2, <2>4, <2>5
<1>16. r = IF Len(full) > MaxPayload THEN Refused(m)
           ELSE IF ~packed THEN Message(m, op, full)
           ELSE IF Corrupt \in Range(full) \/ 2 * Len(full) > MaxPayload THEN Refused(m)
           ELSE Message(m, op, Expand(full))
  <2>1. op # CLOSE /\ ~(op > 2)
    BY <1>7 DEF CLOSE
  <2> QED
    BY <1>6, <2>1 DEF Meant, op, full
<1>17. /\ Refused(m).verdict = "closed" /\ Refused(m).events = m.events
       /\ Refused(m).replies = m.replies
  BY RefusedFair
<1> SUFFICES Done(c, Popped(h, TRUE), r)
  BY <1>7 DEF h, data
<1>18. ASSUME h.state = "closed", h.events = c.events, r = Refused(m)
       PROVE  Done(c, Popped(h, TRUE), r)
  <2> HIDE DEF r
  <2>1. h.events = r.events /\ h.replies = r.replies /\ r.verdict = "closed"
    BY <1>6, <1>12, <1>17, <1>18
  <2> QED
    BY <1>12, <1>18, <2>1, PoppedDone
<1>19. CASE c.fragment # <<>> /\ Len(full) > MaxPayload
  <2>1. r = Refused(m)
    BY <1>16, <1>19
  <2> QED
    BY <1>12, <1>18, <1>19, <2>1
<1>20. ASSUME ~(c.fragment # <<>> /\ Len(full) > MaxPayload)
       PROVE  ~(Len(full) > MaxPayload)
  <2> SUFFICES ASSUME c.fragment = <<>> PROVE ~(Len(full) > MaxPayload)
    BY <1>20
  <2>1. Len(before) = 0
    BY <1>5, EmptySeq
  <2>2. Len(m.data) = 0
    <3> DEFINE x == Len(m.data)
               y == Len(before)
    <3>1. x \in Nat /\ y = x + d /\ y = 0
      BY <1>1, <1>3, <2>1
    <3> HIDE DEF x, y
    <3>2. x = 0
      BY <3>1
    <3> QED
      BY <3>2 DEF x
  <2>3. Len(full) = Len(f.payload)
    BY <1>1, <1>4, <2>2
  <2> QED
    BY <1>1, <1>8, <2>3
<1>21. CASE ~(c.fragment # <<>> /\ Len(full) > MaxPayload) /\ bad
  <2>1. r = Refused(m)
    <3>1. CASE packed /\ (Corrupt \in Range(full) \/ 2 * Len(full) > MaxPayload)
      BY <1>16, <1>20, <1>21, <3>1
    <3>2. CASE /\ ~(packed /\ (Corrupt \in Range(full) \/ 2 * Len(full) > MaxPayload))
               /\ op = TEXT /\ ~WellFormed(text)
      <4>1. r = Message(m, op, text)
        BY <1>16, <1>20, <1>21, <3>2
      <4> HIDE DEF r, text
      <4> QED
        BY <3>2, <4>1 DEF Message
    <3> QED
      BY <1>21, <3>1, <3>2
  <2> HIDE DEF r, bad
  <2> QED
    BY <1>15, <1>18, <1>21, <2>1
<1>22. CASE ~(c.fragment # <<>> /\ Len(full) > MaxPayload) /\ ~bad
  <2>1. r = Message(m, op, text)
    BY <1>16, <1>20, <1>22
  <2>2. text \in Seq(Byte)
    BY <1>4, <1>13
  <2>3. ~(op = TEXT /\ ~WellFormed(text))
    BY <1>22
  <2> HIDE DEF r, text, bad, packed
  <2>4. /\ r.op = CONTINUATION /\ r.data = <<>> /\ r.compressed = FALSE
        /\ r.verdict = m.verdict /\ r.replies = m.replies
        /\ r.events = Append(m.events, [op |-> op, data |-> text])
    BY <1>7, <2>1, <2>2, <2>3, MessageFair
  <2>5. /\ h.state = app /\ h.events = Append(c.events, [op |-> op, data |-> text])
        /\ h.compression = (IF packed THEN "enabled" ELSE c.compression)
        /\ h.state = "open" => h.fragment = <<>>
    BY <1>15, <1>22
  <2>6. h.events = r.events /\ h.replies = r.replies
    BY <1>6, <1>12, <2>4, <2>5
  <2>7. h.state = "open" => /\ r.verdict = "open" /\ Front(c.opStack) = Stack(r)
                            /\ h.fragment = r.data /\ h.tip = 0
                            /\ h.compression = Comp(r.compressed)
    <3>1. h.compression = Comp(FALSE)
      BY <1>6, <1>8, <2>5 DEF Comp
    <3>2. Stack(r) = <<>>
      BY <2>4 DEF Stack
    <3> QED
      BY <1>6, <1>7, <1>12, <2>4, <2>5, <3>1, <3>2
  <2>8. h.state \notin {"closed", "ended"}
    BY <2>5 DEF Reactions
  <2> QED
    BY <1>12, <2>6, <2>7, <2>8, PoppedDone
<1> QED
  BY <1>19, <1>21, <1>22

(* The last piece of a fragment is kept with those before it.              *)
LEMMA TakeFragment ==
    ASSUME NEW m, Fair(m), NEW f \in Frames, f.op < 3, f.fin = FALSE,
           NEW d \in Nat, d <= Len(f.payload), NEW c, Taking(c, m, f, d), NEW app
    PROVE  Done(c, Popped(HandleFragment(c, SubSeq(f.payload, d + 1, Len(f.payload)), 0, Top(c),
                                         FALSE, app), FALSE), Meant(m, f))
<1> DEFINE e == Len(f.payload)
           r == HandleFragment(c, SubSeq(f.payload, d + 1, e), 0, Top(c), FALSE, app)
           full == m.data \o f.payload
           op == OpOf(m, f)
           n == Meant(m, f)
<1>1. /\ m \in MeaningSet /\ m.data \in Seq(Byte) /\ f.payload \in Seq(Byte) /\ e \in Nat
      /\ m.verdict = "open" /\ ~Illegal(m, f)
  <2>1. f.payload \in Seq(Byte)
    BY DEF Frames
  <2> QED
    BY <2>1, LenProperties DEF Fair, MeaningSet, Taking, Opened
<1>2. SubSeq(f.payload, 1, e) = f.payload
  BY <1>1, Parts, EmptySeq, WholePiece
<1>3. op \in 1..2 /\ c.opStack = <<op>>
  <2>1. op \in 1..15 /\ op < 3 /\ c.opStack = <<op>>
    BY TopIs DEF Taking
  <2> QED
    BY <2>1
<1>4. Popped(r, FALSE) = r
  BY DEF Popped
<1>5. /\ Keeps(c, r)
      /\ \/ Taking(r, m, f, e) /\ ~(Len(m.data \o SubSeq(f.payload, 1, e)) > MaxPayload)
         \/ Broken(r, n)
  <2>1. e <= e
    BY <1>1
  <2> QED
    BY <1>1, <2>1, TakePart
<1> HIDE DEF r
<1>6. CASE Broken(r, n)
  BY <1>4, <1>5, <1>6 DEF Done, Keeps, r
<1>7. CASE Taking(r, m, f, e) /\ ~(Len(full) > MaxPayload)
  <2>1. op # CLOSE /\ ~(op > 2)
    BY <1>3 DEF CLOSE
  <2>2. n = [m EXCEPT !.op = op, !.data = full, !.compressed = m.compressed \/ f.rsv1]
    BY <1>1, <1>7, <2>1 DEF Meant
  <2> HIDE DEF n, op, full
  <2>3. /\ n.op = op /\ n.data = full /\ n.compressed = (m.compressed \/ f.rsv1)
        /\ n.verdict = "open" /\ n.events = m.events /\ n.replies = m.replies
    BY <1>1, <2>2 DEF MeaningSet
  <2>4. Stack(n) = <<op>>
    BY <1>3, <2>3 DEF Stack, CONTINUATION
  <2>5. r.opStack = <<op>>
    BY <1>3, <1>5 DEF Keeps
  <2>6. r.fragment = full /\ r.tip = 0
    BY <1>2, <1>7 DEF Taking, full
  <2>7. Opened(r, m, f)
    BY <1>7 DEF Taking
  <2>8. Settled(r, n)
    BY <2>3, <2>4, <2>5, <2>6, <2>7 DEF Settled, Opened
  <2> QED
    BY <1>4, <1>5, <2>8 DEF Done, Keeps, r, n
<1> QED
  BY <1>2, <1>5, <1>6, <1>7

(* The last piece of a control frame answers and delivers the frame, and   *)
(* leaves the message it came inside of as it was.                         *)
LEMMA TakeControl ==
    ASSUME NEW m, Fair(m), NEW f \in Frames, ~(f.op < 3), ~f.rsv1,
           NEW d \in Nat, d <= Len(f.payload), NEW c, Taking(c, m, f, d), NEW app \in Reactions
    PROVE  Done(c, Popped(HandleFragment(c, SubSeq(f.payload, d + 1, Len(f.payload)), 0, Top(c),
                                         TRUE, app), TRUE), Meant(m, f))
<1> DEFINE data == SubSeq(f.payload, d + 1, Len(f.payload))
           op == f.op
           h == HandleFragment(c, data, 0, op, TRUE, app)
           before == m.data \o SubSeq(f.payload, 1, d)
           full == m.data \o f.payload
           r == Meant(m, f)
<1>1. /\ m \in MeaningSet /\ m.data \in Seq(Byte) /\ f.payload \in Seq(Byte)
      /\ Len(m.data) \in Nat /\ Len(f.payload) \in Nat
  <2>1. m.data \in Seq(Byte) /\ f.payload \in Seq(Byte)
    BY DEF Fair, MeaningSet, Frames
  <2> QED
    BY <2>1, LenProperties DEF Fair
<1>2. /\ before \in Seq(Byte) /\ Len(before) = Len(m.data) + d
      /\ data \in Seq(Byte) /\ before \o data = full
  <2>1. Len(f.payload) <= Len(f.payload)
    BY <1>1
  <2> QED
    <3>1. IsJoined(m.data, f.payload, d, Len(f.payload))
      BY <1>1, <2>1, Joined
    <3> QED
      BY <3>1 DEF IsJoined
<1>3. /\ Opened(c, m, f) /\ c.fragment = before /\ c.tip = d
      /\ Shape(c) /\ c.state = "open" /\ m.verdict = "open" /\ ~Illegal(m, f)
      /\ c.events = m.events /\ c.replies = m.replies /\ c.compression = Comp(m.compressed)
  <2>1. m.compressed \in BOOLEAN /\ f.rsv1 \in BOOLEAN
    BY <1>1 DEF MeaningSet, Frames
  <2>2. (m.compressed \/ f.rsv1) = m.compressed
    BY <2>1
  <2> QED
    BY <2>2 DEF Taking, Opened
<1>4. Top(c) = op /\ op \in 8..10 /\ Front(c.opStack) = Stack(m) /\ OpOf(m, f) = op
  BY <1>3, TopIs
<1>5. SubSeq(full, Len(m.data) + 1, Len(full)) = f.payload
  BY <1>1, Parts
<1>6. SubSeq(before, 1, Len(m.data)) = m.data
  <2> DEFINE a == m.data
             b == SubSeq(f.payload, 1, d)
  <2>1. a \in Seq(Byte) /\ Len(a) \in Nat
    BY <1>1
  <2>2. b \in Seq(Byte)
    BY <1>1, Pieces
  <2> HIDE DEF a, b
  <2>3. SubSeq(a \o b, 1, Len(a)) = SubSeq(a, 1, Len(a))
    BY <2>1, <2>2, Parts
  <2>4. SubSeq(a, 1, Len(a)) = a
    BY <2>1, WholePiece
  <2> QED
    BY <2>3, <2>4 DEF a, b
<1> HIDE DEF data, before, full, op
<1>7. AsControl(c, h, data, op, app)
  <2>1. c.fragment \in Seq(Byte) /\ ~(op < 3)
    BY <1>2, <1>3 DEF op
  <2>2. c.tip \in 0..Len(c.fragment)
    <3> DEFINE x == Len(m.data)
               y == Len(before)
    <3>1. x \in Nat /\ y = x + d
      BY <1>1, <1>2
    <3> HIDE DEF x, y
    <3>2. d \in 0..y
      BY <3>1
    <3> QED
      BY <1>3, <3>2 DEF y
  <2> QED
    BY <1>2, <1>3, <2>1, <2>2, WholeControl
<1>8. c.fragment \o data = full /\ Len(c.fragment) - c.tip = Len(m.data)
  <2> DEFINE x == Len(m.data)
             y == Len(before)
  <2>1. x \in Nat /\ y = x + d
    BY <1>1, <1>2
  <2> HIDE DEF x, y
  <2>2. y - d = x
    BY <2>1
  <2> QED
    BY <1>2, <1>3, <2>2 DEF x, y
<1> DEFINE reply == IF LegalClose(f.payload) THEN f.payload ELSE <<>>
<1>9. FormatClosePayload(ParseClosePayload(f.payload).code, ParseClosePayload(f.payload).message)
        = reply
  BY <1>1, CloseReply
<1> HIDE DEF h, reply
<1>10. /\ Keeps(c, h) /\ h.compression = c.compression
       /\ op = CLOSE =>
             /\ h.state = "ended" /\ h.events = c.events
             /\ h.replies = Append(c.replies, [op |-> CLOSE, data |-> reply])
       /\ op # CLOSE =>
             /\ h.state = app
             /\ h.events = Append(c.events, [op |-> op, data |-> f.payload])
             /\ h.replies = IF op = PING
                            THEN Append(c.replies, [op |-> PONG, data |-> f.payload])
                            ELSE c.replies
       /\ h.state = "open" => h.tip = 0 /\ h.fragment = m.data
  BY <1>3, <1>5, <1>6, <1>7, <1>8, <1>9 DEF AsControl
<1>11. r = IF op = CLOSE
           THEN [m EXCEPT !.verdict = "ended",
                          !.replies = Append(m.replies, [op |-> CLOSE, data |-> reply])]
           ELSE [m EXCEPT !.events = Append(m.events, [op |-> op, data |-> f.payload]),
                          !.replies = IF op = PING
                                      THEN Append(m.replies, [op |-> PONG, data |-> f.payload])
                                      ELSE m.replies]
  <2>1. op > 2
    BY <1>4
  <2> QED
    BY <1>1, <1>3, <1>4, <2>1 DEF Meant, reply, MeaningSet
<1> SUFFICES Done(c, Popped(h, TRUE), r)
  BY <1>4 DEF h, data
<1> HIDE DEF r
<1>12. CASE op = CLOSE
  <2>1. r.verdict = "ended" /\ r.events = m.events
        /\ r.replies = Append(m.replies, [op |-> CLOSE, data |-> reply])
    BY <1>1, <1>11, <1>12 DEF MeaningSet
  <2> QED
    BY <1>3, <1>10, <1>12, <2>1, PoppedDone
<1>13. CASE op # CLOSE
  <2> DEFINE sent == IF op = PING
                     THEN Append(m.replies, [op |-> PONG, data |-> f.payload]) ELSE m.replies
  <2>1. r = [m EXCEPT !.events = Append(m.events, [op |-> op, data |-> f.payload]),
                      !.replies = sent]
    BY <1>11, <1>13
  <2>2. h.replies = sent
    BY <1>3, <1>10, <1>13
  <2> HIDE DEF sent
  <2>3. /\ r.events = Append(m.events, [op |-> op, data |-> f.payload]) /\ r.replies = sent
        /\ r.verdict = "open" /\ r.op = m.op /\ r.data = m.data /\ r.compressed = m.compressed
    BY <1>1, <1>3, <2>1 DEF MeaningSet
  <2>4. Stack(r) = Stack(m)
    BY <2>3 DEF Stack
  <2>5. h.state = "open" => /\ r.verdict = "open" /\ Front(c.opStack) = Stack(r)
                            /\ h.fragment = r.data /\ h.tip = 0
                            /\ h.compression = Comp(r.compressed)
    BY <1>3, <1>4, <1>10, <2>3, <2>4
  <2>6. h.state \notin {"closed", "ended"}
    BY <1>10, <1>13 DEF Reactions
  <2>7. h.events = r.events /\ h.replies = r.replies
    BY <1>3, <1>10, <1>13, <2>2, <2>3
  <2> QED
    BY <1>10, <2>5, <2>6, <2>7, PoppedDone
<1> QED
  BY <1>12, <1>13

(* The last piece of any frame: the connection is what the frame means.    *)
LEMMA TakeWhole ==
    ASSUME NEW m, Fair(m), NEW f \in Frames, MarksMessages(f),
           NEW d \in Nat, d <= Len(f.payload), NEW c, Taking(c, m, f, d), NEW app \in Reactions
    PROVE  Done(c, Popped(HandleFragment(c, SubSeq(f.payload, d + 1, Len(f.payload)), 0, Top(c),
                                         f.fin, app), f.fin), Meant(m, f))
<1>1. f.fin \in BOOLEAN /\ f.rsv1 \in BOOLEAN
  BY DEF Frames
<1>2. CASE f.op < 3 /\ f.fin = TRUE
  BY <1>2, TakeMessage
<1>3. CASE f.op < 3 /\ f.fin = FALSE
  BY <1>3, TakeFragment
<1>4. CASE ~(f.op < 3)
  <2>1. f.fin = TRUE
    BY <1>4, TopIs DEF Taking
  <2>2. ~f.rsv1
    BY <1>1, <1>4 DEF MarksMessages, TEXT, BINARY
  <2> QED
    BY <1>4, <2>1, <2>2, TakeControl
<1> QED
  BY <1>1, <1>2, <1>3, <1>4

-----------------------------------------------------------------------------
(* Where the parser is in the wire.                                        *)

(* The mask behind d bytes of a payload.                                   *)
Aligned(mask, d) == \A i \in 0..MaskSize - 1 : mask[i] = (i + d) % MaskSize

(* A fresh mask is at the start, and rotateMask keeps up with the payload. *)
LEMMA Rotates ==
    ASSUME NEW d \in Nat, NEW mask, Aligned(mask, d), NEW n \in Nat
    PROVE  /\ Aligned(FreshMask, 0)
           /\ Aligned(RotateMask(mask, MaskSize - (n % MaskSize)), d + n)
<1>1. Aligned(FreshMask, 0)
  BY DEF Aligned, FreshMask, MaskSize
<1>2. ASSUME NEW i \in 0..3
      PROVE  RotateMask(mask, 4 - (n % 4))[i] = (i + (d + n)) % 4
  <2> DEFINE j == (i - (4 - (n % 4))) % 4
  <2>1. RotateMask(mask, 4 - (n % 4))[i] = mask[j]
    BY DEF RotateMask, MaskSize
  <2>2. j = (i + n) % 4 /\ j \in 0..3
    OBVIOUS
  <2>3. mask[j] = (j + d) % 4
    BY <2>2 DEF Aligned, MaskSize
  <2>4. (((i + n) % 4) + d) % 4 = (i + (d + n)) % 4
    OBVIOUS
  <2> HIDE DEF j
  <2> QED
    BY <2>1, <2>2, <2>3, <2>4
<1> QED
  BY <1>1, <1>2 DEF Aligned, MaskSize

(* The n bytes are the payload of frame k + 1 behind d bytes.              *)
Lies(bytes, k, d, n) ==
    \A j \in 1..n : bytes[j] = [frame |-> k + 1, at |-> HeaderSize[stream[k + 1].size] + d + j]

(* With the mask in its place, unmaskInplace gives the payload.            *)
LEMMA Unmasks ==
    ASSUME stream \in Seq(Frames), NEW k \in 0..(Len(stream) - 1), NEW d \in Nat, NEW n \in Nat,
           d + n <= Len(stream[k + 1].payload), NEW mask, Aligned(mask, d),
           NEW bytes \in Seq(Places(stream)), Len(bytes) = n, Lies(bytes, k, d, n)
    PROVE  Unmask(bytes, mask) = SubSeq(stream[k + 1].payload, d + 1, d + n)
<1> DEFINE f == stream[k + 1]
           p == f.payload
           h == HeaderSize[f.size]
           u == Unmask(bytes, mask)
           s == SubSeq(p, d + 1, d + n)
<1>1. p \in Seq(Byte) /\ h \in Nat /\ Len(p) \in Nat /\ DOMAIN p = 1..Len(p)
  <2>1. k + 1 \in 1..Len(stream)
    BY LenProperties
  <2>2. f \in Frames /\ h \in Nat \ {0} /\ Len(p) \in Nat
    BY <2>1, WireType
  <2> QED
    BY <2>2, LenProperties DEF Frames
<1>2. u \in Seq(Octet) /\ Len(u) = n
  BY UnmaskType
<1>3. s \in Seq(Octet) /\ Len(s) = n /\ \A j \in 1..n : s[j] = p[d + j]
  <2> DEFINE e == d + n
  <2>1. e \in Nat /\ e <= Len(p) /\ d <= e /\ e - d = n
    OBVIOUS
  <2> HIDE DEF e, p
  <2>2. /\ SubSeq(p, d + 1, e) \in Seq(Byte)
        /\ Len(SubSeq(p, d + 1, e)) = IF d <= e THEN e - d ELSE 0
        /\ \A j \in 1..e - d : SubSeq(p, d + 1, e)[j] = p[d + j]
    BY <1>1, <2>1, Pieces
  <2>3. SubSeq(p, d + 1, e) \in Seq(Octet)
    BY <2>2 DEF Octet
  <2> QED
    BY <2>1, <2>2, <2>3 DEF e
<1>4. ASSUME NEW j \in 1..n PROVE u[j] = s[j]
  <2> DEFINE b == bytes[j]
             g == stream[b.frame]
             place == b.at - HeaderSize[g.size]
  <2>1. DOMAIN bytes = 1..n
    BY LenProperties
  <2>2. u[j] = IF /\ place \in DOMAIN g.payload
                  /\ mask[(j - 1) % MaskSize] = (place - 1) % MaskSize
               THEN g.payload[place] ELSE Garbled
    BY <2>1 DEF Unmask
  <2>3. b.frame = k + 1 /\ b.at = h + d + j
    BY DEF Lies
  <2>4. g = f
    BY <2>3
  <2> HIDE DEF b, g, h, p, u, s, f
  <2>5. place = d + j
    BY <1>1, <2>3, <2>4 DEF h
  <2> HIDE DEF place
  <2>6. place \in 1..Len(p)
    BY <1>1, <2>5 DEF p, f
  <2>7. mask[(j - 1) % 4] = (((j - 1) % 4) + d) % 4
    <3> DEFINE i == (j - 1) % 4
    <3>1. i \in 0..3
      OBVIOUS
    <3> HIDE DEF i
    <3>2. mask[i] = (i + d) % 4
      BY <3>1 DEF Aligned, MaskSize
    <3> QED
      BY <3>2 DEF i
  <2>8. (((j - 1) % 4) + d) % 4 = (d + j - 1) % 4
    OBVIOUS
  <2>9. u[j] = p[place]
    BY <1>1, <2>2, <2>4, <2>5, <2>6, <2>7, <2>8 DEF MaskSize, p
  <2> QED
    BY <1>3, <2>5, <2>9
<1> HIDE DEF u, s
<1>5. u = s
  BY <1>2, <1>3, <1>4, SeqEqual
<1> QED
  BY <1>5 DEF u, s

(* What has arrived of the wire behind its first p bytes.                  *)
Behind(p) == SubSeq(WholeWire(stream), p + 1, arrived)

(* Its bytes, and what is behind some of them.                             *)
LEMMA BehindIs ==
    ASSUME stream \in Seq(Frames), arrived \in Nat, arrived <= Len(WholeWire(stream)),
           NEW p \in Nat, p <= arrived
    PROVE  /\ Behind(p) \in Seq(Places(stream)) /\ Len(Behind(p)) = arrived - p
           /\ \A i \in 1..(arrived - p) : Behind(p)[i] = WholeWire(stream)[p + i]
           /\ \A n \in 0..(arrived - p) : SubSeq(Behind(p), n + 1, Len(Behind(p))) = Behind(p + n)
<1> DEFINE w == WholeWire(stream)
           P == Places(stream)
<1>1. w \in Seq(P) /\ Len(w) \in Nat
  BY WirePlaces, LenProperties
<1> HIDE DEF w, P
<1>2. ASSUME NEW q \in Nat, q <= arrived
      PROVE  /\ Behind(q) \in Seq(P) /\ Len(Behind(q)) = arrived - q
             /\ \A i \in 1..(arrived - q) : Behind(q)[i] = w[q + i]
  <2>1. arrived <= Len(w) /\ Behind(q) = SubSeq(w, q + 1, arrived)
    BY DEF w, Behind
  <2>2. /\ SubSeq(w, q + 1, arrived) \in Seq(P)
        /\ Len(SubSeq(w, q + 1, arrived)) = IF q <= arrived THEN arrived - q ELSE 0
        /\ \A i \in 1..arrived - q : SubSeq(w, q + 1, arrived)[i] = w[q + i]
    BY <1>1, <2>1, Pieces
  <2> QED
    BY <1>2, <2>1, <2>2
<1>3. ASSUME NEW n \in 0..(arrived - p)
      PROVE  SubSeq(Behind(p), n + 1, Len(Behind(p))) = Behind(p + n)
  <2> DEFINE b == Behind(p)
             l == Len(b)
             s == SubSeq(b, n + 1, l)
             t == Behind(p + n)
  <2>1. /\ b \in Seq(P) /\ l = arrived - p /\ l \in Nat /\ n \in Nat
        /\ \A i \in 1..l : b[i] = w[p + i]
    BY <1>2
  <2>2. /\ t \in Seq(P) /\ Len(t) = arrived - (p + n)
        /\ \A i \in 1..(arrived - (p + n)) : t[i] = w[(p + n) + i]
    <3>1. p + n \in Nat /\ p + n <= arrived
      OBVIOUS
    <3> QED
      BY <1>2, <3>1
  <2>3. n <= l /\ l - n = arrived - (p + n) /\ l <= Len(b)
    BY <2>1
  <2> HIDE DEF b, t
  <2>4. /\ SubSeq(b, n + 1, l) \in Seq(P)
        /\ Len(SubSeq(b, n + 1, l)) = IF n <= l THEN l - n ELSE 0
        /\ \A i \in 1..l - n : SubSeq(b, n + 1, l)[i] = b[n + i]
    BY <2>1, <2>3, Pieces
  <2>5. Len(s) = l - n
    BY <2>3, <2>4
  <2> HIDE DEF l
  <2>6. ASSUME NEW i \in 1..(l - n) PROVE s[i] = t[i]
    <3>1. n + i \in 1..l /\ p + (n + i) = (p + n) + i
      BY <2>1
    <3>2. s[i] = b[n + i] /\ b[n + i] = w[p + (n + i)]
      BY <2>1, <2>4, <3>1
    <3>3. t[i] = w[(p + n) + i]
      BY <2>2, <2>3
    <3> QED
      BY <3>1, <3>2, <3>3
  <2> HIDE DEF s
  <2>7. s = t
    <3>1. s \in Seq(P) /\ Len(s) = Len(t)
      BY <2>2, <2>3, <2>4, <2>5 DEF s
    <3> QED
      BY <2>2, <2>5, <2>6, <3>1, SeqEqual
  <2> QED
    BY <2>7 DEF s, t, l, b
<1> QED
  BY <1>2, <1>3 DEF w, P

-----------------------------------------------------------------------------
(* The header of a frame.                                                  *)

(* Whether the parser has seen a final frame last.                         *)
Ended(fs, k) == IF k = 0 THEN TRUE ELSE fs[k].fin

(* A message inside another one is noticed.                                *)
Noticed(fs, k) ==
    LET m == Meanings(fs)[k]
    IN  m.verdict = "open" /\ m.op # CONTINUATION /\ fs[k + 1].op \in {TEXT, BINARY}
            => fs[k + 1].op = TEXT /\ fs[k].op < 3

(* Between frames k and k + 1, what the last fin bit says of the message.  *)
LEMMA FinIs ==
    ASSUME NEW fs \in Seq(Frames), NEW k \in 0..Len(fs), Meanings(fs)[k].verdict = "open"
    PROVE  LET m == Meanings(fs)[k]
           IN  /\ m.op = CONTINUATION => Ended(fs, k) = TRUE
               /\ m.op # CONTINUATION => k # 0
               /\ m.op # CONTINUATION /\ fs[k].op < 3 => Ended(fs, k) = FALSE
<1> DEFINE m == Meanings(fs)[k]
<1>1. Len(fs) \in Nat
  BY LenProperties
<1>2. CASE k = 0
  <2>1. m = NothingYet
    BY <1>1, <1>2, MeaningsAre
  <2>2. m.op = CONTINUATION
    BY <2>1 DEF NothingYet
  <2> QED
    BY <1>2, <2>2 DEF Ended
<1>3. CASE k # 0
  <2> DEFINE j == k - 1
             f == fs[k]
             l == Meanings(fs)[j]
  <2>1. j \in 0..(Len(fs) - 1) /\ j + 1 = k /\ j \in 0..Len(fs) /\ k \in 1..Len(fs)
    BY <1>1, <1>3
  <2> HIDE DEF j
  <2>2. Meanings(fs)[j + 1] = Meant(Meanings(fs)[j], fs[j + 1])
    BY <1>1, <2>1, MeaningsAre
  <2>3. m = Meant(l, f)
    BY <2>1, <2>2
  <2>4. Fair(l)
    BY <2>1, MeaningsLead
  <2>5. f \in Frames
    BY <2>1, ElementOfSeq
  <2> HIDE DEF l, f, m
  <2>6. /\ m.verdict = "open" /\ m.op = CONTINUATION => f.fin = TRUE
        /\ m.verdict = "open" /\ m.op # CONTINUATION /\ f.op < 3 => f.fin = FALSE
    BY <2>3, <2>4, <2>5, MeantFair
  <2>7. m.verdict = "open"
    BY DEF m
  <2> QED
    BY <1>3, <2>6, <2>7 DEF Ended, f, m
<1> QED
  BY <1>2, <1>3

(* A header that SetCompressed or consume refuses is one that means so.    *)
LEMMA HeadRefused ==
    ASSUME NEW m, Fair(m), NEW f \in Frames, MarksMessages(f), NEW c, Settled(c, m),
           SetCompressed(c, f).state # "open" \/ BadHead(f)
    PROVE  Illegal(m, f)
<1>1. CASE BadHead(f)
  BY <1>1 DEF Illegal
<1>2. CASE SetCompressed(c, f).state # "open"
  <2>1. Shape(c) /\ c.state = "open" /\ c.compression = Comp(m.compressed) /\ f.rsv1 \in BOOLEAN
    BY DEF Settled, Frames
  <2>2. f.rsv1 /\ c.compression # "enabled"
    BY <1>2, <2>1, Marks
  <2>3. CASE ~Negotiated
    BY <2>2, <2>3 DEF Illegal
  <2>4. CASE m.compressed
    BY <2>2, <2>4 DEF Illegal, Fair, MarksMessages
  <2> QED
    BY <2>1, <2>2, <2>3, <2>4 DEF Comp
<1> QED
  BY <1>1, <1>2

(* The stack between two frames has a message begun, or nothing.           *)
LEMMA StackIs ==
    ASSUME NEW m
    PROVE  Len(Stack(m)) # 2 /\ (Stack(m) = <<>> <=> m.op = CONTINUATION)
<1>1. CASE m.op = CONTINUATION
  BY <1>1 DEF Stack
<1>2. CASE m.op # CONTINUATION
  <2> DEFINE op == m.op
  <2>1. Stack(m) = <<op>>
    BY <1>2 DEF Stack
  <2> HIDE DEF op
  <2>2. Len(<<op>>) = 1 /\ Len(<<>>) = 0
    OBVIOUS
  <2> QED
    BY <1>2, <2>1, <2>2
<1> QED
  BY <1>1, <1>2

(* What is refused behind a good header is out of order or too long.       *)
LEMMA OrderRefused ==
    ASSUME NEW fs \in Seq(Frames), NEW k \in 0..(Len(fs) - 1), NEW c,
           Settled(c, Meanings(fs)[k]), c.lastFin = Ended(fs, k),
           OutOfOrder(SetCompressed(c, fs[k + 1]), fs[k + 1])
    PROVE  Illegal(Meanings(fs)[k], fs[k + 1])
<1> DEFINE f == fs[k + 1]
           m == Meanings(fs)[k]
           p == SetCompressed(c, f)
<1>1. k \in 0..Len(fs) /\ m.verdict = "open" /\ c.opStack = Stack(m) /\ Shape(c)
  BY LenProperties DEF Settled
<1>2. /\ m.op = CONTINUATION => Ended(fs, k) = TRUE
  BY <1>1, FinIs
<1>3. p.opStack = c.opStack /\ p.lastFin = c.lastFin
  BY <1>1, Marks DEF Handled, Keeps
<1>4. OutOfOrder(p, f)
  OBVIOUS
<1> HIDE DEF m, f, p
<1>5. CASE f.op # CONTINUATION
  <2>1. Len(p.opStack) # 2
    <3>1. p.opStack = Stack(m)
      BY <1>1, <1>3
    <3>2. Len(Stack(m)) # 2
      BY StackIs
    <3> QED
      BY <3>1, <3>2, Zenon
  <2>2. ~Ended(fs, k) /\ f.op < 2
    BY <1>3, <1>4, <1>5, <2>1 DEF OutOfOrder
  <2>3. m.op # CONTINUATION
    BY <1>2, <2>2
  <2>4. f \in Frames
    BY ElementOfSeq, LenProperties DEF f
  <2>5. f.op = TEXT
    BY <1>5, <2>2, <2>4 DEF Frames, TEXT, CONTINUATION
  <2> QED
    BY <2>3, <2>5 DEF Illegal, m, f
<1>6. CASE f.op = CONTINUATION
  <2>1. p.opStack = <<>>
    BY <1>4, <1>6 DEF OutOfOrder
  <2>2. m.op = CONTINUATION
    BY <1>1, <1>3, <2>1, StackIs
  <2> QED
    BY <1>6, <2>2 DEF Illegal, OpOf, m, f
<1> QED
  BY <1>5, <1>6

(* A frame that none of the checks refused is legal, and is begun.         *)
LEMMA HeadTaken ==
    ASSUME NEW fs \in Seq(Frames), NEW k \in 0..(Len(fs) - 1), NEW c,
           Settled(c, Meanings(fs)[k]), c.lastFin = Ended(fs, k),
           SetCompressed(c, fs[k + 1]).state = "open", ~BadHead(fs[k + 1]),
           ~OutOfOrder(SetCompressed(c, fs[k + 1]), fs[k + 1]),
           ~(Len(fs[k + 1].payload) > MaxPayload), Noticed(fs, k)
    PROVE  Taking(Pushed(SetCompressed(c, fs[k + 1]), fs[k + 1]), Meanings(fs)[k], fs[k + 1], 0)
<1> DEFINE f == fs[k + 1]
           m == Meanings(fs)[k]
           g == SetCompressed(c, f)
           p == Pushed(g, f)
<1>1. /\ k \in 0..Len(fs) /\ m.verdict = "open" /\ c.opStack = Stack(m) /\ Shape(c)
      /\ c.fragment = m.data /\ c.tip = 0 /\ c.compression = Comp(m.compressed)
      /\ c.events = m.events /\ c.replies = m.replies
  BY LenProperties DEF Settled
<1>2. f \in Frames
  <2>1. k + 1 \in 1..Len(fs)
    BY LenProperties
  <2> QED
    BY <2>1, ElementOfSeq
<1>3. /\ m.op # CONTINUATION /\ fs[k].op < 3 => Ended(fs, k) = FALSE
  BY <1>1, FinIs
<1>4. Fair(m)
  BY <1>1, MeaningsLead
<1>5. g.state = "open" /\ ~BadHead(f) /\ ~OutOfOrder(g, f) /\ ~(Len(f.payload) > MaxPayload)
  OBVIOUS
<1>6. m.op # CONTINUATION /\ f.op \in {TEXT, BINARY} => f.op = TEXT /\ fs[k].op < 3
  BY <1>1 DEF Noticed
<1>7. c.lastFin = Ended(fs, k)
  OBVIOUS
<1> HIDE DEF f, m
<1>8. /\ Handled(c, g) /\ Silent(c, g) /\ (~f.rsv1 => g = c)
      /\ f.rsv1 => c.compression = "enabled" /\ g.compression = "compressed"
  BY <1>1, <1>5, Marks
<1> HIDE DEF g
<1>9. Shape(g) /\ g.opStack = Stack(m) /\ g.lastFin = c.lastFin /\ g.fragment = m.data /\ g.tip = 0
  BY <1>1, <1>8 DEF Handled, Keeps
<1>10. IsPushed(g, p, f.op, f.fin)
  BY <1>9, Pushes
<1> HIDE DEF p
<1>11. ~Illegal(m, f)
  <2>1. ~(f.rsv1 /\ ~Negotiated)
    BY <1>1, <1>8 DEF Comp
  <2>2. OpOf(m, f) # CONTINUATION
    <3>1. SUFFICES ASSUME f.op = CONTINUATION, m.op = CONTINUATION PROVE FALSE
      BY DEF OpOf
    <3>2. g.opStack = <<>>
      BY <1>9, <3>1 DEF Stack
    <3> QED
      BY <1>5, <3>1, <3>2 DEF OutOfOrder
  <2>3. ~(f.op \in {TEXT, BINARY} /\ m.op # CONTINUATION)
    <3>1. SUFFICES ASSUME f.op \in {TEXT, BINARY}, m.op # CONTINUATION PROVE FALSE
      OBVIOUS
    <3>2. f.op = TEXT /\ g.lastFin = FALSE
      BY <1>3, <1>6, <1>7, <1>9, <3>1
    <3>3. f.op # CONTINUATION /\ f.op < 2
      BY <3>2 DEF TEXT, CONTINUATION
    <3> QED
      BY <1>5, <3>2, <3>3 DEF OutOfOrder
  <2> QED
    BY <1>5, <2>1, <2>2, <2>3 DEF Illegal
<1>12. p.compression = Comp(m.compressed \/ f.rsv1)
  <2>1. m.compressed \in BOOLEAN /\ f.rsv1 \in BOOLEAN
    BY <1>2, <1>4 DEF Fair, MeaningSet, Frames
  <2>2. p.compression = g.compression
    BY <1>10 DEF IsPushed
  <2>3. CASE f.rsv1
    <3>1. Negotiated
      BY <1>1, <1>8, <2>3 DEF Comp
    <3> QED
      BY <1>8, <2>2, <2>3, <3>1 DEF Comp
  <2>4. CASE ~f.rsv1
    <3>1. (m.compressed \/ f.rsv1) = m.compressed
      BY <2>1, <2>4
    <3> QED
      BY <1>1, <1>8, <2>2, <2>4, <3>1
  <2> QED
    BY <2>3, <2>4
<1>13. p.opStack = IF f.op = CONTINUATION THEN Stack(m) ELSE Append(Stack(m), f.op)
  BY <1>9, <1>10 DEF IsPushed
<1>14. Opened(p, m, f)
  BY <1>1, <1>5, <1>8, <1>10, <1>11, <1>12, <1>13 DEF Opened, IsPushed, Silent
<1>15. p.fragment = m.data \o SubSeq(f.payload, 1, 0)
  <2>1. p.fragment = m.data
    BY <1>9, <1>10 DEF IsPushed
  <2>2. m.data \in Seq(Byte) /\ f.payload \in Seq(Byte)
    BY <1>2, <1>4 DEF Fair, MeaningSet, Frames
  <2>3. SubSeq(f.payload, 1, 0) = <<>>
    BY SubSeqEmpty
  <2>4. m.data \o <<>> = m.data
    BY <2>2, ConcatEmptySeq
  <2> QED
    BY <2>1, <2>3, <2>4
<1>16. p.tip = IF f.op < 3 THEN 0 ELSE 0
  BY <1>9, <1>10 DEF IsPushed
<1>17. Taking(p, m, f, 0)
  BY <1>14, <1>15, <1>16 DEF Taking
<1> QED
  BY <1>17 DEF p, g, f, m

(* What is closed at a header means to be.                                 *)
LEMMA RefusedBroken ==
    ASSUME NEW m, Fair(m), NEW f, Illegal(m, f), NEW c, Settled(c, m),
           NEW g, Shape(g), Silent(c, g)
    PROVE  Broken(ForceClose(g), Meant(m, f))
<1>1. /\ Refused(m).verdict = "closed" /\ Refused(m).events = m.events
      /\ Refused(m).replies = m.replies
  BY RefusedFair
<1>2. m.verdict = "open" /\ c.events = m.events /\ c.replies = m.replies
  BY DEF Settled
<1>3. Meant(m, f) = Refused(m)
  BY <1>2 DEF Meant
<1>4. Handled(g, ForceClose(g)) /\ Silent(g, ForceClose(g)) /\ ForceClose(g).state = "closed"
  BY Closes
<1> QED
  BY <1>1, <1>2, <1>3, <1>4 DEF Broken, Handled, Keeps, Silent

-----------------------------------------------------------------------------
(* The parser, from one call of consume to the next.                       *)

(* Streams on which the parser and the frames agree: a message inside      *)
(* another one is noticed, and the bit that marks compression is on        *)
(* messages only and in short headers only.                                *)
Ordinary ==
    \A fs \in Streams :
        /\ Plain(fs)
        /\ \A n \in DOMAIN fs : MarksMessages(fs[n]) /\ (fs[n].rsv1 => fs[n].size = "short")

(* Between frames k and k + 1.                                             *)
InBetween(k) ==
    /\ conn.wantsHead = TRUE /\ Settled(conn, Meanings(stream)[k])
    /\ conn.lastFin = Ended(stream, k)
    /\ Off(stream, k) <= arrived
    /\ busy => src = Behind(Off(stream, k)) /\ (src = <<>> => conn.spill = <<>>)
    /\ ~busy =>
          /\ src = <<>> /\ conn.spill = Behind(Off(stream, k))
          /\ k < Len(stream) => arrived < Off(stream, k) + HeaderSize[stream[k + 1].size]

(* Inside frame k + 1, of whose payload d bytes have been read.            *)
Reached(k, d) == Off(stream, k) + HeaderSize[stream[k + 1].size] + d
InFrame(k, d) ==
    /\ conn.wantsHead = FALSE /\ d < Len(stream[k + 1].payload)
    /\ Taking(conn, Meanings(stream)[k], stream[k + 1], d)
    /\ conn.remaining = Len(stream[k + 1].payload) - d
    /\ conn.spill = <<>> /\ Aligned(conn.mask, d)
    /\ Reached(k, d) <= arrived /\ src = Behind(Reached(k, d))
    /\ ~busy => arrived = Reached(k, d)

(* Behind frame k, which broke the connection.                             *)
Over(k) == Broken(conn, Meanings(stream)[k]) /\ ~busy /\ src = <<>>

Stands ==
    \/ \E k \in 0..Len(stream) : InBetween(k) \/ Over(k)
    \/ \E k \in 0..(Len(stream) - 1), d \in Nat : InFrame(k, d)

ParseInv == BufferInv /\ Ordinary /\ arrived <= Len(WholeWire(stream)) /\ Stands

(* The spilled bytes are all that changes.                                 *)
LEMMA Spills ==
    ASSUME NEW c, NEW m, Settled(c, m), NEW s
    PROVE  LET r == [c EXCEPT !.spill = s]
           IN  /\ Settled(r, m) /\ r.wantsHead = c.wantsHead /\ r.lastFin = c.lastFin
               /\ r.spill = s
<1> DEFINE r == [c EXCEPT !.spill = s]
<1>1. /\ Shape(r) /\ Silent(c, r) /\ r.wantsHead = c.wantsHead /\ r.lastFin = c.lastFin
      /\ r.spill = s /\ r.opStack = c.opStack /\ r.fragment = c.fragment /\ r.tip = c.tip
      /\ r.compression = c.compression /\ r.state = c.state
  BY DEF Settled, Shape, Silent
<1> HIDE DEF r
<1>2. Settled(r, m)
  BY <1>1 DEF Settled, Silent
<1> QED
  BY <1>1, <1>2 DEF r

(* What a plain stream has at its frame k + 1.                             *)
LEMMA NoticedIs ==
    ASSUME NEW fs \in Seq(Frames), Plain(fs), NEW k \in 0..(Len(fs) - 1)
    PROVE  Noticed(fs, k)
<1>1. Len(fs) \in Nat
  BY LenProperties
<1>2. CASE k = 0
  <2>1. Meanings(fs)[k].op = CONTINUATION
    BY <1>1, <1>2, MeaningsAre DEF NothingYet
  <2> QED
    BY <2>1 DEF Noticed
<1>3. CASE k # 0
  <2> DEFINE n == k + 1
  <2>1. n \in 2..Len(fs) /\ n - 1 = k
    BY <1>1, <1>3
  <2> HIDE DEF n
  <2>2. LET m == Meanings(fs)[n - 1]
        IN  m.verdict = "open" /\ m.op # CONTINUATION /\ fs[n].op \in {TEXT, BINARY}
                => fs[n].op = TEXT /\ fs[n - 1].op < 3
    BY <2>1 DEF Plain
  <2> QED
    BY <2>1, <2>2 DEF Noticed, n
<1> QED
  BY <1>2, <1>3

(* Frame k + 1 and what is around it.                                      *)
At(k) ==
    /\ stream \in Seq(Frames) /\ stream[k + 1] \in Frames
    /\ Len(stream) \in Nat /\ k \in 0..Len(stream) /\ k + 1 \in 0..Len(stream) /\ k + 1 # 0
    /\ Fair(Meanings(stream)[k])
    /\ Meanings(stream)[k + 1] = Meant(Meanings(stream)[k], stream[k + 1])
    /\ Noticed(stream, k) /\ MarksMessages(stream[k + 1])
    /\ stream[k + 1].rsv1 => stream[k + 1].size = "short"
    /\ stream[k + 1].payload \in Seq(Byte)
    /\ HeaderSize[stream[k + 1].size] \in Nat \ {0} /\ Len(stream[k + 1].payload) \in Nat
    /\ HeaderSize["short"] \in Nat \ {0}
    /\ HeaderSize["short"] <= HeaderSize[stream[k + 1].size]
    /\ WireLength(stream[k + 1]) = HeaderSize[stream[k + 1].size] + Len(stream[k + 1].payload)
    /\ Off(stream, k) \in Nat /\ Off(stream, k + 1) = Off(stream, k) + WireLength(stream[k + 1])
    /\ Off(stream, k + 1) <= Len(WholeWire(stream)) /\ Len(WholeWire(stream)) \in Nat
    /\ \A i \in 1..WireLength(stream[k + 1]) :
          WholeWire(stream)[Off(stream, k) + i] = [frame |-> k + 1, at |-> i]

(* Every frame of the stream has its place among the bytes.                *)
LEMMA AtIs ==
    ASSUME ParseInv, NEW k \in 0..(Len(stream) - 1)
    PROVE  At(k)
<1> DEFINE f == stream[k + 1]
<1>1. stream \in Seq(Frames) /\ Plain(stream) /\ Len(stream) \in Nat /\ stream \in Streams
  BY StreamAssumption, LenProperties DEF ParseInv, BufferInv, Ordinary
<1>2. /\ k \in 0..Len(stream) /\ k + 1 \in 0..Len(stream) /\ k + 1 # 0 /\ k + 1 \in 1..Len(stream)
      /\ k + 1 \in DOMAIN stream
  BY <1>1, LenProperties
<1>3. /\ f \in Frames /\ HeaderSize[f.size] \in Nat \ {0} /\ Len(f.payload) \in Nat
  BY <1>1, <1>2, WireType
<1>4. MarksMessages(f) /\ (f.rsv1 => f.size = "short")
  BY <1>1, <1>2 DEF ParseInv, Ordinary
<1>5. Noticed(stream, k)
  BY <1>1, NoticedIs
<1>6. Fair(Meanings(stream)[k])
  BY <1>1, <1>2, MeaningsLead
<1>7. Meanings(stream)[k + 1] = Meant(Meanings(stream)[k], f)
  BY <1>1, MeaningsAre
<1>8. f.payload \in Seq(Byte) /\ f.size \in Sizes
  BY <1>3 DEF Frames
<1>9. HeaderSize["short"] \in Nat \ {0} /\ HeaderSize["short"] <= HeaderSize[f.size]
  BY <1>8, SizeAssumption DEF Sizes
<1>10. WireLength(f) = HeaderSize[f.size] + Len(f.payload)
  BY DEF WireLength
<1>11. /\ Off(stream, k) \in Nat /\ Off(stream, k + 1) = Off(stream, k) + WireLength(f)
       /\ Off(stream, k + 1) <= Len(WholeWire(stream))
       /\ \A i \in 1..WireLength(f) : WholeWire(stream)[Off(stream, k) + i] = [frame |-> k + 1, at |-> i]
  BY <1>1, <1>2, WirePlaces
<1>12. Len(WholeWire(stream)) \in Nat
  <2>1. WholeWire(stream) \in Seq(Places(stream))
    BY <1>1, WirePlaces
  <2> QED
    BY <2>1, LenProperties
<1> QED
  BY <1>1, <1>2, <1>3, <1>4, <1>5, <1>6, <1>7, <1>8, <1>9, <1>10, <1>11, <1>12 DEF At

(* Where a header is wanted, and there is something to parse, it is the    *)
(* header of the next frame.                                               *)
IsHead(k) ==
    /\ At(k) /\ InBetween(k) /\ busy /\ conn.state = "open" /\ Shape(conn)
    /\ Frame = stream[k + 1] /\ src = Behind(Off(stream, k))
    /\ Len(src) = arrived - Off(stream, k) /\ arrived \in Nat /\ arrived <= Len(WholeWire(stream))
    /\ \A i \in 1..Len(src) : i <= WireLength(stream[k + 1]) => src[i] = [frame |-> k + 1, at |-> i]
    /\ \A n \in 0..Len(src) : SubSeq(src, n + 1, Len(src)) = Behind(Off(stream, k) + n)
    /\ src \in Seq(Places(stream))

(* Where consume stands at a header, that header is the next frame's.      *)
LEMMA HeadIs ==
    ASSUME ParseInv, AtHead, src # <<>>
    PROVE  \E k \in 0..(Len(stream) - 1) : IsHead(k)
<1>1. PICK k \in 0..Len(stream) : InBetween(k)
  BY DEF ParseInv, Stands, AtHead, Over, InFrame
<1>2. /\ stream \in Seq(Frames) /\ Len(stream) \in Nat /\ arrived \in Nat
      /\ arrived <= Len(WholeWire(stream)) /\ busy /\ conn.state = "open"
  BY StreamAssumption, LenProperties DEF ParseInv, BufferInv, AtHead
<1>3. src = Behind(Off(stream, k)) /\ Off(stream, k) <= arrived /\ Shape(conn)
  BY <1>1, <1>2 DEF InBetween, Settled
<1>4. Off(stream, k) \in Nat /\ Off(stream, Len(stream)) = Len(WholeWire(stream))
  BY <1>2, WirePlaces
<1> DEFINE o == Off(stream, k)
<1>5. /\ src \in Seq(Places(stream)) /\ Len(src) = arrived - o
      /\ \A i \in 1..(arrived - o) : src[i] = WholeWire(stream)[o + i]
      /\ \A n \in 0..(arrived - o) : SubSeq(src, n + 1, Len(src)) = Behind(o + n)
  BY <1>2, <1>3, <1>4, BehindIs
<1>6. Len(src) # 0 /\ Len(src) \in Nat
  BY <1>5, EmptySeq, LenProperties
<1>7. k # Len(stream)
  BY <1>2, <1>3, <1>4, <1>5, <1>6
<1>8. k \in 0..(Len(stream) - 1)
  BY <1>2, <1>7
<1>9. At(k)
  BY <1>8, AtIs
<1> DEFINE l == WireLength(stream[k + 1])
<1>10. /\ l \in Nat \ {0}
       /\ \A i \in 1..l : WholeWire(stream)[o + i] = [frame |-> k + 1, at |-> i]
  BY <1>9 DEF At
<1> HIDE DEF o, l
<1>11. \A i \in 1..Len(src) : i <= l => src[i] = [frame |-> k + 1, at |-> i]
  <2> SUFFICES ASSUME NEW i \in 1..Len(src), i <= l
               PROVE  src[i] = [frame |-> k + 1, at |-> i]
    OBVIOUS
  <2>1. i \in 1..l /\ i \in 1..(arrived - o)
    BY <1>5, <1>6, <1>10
  <2>2. src[i] = WholeWire(stream)[o + i]
    BY <1>5, <2>1
  <2> QED
    BY <1>10, <2>1, <2>2
<1>12. src[1] = [frame |-> k + 1, at |-> 1]
  BY <1>6, <1>10, <1>11
<1>13. Frame = stream[k + 1]
  BY <1>12 DEF Frame
<1>14. \A n \in 0..Len(src) : SubSeq(src, n + 1, Len(src)) = Behind(o + n)
  BY <1>5
<1> QED
  BY <1>1, <1>2, <1>3, <1>5, <1>8, <1>9, <1>11, <1>13, <1>14 DEF IsHead, o, l

(* A header that is there is not an empty piece.                           *)
LEMMA HasHeadIs ==
    ASSUME ParseInv, HasHead
    PROVE  \E k \in 0..(Len(stream) - 1) : IsHead(k)
<1>1. Len(src) >= HeaderSize["short"] /\ HeaderSize["short"] \in Nat \ {0}
  BY SizeAssumption DEF HasHead, Sizes
<1>2. src # <<>>
  BY <1>1, EmptySeq
<1> QED
  BY <1>2, HeadIs DEF HasHead

(* The first states.                                                       *)
LEMMA ParseInit == Init /\ Ordinary => ParseInv
<1> SUFFICES ASSUME Init, Ordinary PROVE ParseInv
  OBVIOUS
<1>1. BufferInv
  BY BufferInit
<1>2. stream \in Seq(Frames) /\ Len(stream) \in Nat /\ arrived = 0 /\ busy = FALSE /\ src = <<>>
  BY StreamAssumption, LenProperties DEF Init
<1>3. WholeWire(stream) \in Seq(Places(stream)) /\ Off(stream, 0) = 0
  BY <1>2, WirePlaces
<1>4. Len(WholeWire(stream)) \in Nat
  BY <1>3, LenProperties
<1>5. /\ conn.wantsHead = TRUE /\ conn.spill = <<>> /\ conn.opStack = <<>> /\ conn.lastFin = TRUE
      /\ conn.fragment = <<>> /\ conn.tip = 0 /\ conn.state = "open" /\ conn.events = <<>>
      /\ conn.replies = <<>> /\ conn.compression = (IF Negotiated THEN "enabled" ELSE "disabled")
      /\ Shape(conn)
  BY DEF Init, Shape
<1>6. Meanings(stream)[0] = NothingYet
  BY <1>2, MeaningsAre
<1>7. Settled(conn, NothingYet)
  BY <1>5 DEF Settled, NothingYet, Stack, Comp
<1>8. Behind(0) = <<>>
  BY <1>2, <1>4, SubSeqEmpty DEF Behind
<1>9. 0 < Len(stream) => 0 < HeaderSize[stream[0 + 1].size]
  <2> SUFFICES ASSUME 0 < Len(stream) PROVE 0 < HeaderSize[stream[1].size]
    OBVIOUS
  <2>1. 1 \in 1..Len(stream)
    BY <1>2
  <2>2. HeaderSize[stream[1].size] \in Nat \ {0}
    BY <1>2, <2>1, WireType
  <2> QED
    BY <2>2
<1>10. InBetween(0)
  <2>1. Settled(conn, Meanings(stream)[0])
    BY <1>6, <1>7
  <2>2. Behind(Off(stream, 0)) = <<>>
    BY <1>3, <1>8
  <2>3. 0 < Len(stream) => arrived < Off(stream, 0) + HeaderSize[stream[0 + 1].size]
    <3> DEFINE h == HeaderSize[stream[0 + 1].size]
    <3>1. 0 < Len(stream) => 0 < h
      BY <1>9
    <3> HIDE DEF h
    <3>2. 0 < Len(stream) => h = 0 + h
      <4>1. 0 < Len(stream) => h \in Nat
        <5> SUFFICES ASSUME 0 < Len(stream) PROVE h \in Nat
          OBVIOUS
        <5>1. 1 \in 1..Len(stream)
          BY <1>2
        <5> QED
          BY <1>2, <5>1, WireType DEF h
      <4> QED
        BY <4>1
    <3> QED
      BY <1>2, <1>3, <3>1, <3>2 DEF h
  <2>4. Off(stream, 0) <= arrived
    BY <1>2, <1>3
  <2> QED
    BY <1>2, <1>5, <2>1, <2>2, <2>3, <2>4 DEF InBetween, Ended
<1>11. 0 \in 0..Len(stream)
  BY <1>2
<1>12. Stands
  BY <1>10, <1>11 DEF Stands
<1> QED
  BY <1>1, <1>2, <1>4, <1>12 DEF ParseInv

(* Bytes that arrive follow those that were spilled.                       *)
LEMMA ReceiveParsed ==
    ASSUME ParseInv, NEW n \in 1..Len(WholeWire(stream)), Receive(n)
    PROVE  arrived' <= Len(WholeWire(stream')) /\ Stands'
<1> DEFINE W == WholeWire(stream)
           piece == SubSeq(W, arrived + 1, arrived + n)
<1>1. /\ stream' = stream /\ arrived' = arrived + n /\ busy' = TRUE /\ conn' = conn /\ ~busy
      /\ arrived + n <= Len(W) /\ src' = conn.spill \o piece /\ conn.state = "open"
  BY DEF Receive
<1>2. arrived \in Nat /\ stream \in Seq(Frames) /\ n \in Nat \ {0}
  BY StreamAssumption DEF ParseInv, BufferInv
<1>3. W \in Seq(Places(stream)) /\ Len(W) \in Nat
  BY <1>2, WirePlaces, LenProperties
<1> HIDE DEF W
<1>4. /\ piece \in Seq(Places(stream)) /\ Len(piece) = n
  <2> DEFINE e == arrived + n
  <2>1. e \in Nat /\ e <= Len(W) /\ arrived <= e /\ e - arrived = n
    BY <1>1, <1>2
  <2> HIDE DEF e
  <2>2. /\ SubSeq(W, arrived + 1, e) \in Seq(Places(stream))
        /\ Len(SubSeq(W, arrived + 1, e)) = IF arrived <= e THEN e - arrived ELSE 0
    BY <1>2, <1>3, <2>1, Pieces
  <2> QED
    BY <2>1, <2>2 DEF e
<1>5. ASSUME NEW p \in Nat, p <= arrived
      PROVE  /\ Behind(p) \o piece = SubSeq(W, p + 1, arrived + n)
             /\ Behind(p) \o piece # <<>>
  <2>1. /\ p + 1 \in 1..Len(W) + 1 /\ arrived \in (p + 1) - 1..Len(W)
        /\ arrived + n \in arrived..Len(W)
    BY <1>1, <1>2, <1>3, <1>5
  <2>2. SubSeq(W, p + 1, arrived) \o SubSeq(W, arrived + 1, arrived + n)
          = SubSeq(W, p + 1, arrived + n)
    BY <1>3, <2>1, ConcatAdjacentSubSeq
  <2> DEFINE b == SubSeq(W, p + 1, arrived)
  <2>3. b \in Seq(Places(stream))
    BY <1>2, <1>3, <1>5, <2>1, Pieces
  <2> HIDE DEF b, piece
  <2>4. Len(b \o piece) = Len(b) + n /\ Len(b) \in Nat
    BY <1>4, <2>3, ConcatProperties, LenProperties
  <2>5. b \o piece # <<>>
    BY <1>2, <2>4, EmptySeq
  <2> QED
    BY <2>2, <2>5 DEF Behind, W, b, piece
<1>6. CASE \E k \in 0..Len(stream) : InBetween(k)
  <2> PICK k \in 0..Len(stream) : InBetween(k)
    BY <1>6
  <2>1. Off(stream, k) \in Nat /\ Off(stream, k) <= arrived /\ conn.spill = Behind(Off(stream, k))
    BY <1>1, <1>2, WirePlaces DEF InBetween
  <2>2. src' = SubSeq(W, Off(stream, k) + 1, arrived + n) /\ src' # <<>>
    BY <1>1, <1>5, <2>1
  <2>3. src' = Behind(Off(stream, k))'
    BY <1>1, <2>2 DEF Behind, W
  <2>4. Off(stream, k) <= arrived'
    BY <1>1, <1>2, <2>1
  <2>5. InBetween(k)'
    BY <1>1, <2>2, <2>3, <2>4 DEF InBetween
  <2> QED
    BY <1>1, <2>5 DEF Stands, W
<1>7. CASE \E k \in 0..(Len(stream) - 1), d \in Nat : InFrame(k, d)
  <2> PICK k \in 0..(Len(stream) - 1), d \in Nat : InFrame(k, d)
    BY <1>7
  <2> DEFINE p == Reached(k, d)
  <2>1. arrived = p /\ conn.spill = <<>>
    BY <1>1 DEF InFrame
  <2>2. src' = piece
    BY <1>1, <1>4, <2>1, ConcatEmptySeq
  <2>3. src' = Behind(Reached(k, d))'
    <3>1. Behind(Reached(k, d))' = SubSeq(W, p + 1, arrived + n)
      BY <1>1 DEF Behind, Reached, W
    <3> QED
      BY <2>1, <2>2, <3>1
  <2>4. Reached(k, d)' <= arrived'
    <3>1. Reached(k, d)' = p
      BY <1>1 DEF Reached
    <3> QED
      BY <1>1, <1>2, <2>1, <3>1
  <2>5. InFrame(k, d)'
    BY <1>1, <2>3, <2>4 DEF InFrame
  <2> QED
    BY <1>1, <2>5 DEF Stands, W
<1> QED
  BY <1>1, <1>6, <1>7 DEF ParseInv, Stands, Over, Broken

(* A connection that breaks at a frame is behind it.                       *)
LEMMA BreaksOver ==
    ASSUME NEW k \in 0..Len(stream), NEW c, Return(c), Broken(c, Meanings(stream)[k]),
           arrived <= Len(WholeWire(stream))
    PROVE  arrived' <= Len(WholeWire(stream')) /\ Stands'
<1>1. /\ stream' = stream /\ arrived' = arrived /\ conn' = c /\ busy' = FALSE /\ src' = <<>>
  BY DEF Return
<1>2. Over(k)'
  BY <1>1 DEF Over
<1> QED
  BY <1>1, <1>2 DEF Stands

(* What is left of a call is spilled when it does not hold the next header. *)
LEMMA SpillParsed ==
    ASSUME ParseInv, Spill
    PROVE  arrived' <= Len(WholeWire(stream')) /\ Stands'
<1> DEFINE c == IF src = <<>> THEN conn ELSE [conn EXCEPT !.spill = src]
<1>1. AtHead /\ Len(src) < HeaderSize["short"] /\ Return(c)
  BY DEF Spill
<1>2. PICK k \in 0..Len(stream) : InBetween(k)
  BY <1>1 DEF ParseInv, Stands, AtHead, Over, InFrame
<1>3. /\ Settled(conn, Meanings(stream)[k]) /\ conn.wantsHead = TRUE
      /\ conn.lastFin = Ended(stream, k) /\ Off(stream, k) <= arrived
      /\ src = Behind(Off(stream, k)) /\ (src = <<>> => conn.spill = <<>>)
  BY <1>1, <1>2 DEF InBetween, AtHead
<1>4. /\ Settled(c, Meanings(stream)[k]) /\ c.wantsHead = TRUE
      /\ c.lastFin = Ended(stream, k) /\ c.spill = src
  <2> DEFINE r == [conn EXCEPT !.spill = src]
             m == Meanings(stream)[k]
  <2>1. Settled(conn, m)
    BY <1>3
  <2> HIDE DEF m
  <2>2. /\ Settled(r, m) /\ r.wantsHead = conn.wantsHead /\ r.lastFin = conn.lastFin
        /\ r.spill = src
    BY <2>1, Spills
  <2> HIDE DEF r
  <2>3. c = IF src = <<>> THEN conn ELSE r
    BY DEF r
  <2> HIDE DEF c
  <2> QED
    BY <1>3, <2>1, <2>2, <2>3 DEF m
<1>5. ASSUME k < Len(stream)
      PROVE  arrived < Off(stream, k) + HeaderSize[stream[k + 1].size]
  <2>1. stream \in Seq(Frames) /\ Len(stream) \in Nat /\ arrived \in Nat
    BY StreamAssumption, LenProperties DEF ParseInv, BufferInv
  <2>2. k \in 0..(Len(stream) - 1)
    BY <1>5, <2>1
  <2>3. At(k)
    BY <2>2, AtIs
  <2>4. Len(src) = arrived - Off(stream, k)
    BY <1>3, <2>1, <2>3, BehindIs DEF At, ParseInv
  <2> QED
    BY <1>1, <2>1, <2>3, <2>4 DEF At
<1> HIDE DEF c
<1>6. /\ stream' = stream /\ arrived' = arrived /\ conn' = c /\ busy' = FALSE /\ src' = <<>>
  BY <1>1 DEF Return
<1>7. Behind(Off(stream, k))' = src
  BY <1>3, <1>6 DEF Behind
<1>8. InBetween(k)'
  BY <1>3, <1>4, <1>5, <1>6, <1>7 DEF InBetween
<1> QED
  BY <1>6, <1>8 DEF Stands, ParseInv

(* A header that is refused breaks the connection as its frame does.       *)
LEMMA RefuseHeadParsed ==
    ASSUME ParseInv, RefuseHead
    PROVE  arrived' <= Len(WholeWire(stream')) /\ Stands'
<1> DEFINE c == SetCompressed(conn, Frame)
<1>1. HasHead /\ (c.state # "open" \/ BadHead(Frame)) /\ Return(ForceClose(c))
  BY DEF RefuseHead
<1>2. PICK k \in 0..(Len(stream) - 1) : IsHead(k)
  BY <1>1, HasHeadIs
<1> DEFINE f == stream[k + 1]
           m == Meanings(stream)[k]
<1>3. /\ Frame = f /\ f \in Frames /\ Fair(m) /\ MarksMessages(f) /\ Settled(conn, m)
      /\ Shape(conn) /\ Meanings(stream)[k + 1] = Meant(m, f) /\ k + 1 \in 0..Len(stream)
  BY <1>2 DEF IsHead, At, InBetween
<1>4. Illegal(m, f)
  BY <1>1, <1>3, HeadRefused
<1>5. Shape(c) /\ Silent(conn, c)
  BY <1>3, Marks DEF Handled, Keeps
<1> HIDE DEF c, f, m
<1>6. Broken(ForceClose(c), Meant(m, f))
  BY <1>3, <1>4, <1>5, RefusedBroken
<1> QED
  BY <1>1, <1>3, <1>6, BreaksOver DEF ParseInv

(* A frame out of order, or too long, breaks the connection.               *)
LEMMA RefuseMessageParsed ==
    ASSUME ParseInv, RefuseMessage
    PROVE  arrived' <= Len(WholeWire(stream')) /\ Stands'
<1> DEFINE c == SetCompressed(conn, Frame)
           g == IF OutOfOrder(c, Frame) THEN c ELSE Pushed(c, Frame)
<1>1. /\ HasHead /\ (OutOfOrder(c, Frame) \/ RefusePayloadLength(Len(Frame.payload)))
      /\ Return(ForceClose(g))
  BY DEF RefuseMessage
<1>2. PICK k \in 0..(Len(stream) - 1) : IsHead(k)
  BY <1>1, HasHeadIs
<1> DEFINE f == stream[k + 1]
           m == Meanings(stream)[k]
<1>3. /\ Frame = f /\ f \in Frames /\ Fair(m) /\ Settled(conn, m) /\ stream \in Seq(Frames)
      /\ Shape(conn) /\ Meanings(stream)[k + 1] = Meant(m, f) /\ k + 1 \in 0..Len(stream)
      /\ conn.lastFin = Ended(stream, k) /\ Len(f.payload) \in Nat
  BY <1>2 DEF IsHead, At, InBetween
<1>4. Illegal(m, f)
  <2>1. CASE OutOfOrder(c, Frame)
    BY <1>3, <2>1, OrderRefused
  <2>2. CASE RefusePayloadLength(Len(Frame.payload))
    <3>1. Len(f.payload) > MaxPayload
      BY <1>3, <2>2, SizeAssumption DEF RefusePayloadLength
    <3> QED
      BY <3>1 DEF Illegal
  <2> QED
    BY <1>1, <2>1, <2>2
<1>5. Shape(c) /\ Silent(conn, c)
  BY <1>3, Marks DEF Handled, Keeps
<1>6. Shape(g) /\ Silent(conn, g)
  <2> HIDE DEF c
  <2>1. IsPushed(c, Pushed(c, Frame), Frame.op, Frame.fin)
    BY <1>5, Pushes
  <2>2. Shape(Pushed(c, Frame)) /\ Silent(c, Pushed(c, Frame))
    BY <2>1 DEF IsPushed
  <2> QED
    BY <1>5, <2>2 DEF Silent
<1> HIDE DEF c, g, f, m
<1>7. Broken(ForceClose(g), Meant(m, f))
  BY <1>3, <1>4, <1>6, RefusedBroken
<1> QED
  BY <1>1, <1>3, <1>7, BreaksOver DEF ParseInv

(* A longer header that is not there in full is spilled.                   *)
LEMMA SpillHeadParsed ==
    ASSUME ParseInv, SpillHead
    PROVE  arrived' <= Len(WholeWire(stream')) /\ Stands'
<1> DEFINE c == SetCompressed(conn, Frame)
           r == [conn EXCEPT !.spill = src]
<1>1. /\ HasHead /\ Len(src) < HeaderSize[Frame.size] /\ Return([c EXCEPT !.spill = src])
      /\ Len(src) >= HeaderSize["short"]
  BY DEF SpillHead, HasHead
<1>2. PICK k \in 0..(Len(stream) - 1) : IsHead(k)
  BY <1>1, HasHeadIs
<1> DEFINE f == stream[k + 1]
           m == Meanings(stream)[k]
<1>3. /\ Frame = f /\ f \in Frames /\ Settled(conn, m) /\ Shape(conn) /\ k \in 0..Len(stream)
      /\ f.rsv1 => f.size = "short"
      /\ conn.wantsHead = TRUE /\ conn.lastFin = Ended(stream, k) /\ Off(stream, k) <= arrived
      /\ src = Behind(Off(stream, k)) /\ Len(src) = arrived - Off(stream, k)
      /\ arrived \in Nat /\ Off(stream, k) \in Nat /\ arrived <= Len(WholeWire(stream))
      /\ HeaderSize["short"] \in Nat /\ HeaderSize[f.size] \in Nat
  BY <1>2 DEF IsHead, At, InBetween
<1>4. c = conn
  <2>1. f.size # "short"
    BY <1>1, <1>3
  <2> QED
    BY <1>3, <2>1, Marks
<1>5. /\ Settled(r, m) /\ r.wantsHead = TRUE /\ r.lastFin = Ended(stream, k) /\ r.spill = src
  <2>0. Settled(conn, m)
    BY <1>3
  <2> HIDE DEF m
  <2>1. /\ Settled(r, m) /\ r.wantsHead = conn.wantsHead /\ r.lastFin = conn.lastFin
        /\ r.spill = src
    BY <2>0, Spills
  <2> HIDE DEF r
  <2> QED
    BY <1>3, <2>1
<1>6. /\ stream' = stream /\ arrived' = arrived /\ conn' = r /\ busy' = FALSE /\ src' = <<>>
  BY <1>1, <1>4 DEF Return
<1> HIDE DEF r, c
<1>7. arrived < Off(stream, k) + HeaderSize[f.size]
  BY <1>1, <1>3
<1>8. Behind(Off(stream, k))' = src
  BY <1>3, <1>6 DEF Behind
<1>9. InBetween(k)'
  BY <1>3, <1>5, <1>6, <1>7, <1>8 DEF InBetween, f, m
<1> QED
  BY <1>3, <1>6, <1>9 DEF Stands

(* A piece of what is left to parse that lies in the payload of a frame is *)
(* unmasked to that piece of the payload.                                  *)
LiesFrom(a, k, d, n) ==
    \A j \in 1..n : src[a + j] = [frame |-> k + 1, at |-> HeaderSize[stream[k + 1].size] + d + j]

(* With its mask rotated to where it lies, such a piece comes out as the   *)
(* payload.                                                                *)
LEMMA UnmasksPiece ==
    ASSUME NEW k \in 0..(Len(stream) - 1), At(k), NEW d \in Nat, NEW mask, Aligned(mask, d),
           NEW a \in Nat, NEW n \in Nat, src \in Seq(Places(stream)), a + n <= Len(src),
           d + n <= Len(stream[k + 1].payload),
           LiesFrom(a, k, d, n)
    PROVE  Unmask(SubSeq(src, a + 1, a + n), mask) = SubSeq(stream[k + 1].payload, d + 1, d + n)
<1> DEFINE e == a + n
           bytes == SubSeq(src, a + 1, e)
           h == HeaderSize[stream[k + 1].size]
<1>1. e \in Nat /\ e <= Len(src) /\ a <= e /\ e - a = n
  OBVIOUS
<1> HIDE DEF e
<1>2. /\ bytes \in Seq(Places(stream)) /\ Len(bytes) = IF a <= e THEN e - a ELSE 0
      /\ \A j \in 1..e - a : bytes[j] = src[a + j]
  BY <1>1, Pieces
<1>3. \A j \in 1..n : src[a + j] = [frame |-> k + 1, at |-> h + d + j]
  BY DEF LiesFrom
<1> HIDE DEF bytes, h
<1>4. Len(bytes) = n /\ \A j \in 1..n : bytes[j] = [frame |-> k + 1, at |-> h + d + j]
  BY <1>1, <1>2, <1>3
<1>5. stream \in Seq(Frames)
  BY DEF At
<1>6. Unmask(bytes, mask) = SubSeq(stream[k + 1].payload, d + 1, d + n)
  <2>1. bytes \in Seq(Places(stream)) /\ Len(bytes) = n /\ Lies(bytes, k, d, n)
    BY <1>2, <1>4 DEF h, Lies
  <2> QED
    BY <1>5, <2>1, Unmasks
<1> QED
  BY <1>6 DEF bytes, e

(* Behind a good header the frame is begun, and unmasking gives the        *)
(* payload as far as it is there.                                          *)
IsBegun(k) ==
    LET f == stream[k + 1]
        h == HeaderSize[f.size]
        p == Pushed(SetCompressed(conn, f), f)
    IN  /\ IsHead(k) /\ Taking(p, Meanings(stream)[k], f, 0)
        /\ p.wantsHead = TRUE /\ p.lastFin = f.fin
        /\ \A n \in 0..Len(f.payload) :
              h + n <= Len(src) =>
                  Unmask(SubSeq(src, h + 1, h + n), FreshMask) = SubSeq(f.payload, 1, n)

(* A header that consume accepts begins the frame that the bytes stand     *)
(* for.                                                                    *)
LEMMA BegunIs ==
    ASSUME ParseInv, HasHead, HeadComplete(SetCompressed(conn, Frame)),
           ~OutOfOrder(SetCompressed(conn, Frame), Frame),
           ~RefusePayloadLength(Len(Frame.payload))
    PROVE  \E k \in 0..(Len(stream) - 1) : IsBegun(k)
<1>1. PICK k \in 0..(Len(stream) - 1) : IsHead(k)
  BY HasHeadIs
<1> DEFINE f == stream[k + 1]
           m == Meanings(stream)[k]
           h == HeaderSize[f.size]
           c == SetCompressed(conn, f)
           p == Pushed(c, f)
<1>2. /\ Frame = f /\ f \in Frames /\ Settled(conn, m) /\ Shape(conn) /\ stream \in Seq(Frames)
      /\ conn.wantsHead = TRUE /\ conn.lastFin = Ended(stream, k) /\ Noticed(stream, k)
      /\ At(k) /\ h \in Nat \ {0} /\ Len(f.payload) \in Nat /\ Len(src) \in Nat
      /\ src \in Seq(Places(stream)) /\ WireLength(f) = h + Len(f.payload)
      /\ \A i \in 1..Len(src) : i <= WireLength(f) => src[i] = [frame |-> k + 1, at |-> i]
  BY <1>1, LenProperties DEF IsHead, At, InBetween
<1>3. /\ c.state = "open" /\ ~BadHead(f) /\ ~OutOfOrder(c, f)
      /\ ~(Len(f.payload) > MaxPayload)
  <2>1. ~RefusePayloadLength(Len(f.payload))
    BY <1>2
  <2>2. ~(Len(f.payload) > MaxPayload)
    BY <1>2, <2>1, SizeAssumption DEF RefusePayloadLength
  <2> QED
    BY <1>2, <2>2 DEF HeadComplete, GoodHead
<1>4. Taking(p, m, f, 0)
  BY <1>2, <1>3, HeadTaken
<1>5. p.wantsHead = TRUE /\ p.lastFin = f.fin
  <2>1. Shape(c) /\ c.wantsHead = TRUE
    BY <1>2, Marks DEF Handled, Keeps
  <2> HIDE DEF c
  <2>2. IsPushed(c, p, f.op, f.fin)
    BY <2>1, Pushes
  <2> HIDE DEF p
  <2> QED
    BY <2>1, <2>2 DEF IsPushed
<1>6. ASSUME NEW n \in 0..Len(f.payload), h + n <= Len(src)
      PROVE  Unmask(SubSeq(src, h + 1, h + n), FreshMask) = SubSeq(f.payload, 1, n)
  <2>1. Aligned(FreshMask, 0)
    <3>1. \A i \in 0..3 : FreshMask[i] = (i + 0) % 4
      BY DEF FreshMask, MaskSize
    <3> QED
      BY <3>1 DEF Aligned, MaskSize
  <2>2. ASSUME NEW j \in 1..n PROVE src[h + j] = [frame |-> k + 1, at |-> h + 0 + j]
    <3> DEFINE i == h + j
    <3>1. i \in 1..Len(src) /\ i <= WireLength(f) /\ h + 0 + j = i
      BY <1>2, <1>6
    <3> HIDE DEF i, f
    <3>2. src[i] = [frame |-> k + 1, at |-> i]
      BY <1>2, <3>1
    <3> QED
      BY <3>1, <3>2 DEF i
  <2>3. 0 + n <= Len(f.payload) /\ n \in Nat /\ h \in Nat /\ 0 + n = n
    BY <1>2
  <2>4. Unmask(SubSeq(src, h + 1, h + n), FreshMask) = SubSeq(f.payload, 0 + 1, 0 + n)
    <3>1. At(k) /\ src \in Seq(Places(stream)) /\ h + n <= Len(src)
      BY <1>2, <1>6
    <3>2. \A j \in 1..n : src[h + j] = [frame |-> k + 1,
                                        at |-> HeaderSize[stream[k + 1].size] + 0 + j]
      BY <2>2
    <3>3. 0 + n <= Len(stream[k + 1].payload)
      BY <2>3
    <3> DEFINE a == h
               d == 0
               w == FreshMask
    <3>4. /\ a \in Nat /\ a + n <= Len(src) /\ LiesFrom(a, k, d, n)
          /\ d \in Nat /\ d + n <= Len(stream[k + 1].payload) /\ Aligned(w, d)
          /\ At(k) /\ src \in Seq(Places(stream)) /\ n \in Nat
      BY <2>1, <2>3, <3>1, <3>2, <3>3 DEF LiesFrom
    <3> HIDE DEF a, d, w, f, h
    <3>5. Unmask(SubSeq(src, a + 1, a + n), w) = SubSeq(stream[k + 1].payload, d + 1, d + n)
      BY <3>4, UnmasksPiece
    <3> QED
      BY <3>5 DEF a, d, w, f, h
  <2> QED
    BY <2>3, <2>4
<1> QED
  BY <1>1, <1>4, <1>5, <1>6 DEF IsBegun

(* A frame that is there in full.                                          *)
LEMMA ConsumeWholeParsed ==
    ASSUME ParseInv, NEW app \in Reactions, ConsumeWhole(app)
    PROVE  arrived' <= Len(WholeWire(stream')) /\ Stands'
<1>1. PICK k \in 0..(Len(stream) - 1) : IsBegun(k)
  BY BegunIs DEF ConsumeWhole
<1> DEFINE f == stream[k + 1]
           m == Meanings(stream)[k]
           n == Meanings(stream)[k + 1]
           h == HeaderSize[f.size]
           w == WireLength(f)
           p == Pushed(SetCompressed(conn, f), f)
           after == AfterWhole(p, f, app)
           e == [after EXCEPT !.spill = <<>>]
<1>2. /\ Frame = f /\ f \in Frames /\ Fair(m) /\ MarksMessages(f) /\ n = Meant(m, f)
      /\ k + 1 \in 0..Len(stream) /\ k + 1 # 0 /\ h \in Nat \ {0} /\ Len(f.payload) \in Nat
      /\ w = h + Len(f.payload) /\ Len(src) = arrived - Off(stream, k)
      /\ Off(stream, k) \in Nat /\ Off(stream, k + 1) = Off(stream, k) + w
      /\ arrived \in Nat /\ arrived <= Len(WholeWire(stream)) /\ f.payload \in Seq(Byte)
      /\ \A j \in 0..Len(src) : SubSeq(src, j + 1, Len(src)) = Behind(Off(stream, k) + j)
  BY <1>1 DEF IsBegun, IsHead, At
<1>3. /\ Taking(p, m, f, 0) /\ p.wantsHead = TRUE /\ p.lastFin = f.fin
      /\ \A j \in 0..Len(f.payload) :
            h + j <= Len(src) =>
                Unmask(SubSeq(src, h + 1, h + j), FreshMask) = SubSeq(f.payload, 1, j)
  BY <1>1 DEF IsBegun
<1>4. w <= Len(src) /\ (IF after.state # "open" THEN Return(after) ELSE Continue(e, w))
  BY <1>2 DEF ConsumeWhole
<1>5. Done(p, after, n)
  <2>1. Unmask(SubSeq(src, h + 1, w), FreshMask) = SubSeq(f.payload, 1, Len(f.payload))
    <3> DEFINE j == Len(f.payload)
    <3>1. j \in Nat /\ w = h + j /\ w <= Len(src)
      BY <1>2, <1>4
    <3>2. \A i \in 0..j :
            h + i <= Len(src) =>
                Unmask(SubSeq(src, h + 1, h + i), FreshMask) = SubSeq(f.payload, 1, i)
      BY <1>3
    <3> HIDE DEF j, w, h, f
    <3>3. j \in 0..j
      BY <3>1
    <3>4. Unmask(SubSeq(src, h + 1, h + j), FreshMask) = SubSeq(f.payload, 1, j)
      BY <3>1, <3>2, <3>3
    <3> QED
      BY <3>1, <3>4 DEF j
  <2> DEFINE q == SubSeq(f.payload, 0 + 1, Len(f.payload))
  <2>2. Unmask(SubSeq(src, h + 1, w), FreshMask) = q
    BY <2>1
  <2>3. 0 \in Nat /\ 0 <= Len(f.payload)
    BY <1>2
  <2>4. Done(p, Popped(HandleFragment(p, q, 0, Top(p), f.fin, app), f.fin), Meant(m, f))
    BY <1>2, <1>3, <2>3, TakeWhole
  <2> HIDE DEF q, p, m, n
  <2> QED
    BY <1>2, <2>2, <2>4 DEF AfterWhole
<1> HIDE DEF after, p, n, m, w, h
<1>6. CASE after.state # "open"
  <2>1. Broken(after, n)
    BY <1>5, <1>6 DEF Done, Settled
  <2> QED
    BY <1>2, <1>4, <1>6, <2>1, BreaksOver DEF n
<1>7. CASE after.state = "open"
  <2>1. /\ Settled(after, n) /\ after.wantsHead = TRUE /\ after.lastFin = f.fin
    BY <1>3, <1>5, <1>7 DEF Done, Broken
  <2>2. /\ Settled(e, n) /\ e.wantsHead = after.wantsHead /\ e.lastFin = after.lastFin
        /\ e.spill = <<>>
    BY <2>1, Spills
  <2> HIDE DEF e
  <2>3. /\ conn' = e /\ src' = SubSeq(src, w + 1, Len(src)) /\ stream' = stream
        /\ arrived' = arrived /\ busy' = busy /\ busy
    <3>1. busy
      BY DEF ConsumeWhole, HasHead, AtHead
    <3> QED
      BY <1>4, <1>7, <3>1 DEF Continue
  <2>4. w \in 0..Len(src) /\ Off(stream, k + 1) <= arrived
    <3> DEFINE l == Len(src)
               o == Off(stream, k)
               j == Len(f.payload)
    <3>1. /\ h \in Nat /\ j \in Nat /\ w = h + j /\ l = arrived - o /\ o \in Nat /\ arrived \in Nat
          /\ w <= l /\ Off(stream, k + 1) = o + w
      BY <1>2, <1>4
    <3> HIDE DEF l, o, j
    <3>2. w \in 0..l /\ o + w <= arrived
      BY <3>1
    <3> QED
      BY <3>1, <3>2 DEF l
  <2>5. src' = Behind(Off(stream, k + 1))
    BY <1>2, <2>3, <2>4
  <2>6. src' = Behind(Off(stream, k + 1))'
    BY <2>3, <2>5 DEF Behind
  <2>7. e.lastFin = Ended(stream, k + 1)
    BY <1>2, <2>1, <2>2 DEF Ended
  <2>8. InBetween(k + 1)'
    BY <2>1, <2>2, <2>3, <2>4, <2>6, <2>7 DEF InBetween, n
  <2> QED
    BY <1>2, <2>3, <2>8 DEF Stands
<1> QED
  BY <1>6, <1>7

(* Behind a piece of a frame the parser is inside the frame, or over.      *)
LEMMA StaysInside ==
    ASSUME ParseInv, NEW k \in 0..(Len(stream) - 1), NEW d \in Nat,
           d < Len(stream[k + 1].payload), NEW c, Return(c),
           c.wantsHead = FALSE, Taking(c, Meanings(stream)[k], stream[k + 1], d),
           c.remaining = Len(stream[k + 1].payload) - d, c.spill = <<>>, Aligned(c.mask, d),
           arrived = Reached(k, d)
    PROVE  arrived' <= Len(WholeWire(stream')) /\ Stands'
<1>1. /\ stream' = stream /\ arrived' = arrived /\ conn' = c /\ busy' = FALSE /\ src' = <<>>
  BY DEF Return
<1>2. arrived \in Nat /\ arrived <= Len(WholeWire(stream))
  BY DEF ParseInv, BufferInv
<1> DEFINE r == Reached(k, d)
<1>3. Reached(k, d)' = r
  BY <1>1 DEF Reached
<1>4. r = arrived
  OBVIOUS
<1> HIDE DEF r
<1>5. Behind(Reached(k, d))' = <<>>
  <2>1. Behind(Reached(k, d))' = SubSeq(WholeWire(stream), arrived + 1, arrived)
    BY <1>1, <1>3, <1>4 DEF Behind
  <2>2. arrived + 1 \in Int /\ arrived \in Int /\ arrived < arrived + 1
    BY <1>2
  <2> QED
    BY <2>1, <2>2, SubSeqEmpty
<1>6. InFrame(k, d)'
  <2>1. /\ conn'.wantsHead = FALSE /\ d < Len(stream'[k + 1].payload)
        /\ Taking(conn', Meanings(stream')[k], stream'[k + 1], d)
        /\ conn'.remaining = Len(stream'[k + 1].payload) - d
        /\ conn'.spill = <<>> /\ Aligned(conn'.mask, d)
    BY <1>1
  <2>2. Reached(k, d)' <= arrived' /\ arrived' = Reached(k, d)'
    BY <1>1, <1>2, <1>3, <1>4
  <2> QED
    BY <1>1, <1>5, <2>1, <2>2 DEF InFrame
<1> QED
  BY <1>1, <1>2, <1>6 DEF Stands

(* The first part of a frame.                                              *)
LEMMA ConsumePartParsed ==
    ASSUME ParseInv, ConsumePart
    PROVE  arrived' <= Len(WholeWire(stream')) /\ Stands'
<1>1. PICK k \in 0..(Len(stream) - 1) : IsBegun(k)
  BY BegunIs DEF ConsumePart
<1> DEFINE f == stream[k + 1]
           m == Meanings(stream)[k]
           n == Meanings(stream)[k + 1]
           h == HeaderSize[f.size]
           w == WireLength(f)
           p == Pushed(SetCompressed(conn, f), f)
           taken == Len(src) - h
           rest == w - Len(src)
           mask == RotateMask(FreshMask, MaskSize - (taken % MaskSize))
           q == [p EXCEPT !.spill = <<>>, !.wantsHead = FALSE, !.remaining = rest, !.mask = mask]
           data == Unmask(SubSeq(src, h + 1, Len(src)), FreshMask)
           after == HandleFragment(q, data, rest, Top(p), f.fin, "open")
<1>2. /\ Frame = f /\ f \in Frames /\ Fair(m) /\ n = Meant(m, f)
      /\ k + 1 \in 0..Len(stream) /\ h \in Nat \ {0} /\ Len(f.payload) \in Nat
      /\ w = h + Len(f.payload) /\ Len(src) = arrived - Off(stream, k) /\ Len(src) \in Nat
      /\ Off(stream, k) \in Nat /\ arrived \in Nat /\ arrived <= Len(WholeWire(stream))
  BY <1>1, LenProperties DEF IsBegun, IsHead, At
<1>3. /\ Taking(p, m, f, 0) /\ p.wantsHead = TRUE /\ p.lastFin = f.fin
      /\ \A j \in 0..Len(f.payload) :
            h + j <= Len(src) =>
                Unmask(SubSeq(src, h + 1, h + j), FreshMask) = SubSeq(f.payload, 1, j)
  BY <1>1 DEF IsBegun
<1>4. /\ w > Len(src) /\ Len(src) >= h /\ Return(AfterPart(p, f, "open"))
  BY <1>2 DEF ConsumePart, HeadComplete
<1>5. AfterPart(p, f, "open") = after
  BY DEF AfterPart
<1>6. /\ taken \in 0..Len(f.payload) /\ h + taken = Len(src) /\ taken < Len(f.payload)
      /\ rest = Len(f.payload) - taken /\ rest # 0
      /\ arrived = Off(stream, k) + h + taken
  <2> DEFINE l == Len(src)
             o == Off(stream, k)
             j == Len(f.payload)
  <2>1. /\ h \in Nat /\ j \in Nat /\ w = h + j /\ l = arrived - o /\ o \in Nat /\ arrived \in Nat
        /\ l \in Nat /\ w > l /\ l >= h /\ taken = l - h /\ rest = w - l
    BY <1>2, <1>4
  <2> HIDE DEF l, o, j, h, w, taken, rest
  <2>2. /\ taken \in 0..j /\ h + taken = l /\ taken < j /\ rest = j - taken /\ rest # 0
        /\ arrived = o + h + taken
    BY <2>1
  <2> QED
    BY <2>2 DEF l, o, j
<1> HIDE DEF p, m, n, w, taken, mask, f, h, rest
<1>7. data = SubSeq(f.payload, 1, taken)
  <2>1. Unmask(SubSeq(src, h + 1, h + taken), FreshMask) = SubSeq(f.payload, 1, taken)
    <3>1. taken \in 0..Len(f.payload) /\ h + taken <= Len(src)
      BY <1>2, <1>6
    <3>2. \A j \in 0..Len(f.payload) :
            h + j <= Len(src) =>
                Unmask(SubSeq(src, h + 1, h + j), FreshMask) = SubSeq(f.payload, 1, j)
      BY <1>3 DEF h, f
    <3> QED
      BY <3>1, <3>2
  <2> QED
    BY <1>6, <2>1
<1>8. IsTaken(p, q, rest, mask)
  <2>1. Shape(p)
    BY <1>3 DEF Taking, Opened
  <2> QED
    BY <2>1, Takes
<1> HIDE DEF q
<1>9. Taking(q, m, f, 0) /\ Top(q) = Top(p)
  BY <1>3, <1>8 DEF Taking, Opened, IsTaken, Silent, Top
<1>10. Aligned(mask, taken)
  <2>1. Aligned(FreshMask, 0)
    <3>1. \A i \in 0..3 : FreshMask[i] = (i + 0) % 4
      BY DEF FreshMask, MaskSize
    <3> QED
      BY <3>1 DEF Aligned, MaskSize
  <2>2. taken \in Nat /\ 0 \in Nat /\ 0 + taken = taken
    BY <1>2, <1>6
  <2>3. Aligned(RotateMask(FreshMask, MaskSize - (taken % MaskSize)), 0 + taken)
    BY <2>1, <2>2, Rotates
  <2> QED
    BY <2>2, <2>3 DEF mask
<1>11. /\ Keeps(q, after)
       /\ \/ Taking(after, m, f, taken)
          \/ Broken(after, n)
  <2> DEFINE z == SubSeq(f.payload, 0 + 1, taken)
  <2>1. data = z
    BY <1>7
  <2>2. 0 \in Nat /\ taken \in Nat /\ 0 <= taken /\ taken <= Len(f.payload) /\ ~(rest = 0 /\ f.fin)
    BY <1>2, <1>6
  <2> DEFINE r == HandleFragment(q, z, rest, Top(q), f.fin, "open")
  <2>3. /\ Keeps(q, r)
        /\ Taking(r, m, f, taken) \/ Broken(r, Meant(m, f))
    BY <1>2, <1>9, <2>2, TakePart
  <2>4. after = r
    BY <1>9, <2>1
  <2> HIDE DEF r, after
  <2> QED
    BY <1>2, <2>3, <2>4
<1> HIDE DEF after
<1>12. CASE Broken(after, n)
  BY <1>2, <1>4, <1>5, <1>12, BreaksOver DEF n
<1>13. CASE Taking(after, m, f, taken)
  <2>1. /\ after.wantsHead = FALSE /\ after.spill = <<>> /\ after.remaining = rest
        /\ after.mask = mask
    BY <1>8, <1>11 DEF IsTaken, Keeps
  <2>2. taken \in Nat /\ arrived = Reached(k, taken)
    BY <1>2, <1>6 DEF Reached, h, f
  <2> QED
    BY <1>4, <1>5, <1>6, <1>10, <1>13, <2>1, <2>2, StaysInside DEF f, m
<1> QED
  BY <1>11, <1>12, <1>13

(* Inside a frame, unmasking goes on where it stopped.                     *)
IsInside(k, d) ==
    LET f == stream[k + 1]
        r == Reached(k, d)
    IN  /\ At(k) /\ InFrame(k, d) /\ conn.state = "open" /\ Shape(conn)
        /\ r \in Nat /\ arrived \in Nat /\ arrived <= Len(WholeWire(stream))
        /\ Len(src) = arrived - r /\ Len(src) \in Nat
        /\ \A n \in 0..Len(src) : SubSeq(src, n + 1, Len(src)) = Behind(r + n)
        /\ \A n \in 0..(Len(f.payload) - d) :
              n <= Len(src) => Unmask(SubSeq(src, 0 + 1, 0 + n), conn.mask)
                                   = SubSeq(f.payload, d + 1, d + n)

(* A call of consume that finds itself inside a frame is where the bytes   *)
(* left it.                                                                *)
LEMMA InsideIs ==
    ASSUME ParseInv, busy, ~conn.wantsHead
    PROVE  \E k \in 0..(Len(stream) - 1), d \in Nat : IsInside(k, d)
<1>1. PICK k \in 0..(Len(stream) - 1), d \in Nat : InFrame(k, d)
  BY DEF ParseInv, Stands, InBetween, Over
<1> DEFINE f == stream[k + 1]
           r == Reached(k, d)
           h == HeaderSize[f.size]
           o == Off(stream, k)
           l == Len(f.payload)
<1>2. /\ At(k) /\ stream \in Seq(Frames) /\ h \in Nat \ {0} /\ l \in Nat /\ o \in Nat
      /\ \A i \in 1..(h + l) : WholeWire(stream)[o + i] = [frame |-> k + 1, at |-> i]
  <2>1. At(k)
    BY AtIs
  <2> QED
    BY <2>1 DEF At
<1>3. /\ d < l /\ r <= arrived /\ src = Behind(r) /\ Aligned(conn.mask, d)
      /\ Taking(conn, Meanings(stream)[k], f, d)
  BY <1>1 DEF InFrame
<1>4. conn.state = "open" /\ Shape(conn)
  BY <1>3 DEF Taking, Opened
<1>5. r = o + h + d
  BY DEF Reached
<1>6. arrived \in Nat /\ arrived <= Len(WholeWire(stream)) /\ src \in Seq(Places(stream))
  BY DEF ParseInv, BufferInv
<1> HIDE DEF r, h, o, l, f
<1>7. r \in Nat
  BY <1>2, <1>5
<1>8. /\ Len(src) = arrived - r
      /\ \A i \in 1..(arrived - r) : src[i] = WholeWire(stream)[r + i]
      /\ \A n \in 0..(arrived - r) : SubSeq(src, n + 1, Len(src)) = Behind(r + n)
  BY <1>2, <1>3, <1>6, <1>7, BehindIs
<1>9. Len(src) \in Nat
  BY <1>6, LenProperties
<1>10. ASSUME NEW n \in 0..(l - d), n <= Len(src)
       PROVE  Unmask(SubSeq(src, 0 + 1, 0 + n), conn.mask) = SubSeq(f.payload, d + 1, d + n)
  <2>1. n \in Nat /\ d + n <= l /\ 0 + n <= Len(src) /\ 0 \in Nat
    BY <1>2, <1>3, <1>10
  <2>2. ASSUME NEW j \in 1..n
        PROVE  src[0 + j] = [frame |-> k + 1, at |-> h + d + j]
    <3> DEFINE i == h + d + j
    <3>1. j \in 1..(arrived - r) /\ 0 + j = j
      BY <1>8, <1>9, <2>1, <1>10
    <3>2. i \in 1..(h + l) /\ o + i = r + j
      BY <1>2, <1>5, <2>1
    <3> HIDE DEF i
    <3>3. src[j] = WholeWire(stream)[o + i]
      BY <1>8, <3>1, <3>2
    <3>4. WholeWire(stream)[o + i] = [frame |-> k + 1, at |-> i]
      BY <1>2, <3>2
    <3> QED
      BY <3>1, <3>3, <3>4 DEF i
  <2>3. \A j \in 1..n : src[0 + j] = [frame |-> k + 1,
                                       at |-> HeaderSize[stream[k + 1].size] + d + j]
    BY <2>2 DEF h, f
  <2>4. d + n <= Len(stream[k + 1].payload)
    BY <2>1 DEF l, f
  <2> DEFINE a == 0
             w == conn.mask
  <2>5. /\ At(k) /\ src \in Seq(Places(stream)) /\ Aligned(w, d)
        /\ a \in Nat /\ a + n <= Len(src) /\ LiesFrom(a, k, d, n)
    BY <1>2, <1>3, <1>6, <2>1, <2>3 DEF LiesFrom
  <2> HIDE DEF a, w
  <2>6. Unmask(SubSeq(src, a + 1, a + n), w) = SubSeq(stream[k + 1].payload, d + 1, d + n)
    BY <2>1, <2>4, <2>5, UnmasksPiece
  <2> QED
    BY <2>6 DEF a, w, f
<1>11. IsInside(k, d)
  BY <1>1, <1>2, <1>4, <1>6, <1>7, <1>8, <1>9, <1>10 DEF IsInside, r, l, f
<1> QED
  BY <1>11

(* The rest of a frame.                                                    *)
LEMMA ContinueWholeParsed ==
    ASSUME ParseInv, NEW app \in Reactions, ContinueWhole(app)
    PROVE  arrived' <= Len(WholeWire(stream')) /\ Stands'
<1>1. PICK k \in 0..(Len(stream) - 1), d \in Nat : IsInside(k, d)
  BY InsideIs DEF ContinueWhole
<1> DEFINE f == stream[k + 1]
           m == Meanings(stream)[k]
           n == Meanings(stream)[k + 1]
           l == Len(f.payload)
           r == Reached(k, d)
           s == conn.remaining
           data == Unmask(SubSeq(src, 1, s), conn.mask)
           after == Popped(HandleFragment(conn, data, 0, Top(conn), conn.lastFin, app),
                           conn.lastFin)
           e == [after EXCEPT !.wantsHead = TRUE]
<1>2. /\ f \in Frames /\ Fair(m) /\ MarksMessages(f) /\ n = Meant(m, f)
      /\ k + 1 \in 0..Len(stream) /\ k + 1 # 0 /\ l \in Nat /\ r \in Nat
      /\ Len(src) = arrived - r /\ Len(src) \in Nat /\ arrived \in Nat
      /\ arrived <= Len(WholeWire(stream))
      /\ \A j \in 0..Len(src) : SubSeq(src, j + 1, Len(src)) = Behind(r + j)
  BY <1>1 DEF IsInside, At
<1>3. /\ Taking(conn, m, f, d) /\ conn.wantsHead = FALSE /\ conn.lastFin = f.fin
      /\ d < l /\ s = l - d /\ conn.spill = <<>>
  BY <1>1 DEF IsInside, InFrame, Taking, Opened
<1>4. /\ s <= Len(src) /\ busy /\ (IF after.state # "open" THEN Return(after) ELSE Continue(e, s))
  BY DEF ContinueWhole
<1>5. Off(stream, k + 1) = r + s
  <2> DEFINE o == Off(stream, k)
             h == HeaderSize[f.size]
             w == WireLength(f)
  <2>1. o \in Nat /\ h \in Nat /\ w = h + l /\ Off(stream, k + 1) = o + w /\ r = o + h + d
    BY <1>1 DEF IsInside, At, Reached
  <2> HIDE DEF o, h, w, r, l, s
  <2> QED
    BY <1>2, <1>3, <2>1
<1>6. s \in 0..(l - d) /\ s \in 0..Len(src) /\ d + s = l
  <2> DEFINE x == Len(src)
  <2>1. s <= x /\ x \in Nat /\ l \in Nat /\ d < l /\ s = l - d
    BY <1>2, <1>3, <1>4
  <2> HIDE DEF x, l, s
  <2>2. s \in 0..(l - d) /\ s \in 0..x /\ d + s = l
    BY <2>1
  <2> QED
    BY <2>2 DEF x
<1>7. data = SubSeq(f.payload, d + 1, l)
  <2>1. \A j \in 0..(l - d) :
           j <= Len(src) => Unmask(SubSeq(src, 0 + 1, 0 + j), conn.mask)
                                = SubSeq(f.payload, d + 1, d + j)
    BY <1>1 DEF IsInside
  <2> HIDE DEF s, l
  <2>2. Unmask(SubSeq(src, 0 + 1, 0 + s), conn.mask) = SubSeq(f.payload, d + 1, d + s)
    BY <1>4, <1>6, <2>1
  <2>3. 0 + s = s /\ 0 + 1 = 1
    BY <1>6
  <2> QED
    BY <1>6, <2>2, <2>3
<1>8. Done(conn, after, n)
  <2> DEFINE q == SubSeq(f.payload, d + 1, l)
  <2>1. d <= l
    BY <1>2, <1>3
  <2>2. Done(conn, Popped(HandleFragment(conn, q, 0, Top(conn), f.fin, app), f.fin), Meant(m, f))
    BY <1>2, <1>3, <2>1, TakeWhole
  <2> HIDE DEF data, q, m, n
  <2> QED
    BY <1>2, <1>3, <1>7, <2>2 DEF q
<1> HIDE DEF after, n, m, s, r
<1>9. CASE after.state # "open"
  <2>1. Broken(after, n)
    BY <1>8, <1>9 DEF Done, Settled
  <2> QED
    BY <1>2, <1>4, <1>9, <2>1, BreaksOver DEF n
<1>10. CASE after.state = "open"
  <2>1. Settled(after, n) /\ after.lastFin = f.fin /\ after.spill = <<>>
    BY <1>3, <1>8, <1>10 DEF Done, Broken
  <2>2. IsRested(after, e)
    <3>1. Shape(after)
      BY <2>1 DEF Settled
    <3> QED
      BY <3>1, Rests
  <2> HIDE DEF e
  <2>3. Settled(e, n) /\ e.wantsHead = TRUE /\ e.lastFin = f.fin /\ e.spill = <<>>
    BY <2>1, <2>2 DEF IsRested, Settled, Silent
  <2>4. /\ conn' = e /\ src' = SubSeq(src, s + 1, Len(src)) /\ stream' = stream
        /\ arrived' = arrived /\ busy' = busy /\ busy
    BY <1>4, <1>10 DEF Continue
  <2>5. Off(stream, k + 1) <= arrived
    <3> DEFINE x == Len(src)
    <3>1. x = arrived - r /\ s \in 0..x /\ Off(stream, k + 1) = r + s /\ x \in Nat
      BY <1>2, <1>5, <1>6
    <3> HIDE DEF x
    <3>2. r + s <= arrived
      BY <1>2, <3>1
    <3> QED
      BY <3>1, <3>2
  <2>6. src' = Behind(Off(stream, k + 1))
    BY <1>2, <1>5, <1>6, <2>4
  <2>7. src' = Behind(Off(stream, k + 1))'
    BY <2>4, <2>6 DEF Behind
  <2>8. e.lastFin = Ended(stream, k + 1)
    BY <1>2, <2>3 DEF Ended
  <2>9. InBetween(k + 1)'
    BY <2>3, <2>4, <2>5, <2>7, <2>8 DEF InBetween, n
  <2> QED
    BY <1>2, <2>4, <2>9 DEF Stands
<1> QED
  BY <1>9, <1>10

(* Counting down what is left of a frame touches nothing else.             *)
IsLessened(c, e, w) ==
    /\ Shape(e) /\ Silent(c, e) /\ e.wantsHead = c.wantsHead /\ e.spill = c.spill
    /\ e.remaining = w /\ e.mask = c.mask /\ e.fragment = c.fragment
    /\ e.tip = c.tip /\ e.opStack = c.opStack /\ e.state = c.state
    /\ e.lastFin = c.lastFin /\ e.compression = c.compression

(* So a frame of which a part is still to come keeps all but that count.   *)
LEMMA Lessens ==
    ASSUME NEW c, Shape(c), NEW w
    PROVE  IsLessened(c, [c EXCEPT !.remaining = w], w)
<1>1. LET e == [c EXCEPT !.remaining = w]
      IN  /\ Shape(e) /\ Silent(c, e) /\ e.wantsHead = c.wantsHead /\ e.spill = c.spill
          /\ e.remaining = w /\ e.mask = c.mask /\ e.fragment = c.fragment
          /\ e.tip = c.tip /\ e.opStack = c.opStack /\ e.state = c.state
          /\ e.lastFin = c.lastFin /\ e.compression = c.compression
  BY DEF Shape, Silent
<1> QED
  BY <1>1 DEF IsLessened

(* More of a frame, and not the rest of it.                                *)
LEMMA ContinuePartParsed ==
    ASSUME ParseInv, ContinuePart
    PROVE  arrived' <= Len(WholeWire(stream')) /\ Stands'
<1>1. PICK k \in 0..(Len(stream) - 1), d \in Nat : IsInside(k, d)
  BY InsideIs DEF ContinuePart
<1> DEFINE f == stream[k + 1]
           m == Meanings(stream)[k]
           n == Meanings(stream)[k + 1]
           l == Len(f.payload)
           r == Reached(k, d)
           x == Len(src)
           t == d + x
           left == conn.remaining - x
           q == [conn EXCEPT !.remaining = left]
           data == Unmask(src, conn.mask)
           after == HandleFragment(q, data, left, Top(conn), conn.lastFin, "open")
           mask == RotateMask(after.mask, MaskSize - (x % MaskSize))
           e == [after EXCEPT !.mask = mask]
<1>2. /\ f \in Frames /\ Fair(m) /\ n = Meant(m, f)
      /\ k + 1 \in 0..Len(stream) /\ l \in Nat /\ r \in Nat
      /\ x = arrived - r /\ x \in Nat /\ arrived \in Nat
      /\ arrived <= Len(WholeWire(stream)) /\ Shape(conn)
  BY <1>1 DEF IsInside, At
<1>3. /\ Taking(conn, m, f, d) /\ conn.wantsHead = FALSE /\ conn.lastFin = f.fin
      /\ d < l /\ conn.remaining = l - d /\ conn.spill = <<>> /\ Aligned(conn.mask, d)
  BY <1>1 DEF IsInside, InFrame, Taking, Opened
<1>4. conn.remaining > x /\ Return(IF after.state # "open" THEN after ELSE e)
  BY DEF ContinuePart
<1>5. src \in Seq(Places(stream))
  BY DEF ParseInv, BufferInv
<1>6. data = SubSeq(f.payload, d + 1, t)
  <2>1. \A j \in 0..(l - d) :
           j <= x => Unmask(SubSeq(src, 0 + 1, 0 + j), conn.mask)
                         = SubSeq(f.payload, d + 1, d + j)
    BY <1>1 DEF IsInside
  <2>2. SubSeq(src, 1, x) = src
    BY <1>5, WholePiece
  <2> HIDE DEF l, x
  <2>3. x \in 0..(l - d) /\ x <= x
    BY <1>2, <1>3, <1>4
  <2>4. Unmask(SubSeq(src, 0 + 1, 0 + x), conn.mask) = SubSeq(f.payload, d + 1, d + x)
    BY <2>1, <2>3
  <2>5. 0 + x = x /\ 0 + 1 = 1
    BY <1>2
  <2> QED
    BY <2>2, <2>4, <2>5
<1> HIDE DEF x, l, r, data
<1>7. /\ t \in Nat /\ d <= t /\ t < l /\ left = l - t /\ left # 0 /\ arrived = r + x
  <2> DEFINE s == conn.remaining
  <2>1. /\ l \in Nat /\ r \in Nat /\ x \in Nat /\ arrived \in Nat /\ x = arrived - r
        /\ d < l /\ s = l - d /\ s > x /\ left = s - x
    BY <1>2, <1>3, <1>4
  <2> HIDE DEF s, left
  <2> QED
    BY <2>1
<1> HIDE DEF t, left
<1>8. /\ Shape(q) /\ Silent(conn, q) /\ q.wantsHead = FALSE /\ q.spill = <<>>
      /\ q.remaining = left /\ q.mask = conn.mask /\ q.fragment = conn.fragment
      /\ q.tip = conn.tip /\ q.opStack = conn.opStack /\ q.state = conn.state
      /\ q.lastFin = conn.lastFin /\ q.compression = conn.compression
  <2>1. IsLessened(conn, q, left)
    BY <1>2, Lessens
  <2> HIDE DEF q
  <2> QED
    BY <1>3, <2>1 DEF IsLessened
<1> HIDE DEF q
<1>9. Taking(q, m, f, d) /\ Top(q) = Top(conn)
  BY <1>3, <1>8 DEF Taking, Opened, Silent, Top
<1> HIDE DEF m, n
<1>10. Keeps(q, after) /\ (Taking(after, m, f, t) \/ Broken(after, n))
  <2> DEFINE z == SubSeq(f.payload, d + 1, t)
             g == HandleFragment(q, z, left, Top(q), f.fin, "open")
  <2>1. t <= Len(f.payload) /\ ~(left = 0 /\ f.fin)
    BY <1>2, <1>7 DEF l
  <2>2. Keeps(q, g) /\ (Taking(g, m, f, t) \/ Broken(g, Meant(m, f)))
    BY <1>2, <1>7, <1>9, <2>1, TakePart
  <2>3. after = g
    BY <1>3, <1>6, <1>9
  <2> HIDE DEF g, after
  <2> QED
    BY <1>2, <2>2, <2>3
<1> HIDE DEF after
<1>11. CASE Broken(after, n)
  <2>1. Return(after)
    BY <1>4, <1>11 DEF Broken
  <2> QED
    BY <1>2, <1>11, <2>1, BreaksOver DEF n
<1>12. CASE Taking(after, m, f, t)
  <2>1. after.state = "open" /\ Shape(after)
    BY <1>12 DEF Taking, Opened
  <2>2. Return(e)
    BY <1>4, <2>1
  <2>3. /\ after.wantsHead = FALSE /\ after.spill = <<>> /\ after.remaining = left
        /\ after.mask = conn.mask
    BY <1>8, <1>10 DEF Keeps
  <2>4. Aligned(mask, t)
    BY <1>2, <1>3, <2>3, Rotates DEF t
  <2> HIDE DEF mask
  <2>5. /\ Shape(e) /\ Silent(after, e) /\ e.wantsHead = FALSE /\ e.spill = <<>>
        /\ e.remaining = left /\ e.mask = mask /\ e.fragment = after.fragment
        /\ e.tip = after.tip /\ e.opStack = after.opStack /\ e.state = after.state
        /\ e.lastFin = after.lastFin /\ e.compression = after.compression
    BY <2>1, <2>3 DEF Shape, Silent
  <2> HIDE DEF e
  <2>6. Taking(e, m, f, t)
    BY <1>12, <2>5 DEF Taking, Opened, Silent
  <2>7. arrived = Reached(k, t)
    <3> DEFINE o == Off(stream, k)
               h == HeaderSize[f.size]
    <3>1. o \in Nat /\ h \in Nat /\ r = o + h + d /\ Reached(k, t) = o + h + t
      BY <1>1 DEF IsInside, At, Reached, r
    <3>2. t = d + x
      BY DEF t
    <3> HIDE DEF o, h
    <3> QED
      BY <1>2, <1>7, <3>1, <3>2
  <2> QED
    BY <1>7, <2>2, <2>4, <2>5, <2>6, <2>7, StaysInside DEF m, l
<1> QED
  BY <1>10, <1>11, <1>12

(* Every step keeps the parser where the frames are.                       *)
LEMMA ParseNext == ParseInv /\ [Next]_vars => ParseInv'
<1> SUFFICES ASSUME ParseInv, [Next]_vars PROVE ParseInv'
  OBVIOUS
<1>1. BufferInv'
  BY BufferNext DEF ParseInv
<1>2. Ordinary'
  BY DEF ParseInv, Ordinary
<1>3. arrived' <= Len(WholeWire(stream')) /\ Stands'
  <2>1. CASE \E n \in 1..Len(WholeWire(stream)) : Receive(n)
    BY <2>1, ReceiveParsed
  <2>2. CASE Spill
    BY <2>2, SpillParsed
  <2>3. CASE RefuseHead
    BY <2>3, RefuseHeadParsed
  <2>4. CASE SpillHead
    BY <2>4, SpillHeadParsed
  <2>5. CASE RefuseMessage
    BY <2>5, RefuseMessageParsed
  <2>6. CASE ConsumePart
    BY <2>6, ConsumePartParsed
  <2>7. CASE ContinuePart
    BY <2>7, ContinuePartParsed
  <2>8. CASE \E app \in Reactions : ConsumeWhole(app)
    BY <2>8, ConsumeWholeParsed
  <2>9. CASE \E app \in Reactions : ContinueWhole(app)
    BY <2>9, ContinueWholeParsed
  <2>10. CASE UNCHANGED vars
    BY <2>10 DEF vars, ParseInv, Stands, InBetween, InFrame, Over, Behind, Reached
  <2> QED
    BY <2>1, <2>2, <2>3, <2>4, <2>5, <2>6, <2>7, <2>8, <2>9, <2>10 DEF Next
<1> QED
  BY <1>1, <1>2, <1>3 DEF ParseInv

(* A sequence begins with its prefixes.                                    *)
LEMMA BeginsPrefix ==
    ASSUME NEW S, NEW x \in Seq(S), NEW y \in Seq(S), Begins(x, y)
    PROVE  IsPrefix(x, y)
<1> DEFINE n == Len(x)
           q == SubSeq(y, 1, n)
<1>1. n \in Nat /\ n <= Len(y) /\ Len(y) \in Nat
  BY LenProperties DEF Begins
<1>2. /\ SubSeq(y, 0 + 1, n) \in Seq(S)
      /\ Len(SubSeq(y, 0 + 1, n)) = IF 0 <= n THEN n - 0 ELSE 0
      /\ \A i \in 1..n - 0 : SubSeq(y, 0 + 1, n)[i] = y[0 + i]
  <2>1. 0 \in Nat
    OBVIOUS
  <2> HIDE DEF n
  <2> QED
    BY <1>1, <2>1, Pieces
<1>3. q \in Seq(S) /\ Len(q) = n /\ \A i \in 1..n : q[i] = y[i]
  <2>1. 0 + 1 = 1 /\ n - 0 = n /\ 0 <= n /\ \A i \in 1..n : 0 + i = i
    BY <1>1
  <2> DEFINE z == SubSeq(y, 0 + 1, n)
  <2>2. z \in Seq(S) /\ (Len(z) = IF 0 <= n THEN n - 0 ELSE 0) /\ \A i \in 1..n - 0 : z[i] = y[0 + i]
    BY <1>2
  <2>3. z = q
    BY <2>1
  <2> HIDE DEF z, n, q
  <2> QED
    BY <2>1, <2>2, <2>3
<1>4. \A i \in 1..n : q[i] = x[i]
  BY <1>3 DEF Begins
<1> HIDE DEF q
<1>5. q = x
  BY <1>3, <1>4, SeqEqual
<1> QED
  BY <1>1, <1>5 DEF IsPrefix, q

(* What the parser has made so far is part of what the frames mean, and    *)
(* all of it once the connection is broken or everything has arrived.      *)
LEMMA ParsedIs == ParseInv => StreamParsed
<1> SUFFICES ASSUME ParseInv PROVE StreamParsed
  OBVIOUS
<1> DEFINE N == Len(stream)
           z == Meanings(stream)[N]
<1>1. stream \in Seq(Frames) /\ N \in Nat /\ arrived \in Nat
  BY StreamAssumption, LenProperties DEF ParseInv, BufferInv
<1>2. Meaning(stream) = z
  BY DEF Meaning
<1>3. PICK k \in 0..N : InBetween(k) \/ Over(k) \/ \E d \in Nat : k < N /\ InFrame(k, d)
  BY <1>1 DEF ParseInv, Stands
<1> DEFINE m == Meanings(stream)[k]
<1>4. Fair(m) /\ Fair(z) /\ Leads(m, z)
  <2>1. N \in 0..N /\ k \in 0..N
    BY <1>1
  <2> QED
    BY <1>1, <2>1, MeaningsLead
<1>5. conn.events = m.events /\ conn.replies = m.replies
  BY <1>3 DEF InBetween, InFrame, Over, Settled, Taking, Opened, Broken
<1>6. IsPrefix(conn.events, z.events) /\ IsPrefix(conn.replies, z.replies)
  <2>1. /\ m.events \in Seq(Note) /\ m.replies \in Seq(Note)
        /\ z.events \in Seq(Note) /\ z.replies \in Seq(Note)
    BY <1>4 DEF Fair, MeaningSet
  <2>2. Begins(m.events, z.events) /\ Begins(m.replies, z.replies)
    BY <1>4 DEF Leads, Adds
  <2>3. IsPrefix(m.events, z.events)
    BY <2>1, <2>2, BeginsPrefix
  <2>4. IsPrefix(m.replies, z.replies)
    BY <2>1, <2>2, BeginsPrefix
  <2> QED
    BY <1>5, <2>3, <2>4
<1>7. ASSUME conn.state \in {"closed", "ended"}
      PROVE  conn.events = z.events /\ conn.replies = z.replies /\ conn.state = z.verdict
  <2>1. Over(k)
    BY <1>3, <1>7 DEF InBetween, InFrame, Settled, Taking, Opened
  <2>2. m.verdict = conn.state
    BY <1>7, <2>1 DEF Over, Broken
  <2>3. z = m
    BY <1>4, <1>7, <2>2 DEF Leads
  <2> QED
    BY <1>5, <2>2, <2>3
<1>8. ASSUME conn.state = "open", ~busy, arrived = Len(WholeWire(stream))
      PROVE  conn.events = z.events /\ conn.replies = z.replies /\ conn.state = z.verdict
  <2>1. k = N
    <3>1. SUFFICES ASSUME k # N PROVE FALSE
      OBVIOUS
    <3>2. k \in 0..(N - 1) /\ k < N
      BY <1>1, <3>1
    <3>3. At(k)
      BY <3>2, AtIs
    <3> DEFINE o == Off(stream, k)
               h == HeaderSize[stream[k + 1].size]
               l == Len(stream[k + 1].payload)
    <3>4. o \in Nat /\ h \in Nat /\ l \in Nat /\ o + (h + l) <= arrived
      BY <1>8, <3>3 DEF At
    <3>5. CASE InBetween(k)
      <4>1. arrived < o + h
        BY <1>8, <3>2, <3>5 DEF InBetween
      <4> HIDE DEF o, h, l
      <4> QED
        BY <1>1, <3>4, <4>1
    <3>6. CASE \E d \in Nat : InFrame(k, d)
      <4>1. PICK d \in Nat : arrived = o + h + d /\ d < l
        BY <1>8, <3>6 DEF InFrame, Reached
      <4> HIDE DEF o, h, l
      <4> QED
        BY <1>1, <3>4, <4>1
    <3>7. ~Over(k)
      BY <1>8 DEF Over, Broken
    <3> QED
      BY <1>3, <3>5, <3>6, <3>7
  <2>2. InBetween(k)
    BY <1>1, <1>3, <1>8, <2>1 DEF Over, Broken
  <2>3. m.verdict = "open"
    BY <2>2 DEF InBetween, Settled
  <2> QED
    BY <1>5, <1>8, <2>1, <2>3
<1> QED
  BY <1>2, <1>6, <1>7, <1>8 DEF StreamParsed

(* However the bytes of a stream are cut into calls of consume, the        *)
(* parser makes of them what the frames mean one by one.  It is assumed of *)
(* the streams that a message inside another one is noticed, and that the  *)
(* bit rsv1 is on short frames that begin a message only: elsewhere        *)
(* consume calls setCompressed as well, or twice, and departs from them.   *)
THEOREM ParsedAsMeant == Ordinary => (Spec => []StreamParsed)
<1>1. Ordinary /\ Spec => []ParseInv
  BY ParseInit, ParseNext, PTL DEF Spec
<1> QED
  BY <1>1, ParsedIs, PTL

=============================================================================
