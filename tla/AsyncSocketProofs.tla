--------------------------- MODULE AsyncSocketProofs ---------------------------
(***************************************************************************)
(* Lemmas about the operators of AsyncSocket, for any bytes, any size of   *)
(* the cork buffer and any division of the backpressure buffer: what each  *)
(* call keeps, and which bytes it adds to the stream of its socket.  The   *)
(* proofs about the components that write (WebSocket) rest on them.        *)
(***************************************************************************)
EXTENDS AsyncSocket, Integers, SequenceTheorems, TLAPS

(* The record, for bytes of the set B.                                     *)
IOType(o, B) ==
    o \in [corked : Sockets \cup {Nil}, cork : Seq(B),
           raw : [Sockets -> Seq(B)], removed : [Sockets -> Nat],
           sent : [Sockets -> Seq(B)],
           fin : SUBSET Sockets, closed : SUBSET Sockets]

(* What is pending removal is a part of the buffer that is worth keeping   *)
(* and never all of it, so that the two lengths are zero together.         *)
Exact(o, s) ==
    /\ o.removed[s] <= Len(o.raw[s]) \div EraseDivisor
    /\ o.removed[s] < Len(o.raw[s]) \/ (o.raw[s] = <<>> /\ o.removed[s] = 0)

(* What every call keeps, and what holds of the cork buffer between calls: *)
(* its data has an owner and is ahead of no backpressure of its owner.     *)
IOSafe(o, B) ==
    /\ IOType(o, B)
    /\ Len(o.cork) <= CorkSize
    /\ \A s \in Sockets : Exact(o, s)

CorkOwned(o) ==
    /\ o.corked = Nil => o.cork = <<>>
    /\ o.cork # <<>> => o.raw[o.corked] = <<>>

IOInv(o, B) == IOSafe(o, B) /\ CorkOwned(o)

(* The bytes of a socket that have left the cork buffer, and all of them.  *)
Pending(o, s) == o.sent[s] \o Data(o, s)
Stream(o, s) == Pending(o, s) \o (IF IsCorked(o, s) THEN o.cork ELSE <<>>)

(* A step from o to p is about the socket s alone.                         *)
OnlyOf(o, p, s) ==
    /\ p.fin = o.fin
    /\ p.closed = o.closed
    /\ \A t \in Sockets \ {s} : /\ p.raw[t] = o.raw[t]
                                /\ p.removed[t] = o.removed[t]
                                /\ p.sent[t] = o.sent[t]

-----------------------------------------------------------------------------
(* Arithmetic and sequences.                                               *)

(* Division is monotone.                                                   *)
LEMMA DivMonotone ==
    ASSUME NEW a \in Nat, NEW b \in Nat, NEW d \in Nat \ {0}, a <= b
    PROVE  a \div d <= b \div d
  <1> DEFINE x == a \div d
             y == b \div d
  <1>1. x \in Int /\ y \in Int
    OBVIOUS
  <1>2. d * x <= a /\ b < d * (y + 1)
    BY SMT
  <1>3. SUFFICES ASSUME y + 1 <= x PROVE FALSE
    BY <1>1, SMT
  <1>4. d * (y + 1) <= d * x
    BY <1>1, <1>3, SMT
  <1> QED
    BY <1>1, <1>2, <1>4, SMT

(* Division of a natural number gives one.                                 *)
LEMMA DivNat ==
    ASSUME NEW a \in Nat, NEW d \in Nat \ {0}
    PROVE  a \div d \in Nat
  <1>1. a \div d \in Int
    OBVIOUS
  <1>2. d * (a \div d + 1) > 0
    BY SMT
  <1> QED
    BY <1>1, <1>2, SMT

(* A sequence cut in two.                                                  *)
LEMMA Cut ==
    ASSUME NEW B, NEW q \in Seq(B), NEW n \in 0..Len(q)
    PROVE  /\ SubSeq(q, 1, n) \in Seq(B)
           /\ Len(SubSeq(q, 1, n)) = n
           /\ SubSeq(q, n + 1, Len(q)) \in Seq(B)
           /\ Len(SubSeq(q, n + 1, Len(q))) = Len(q) - n
           /\ SubSeq(q, 1, n) \o SubSeq(q, n + 1, Len(q)) = q
  <1>1. Len(q) \in Nat /\ \A i \in 1..Len(q) : q[i] \in B
    BY LenProperties, ElementOfSeq
  <1>2. /\ SubSeq(q, 1, n) \in Seq(B)
        /\ Len(SubSeq(q, 1, n)) = n
    BY <1>1, SubSeqProperties
  <1>3. /\ SubSeq(q, n + 1, Len(q)) \in Seq(B)
        /\ Len(SubSeq(q, n + 1, Len(q))) = Len(q) - n
    BY <1>1, SubSeqProperties
  <1>4. SubSeq(q, 1, n) \o SubSeq(q, n + 1, Len(q)) = SubSeq(q, 1, Len(q))
    <2>1. /\ 1 \in 1..Len(q) + 1
          /\ n \in 1 - 1..Len(q)
          /\ Len(q) \in n..Len(q)
      BY <1>1
    <2> QED
      BY <2>1, ConcatAdjacentSubSeq, Zenon
  <1> QED
    BY <1>2, <1>3, <1>4, SubSeqFull

(* The rest of the rest.                                                   *)
LEMMA CutAgain ==
    ASSUME NEW B, NEW q \in Seq(B), NEW r \in 0..Len(q), NEW n \in 0..(Len(q) - r)
    PROVE  LET d == SubSeq(q, r + 1, Len(q))
           IN  SubSeq(q, r + n + 1, Len(q)) = SubSeq(d, n + 1, Len(d))
  <1> DEFINE d == SubSeq(q, r + 1, Len(q))
             x == SubSeq(q, r + n + 1, Len(q))
             y == SubSeq(d, n + 1, Len(d))
  <1>1. Len(q) \in Nat /\ \A i \in 1..Len(q) : q[i] \in B
    BY LenProperties, ElementOfSeq
  <1>2. /\ d \in Seq(B)
        /\ Len(d) = Len(q) - r
        /\ \A i \in 1..(Len(q) - r) : d[i] = q[r + i]
    BY <1>1, SubSeqProperties
  <1>3. \A i \in 1..Len(d) : d[i] \in B
    BY <1>2, ElementOfSeq
  <1>4. /\ x \in Seq(B)
        /\ Len(x) = Len(q) - r - n
        /\ \A i \in 1..(Len(q) - r - n) : x[i] = q[r + n + i]
    BY <1>1, SubSeqProperties
  <1>5. /\ y \in Seq(B)
        /\ Len(y) = Len(q) - r - n
        /\ \A i \in 1..(Len(q) - r - n) : y[i] = d[n + i]
    BY <1>1, <1>2, <1>3, SubSeqProperties
  <1>6. ASSUME NEW i \in 1..Len(x)
        PROVE  x[i] = y[i]
    <2> HIDE DEF d, x, y
    <2>1. x[i] = q[r + n + i] /\ y[i] = d[n + i]
      BY <1>1, <1>4, <1>5
    <2>2. d[n + i] = q[r + (n + i)]
      BY <1>1, <1>2, <1>4
    <2> QED
      BY <1>1, <1>4, <2>1, <2>2
  <1>7. x = y
    <2> HIDE DEF x, y
    <2> QED BY <1>4, <1>5, <1>6, SeqEqual
  <1> QED
    BY <1>7

-----------------------------------------------------------------------------
(* The steps that the calls are made of.                                   *)

(* The components of the record.                                           *)
LEMMA Components ==
    ASSUME NEW B, NEW o, IOType(o, B), NEW s \in Sockets
    PROVE  /\ o.corked \in Sockets \cup {Nil} /\ o.cork \in Seq(B)
           /\ o.raw[s] \in Seq(B) /\ o.removed[s] \in Nat /\ o.sent[s] \in Seq(B)
           /\ Len(o.cork) \in Nat /\ Len(o.raw[s]) \in Nat /\ Len(o.sent[s]) \in Nat
           /\ o.fin \subseteq Sockets /\ o.closed \subseteq Sockets
  BY DEF IOType

(* The two lengths of the backpressure are zero together, and what is      *)
(* left of it is as long as it says.                                       *)
LEMMA LengthExact ==
    ASSUME NEW B, NEW o, IOType(o, B), NEW s \in Sockets, Exact(o, s)
    PROVE  /\ Length(o, s) \in 0..Len(o.raw[s])
           /\ Length(o, s) = 0 <=> o.raw[s] = <<>>
           /\ Data(o, s) \in Seq(B)
           /\ Len(Data(o, s)) = Length(o, s)
           /\ o.raw[s] = <<>> => o.removed[s] = 0 /\ Data(o, s) = <<>>
  <1>1. /\ o.raw[s] \in Seq(B) /\ o.removed[s] \in Nat /\ Len(o.raw[s]) \in Nat
        /\ o.removed[s] \in 0..Len(o.raw[s])
        /\ o.removed[s] < Len(o.raw[s]) \/ (Len(o.raw[s]) = 0 /\ o.removed[s] = 0)
    BY Components DEF Exact
  <1>2. Len(o.raw[s]) = 0 <=> o.raw[s] = <<>>
    BY <1>1, EmptySeq
  <1>3. Data(o, s) \in Seq(B) /\ Len(Data(o, s)) = Length(o, s)
    BY <1>1, Cut DEF Data, Length
  <1>4. /\ Length(o, s) \in 0..Len(o.raw[s])
        /\ Length(o, s) = 0 <=> o.raw[s] = <<>>
    BY <1>1, <1>2 DEF Length
  <1>5. o.raw[s] = <<>> => o.removed[s] = 0 /\ Data(o, s) = <<>>
    BY <1>1, <1>2, <1>3, <1>4, EmptySeq DEF Exact
  <1> QED
    BY <1>3, <1>4, <1>5

(* n bytes of the backpressure given to the kernel, and erased.            *)
Flushed(o, s, n) ==
    LET after == KernelWrite(o, s, SubSeq(Data(o, s), 1, n))
    IN  IF n = Length(o, s) THEN Clear(after, s) ELSE Erase(after, s, n)

(* Flushing moves bytes, and neither drops nor repeats one.                *)
LEMMA FlushKeeps ==
    ASSUME NEW B, NEW o, IOSafe(o, B), NEW s \in Sockets, NEW n \in 0..Length(o, s)
    PROVE  LET p == Flushed(o, s, n)
           IN  /\ IOSafe(p, B)
               /\ OnlyOf(o, p, s)
               /\ p.corked = o.corked /\ p.cork = o.cork
               /\ Pending(p, s) = Pending(o, s)
               /\ Len(p.sent[s]) = Len(o.sent[s]) + n
               /\ p.raw[s] = <<>> <=> n = Length(o, s)
  <1> DEFINE p == Flushed(o, s, n)
             raw == o.raw[s]
             d == Data(o, s)
             d1 == SubSeq(d, 1, n)
             d2 == SubSeq(d, n + 1, Len(d))
             gone == o.removed[s] + n
             cut == gone > Len(raw) \div EraseDivisor
  <1>1. IOType(o, B) /\ Exact(o, s)
    BY DEF IOSafe
  <1>2. /\ raw \in Seq(B) /\ Len(raw) \in Nat /\ o.removed[s] \in Nat
        /\ o.sent[s] \in Seq(B) /\ Len(o.sent[s]) \in Nat
    BY <1>1, Components
  <1>3. /\ Length(o, s) \in 0..Len(raw) /\ d \in Seq(B) /\ Len(d) = Length(o, s)
        /\ Length(o, s) = 0 <=> raw = <<>>
    BY <1>1, LengthExact
  <1>4. /\ d1 \in Seq(B) /\ Len(d1) = n /\ d2 \in Seq(B) /\ Len(d2) = Len(d) - n
        /\ d1 \o d2 = d
    BY <1>3, Cut
  <1>5. SubSeq(raw, gone + 1, Len(raw)) = d2
    <2>1. /\ o.removed[s] \in 0..Len(raw)
          /\ n \in 0..(Len(raw) - o.removed[s])
          /\ d = SubSeq(raw, o.removed[s] + 1, Len(raw))
          /\ gone + 1 = o.removed[s] + n + 1
      BY <1>2, <1>3 DEF Length, Data
    <2> QED
      BY <1>2, <2>1, CutAgain
  <1> HIDE DEF d1, d2
  <1>6. o.sent[s] \o d1 \in Seq(B) /\ Len(o.sent[s] \o d1) = Len(o.sent[s]) + n
    BY <1>2, <1>4, ConcatProperties
  <1>7. /\ p.corked = o.corked /\ p.cork = o.cork
        /\ p.fin = o.fin /\ p.closed = o.closed
        /\ p.sent = [o.sent EXCEPT ![s] = @ \o d1]
        /\ p.raw = [o.raw EXCEPT ![s] = IF n = Length(o, s) THEN <<>>
                                         ELSE IF cut THEN d2 ELSE raw]
        /\ p.removed = [o.removed EXCEPT ![s] = IF n = Length(o, s) \/ cut THEN 0
                                                ELSE gone]
        /\ IOType(p, B)
    <2>1. CASE n = Length(o, s)
      <3>1. p = Clear(KernelWrite(o, s, d1), s)
        BY <2>1 DEF Flushed, d1
      <3>2. <<>> \in Seq(B)
        BY EmptySeq
      <3> HIDE DEF p
      <3> QED
        BY <1>1, <1>6, <2>1, <3>1, <3>2 DEF IOType, KernelWrite, Clear
    <2>2. CASE n # Length(o, s)
      <3>1. p = Erase(KernelWrite(o, s, d1), s, n)
        BY <2>2 DEF Flushed, d1
      <3> DEFINE k == KernelWrite(o, s, d1)
      <3>2. /\ IOType(k, B) /\ k.sent = [o.sent EXCEPT ![s] = @ \o d1]
            /\ k.raw = o.raw /\ k.removed = o.removed /\ k.corked = o.corked
            /\ k.cork = o.cork /\ k.fin = o.fin /\ k.closed = o.closed
        BY <1>1, <1>6 DEF IOType, KernelWrite
      <3>3. gone \in Nat
        BY <1>2, <1>3
      <3> HIDE DEF k, p
      <3>4. CASE cut
        <4>1. p = [k EXCEPT !.raw[s] = d2, !.removed[s] = 0]
          BY <1>5, <3>1, <3>2, <3>4 DEF Erase, k
        <4> QED
          BY <1>4, <2>2, <3>2, <3>4, <4>1 DEF IOType
      <3>5. CASE ~cut
        <4>1. p = [k EXCEPT !.removed[s] = gone]
          BY <3>1, <3>2, <3>5 DEF Erase, k
        <4> QED
          BY <2>2, <3>2, <3>3, <3>5, <4>1 DEF IOType
      <3> QED
        BY <3>4, <3>5
    <2> QED
      BY <2>1, <2>2
  <1> HIDE DEF p
  <1>8. /\ OnlyOf(o, p, s)
        /\ p.sent[s] = o.sent[s] \o d1
        /\ p.raw[s] = IF n = Length(o, s) THEN <<>> ELSE IF cut THEN d2 ELSE raw
        /\ p.removed[s] = IF n = Length(o, s) \/ cut THEN 0 ELSE gone
    BY <1>1, <1>7 DEF OnlyOf, IOType
  <1>9. /\ Data(p, s) = d2
        /\ Exact(p, s)
        /\ p.raw[s] = <<>> <=> n = Length(o, s)
    <2>1. CASE n = Length(o, s)
      <3>1. d2 = <<>>
        BY <1>3, <1>4, <2>1, EmptySeq
      <3>2. p.raw[s] = <<>> /\ p.removed[s] = 0 /\ Len(p.raw[s]) = 0
        BY <1>8, <2>1, EmptySeq
      <3>3. SubSeq(p.raw[s], 0 + 1, 0) = <<>>
        BY SubSeqEmpty
      <3>4. 0 <= 0 \div EraseDivisor
        BY DivNat, CorkAssumption
      <3> QED
        BY <2>1, <3>1, <3>2, <3>3, <3>4 DEF Data, Exact
    <2>2. CASE n # Length(o, s) /\ cut
      <3>1. p.raw[s] = d2 /\ p.removed[s] = 0 /\ Len(d2) > 0 /\ d2 # <<>>
        BY <1>3, <1>4, <1>8, <2>2, EmptySeq
      <3>2. SubSeq(d2, 1, Len(d2)) = d2
        BY <1>4, SubSeqFull
      <3>3. 0 <= Len(d2) \div EraseDivisor
        <4>1. Len(d2) \in Nat
          BY <3>1, <1>4, LenProperties
        <4> QED
          BY <4>1, DivNat, CorkAssumption
      <3> QED
        BY <2>2, <3>1, <3>2, <3>3 DEF Data, Exact
    <2>3. CASE n # Length(o, s) /\ ~cut
      <3>1. p.raw[s] = raw /\ p.removed[s] = gone
        BY <1>8, <2>3
      <3>2. gone < Len(raw) /\ gone <= Len(raw) \div EraseDivisor /\ raw # <<>>
        <4>1. Len(raw) \div EraseDivisor \in Nat
          BY <1>2, DivNat, CorkAssumption
        <4>2. gone \in Nat /\ gone < Len(raw)
          BY <1>2, <1>3, <2>3 DEF Length
        <4> HIDE DEF gone
        <4> QED
          BY <1>2, <2>3, <4>1, <4>2, EmptySeq
      <3> QED
        BY <1>5, <2>3, <3>1, <3>2 DEF Data, Exact
    <2> QED
      BY <2>1, <2>2, <2>3
  <1>10. Pending(p, s) = Pending(o, s)
    <2>1. Pending(p, s) = (o.sent[s] \o d1) \o d2
      BY <1>8, <1>9 DEF Pending
    <2>2. (o.sent[s] \o d1) \o d2 = o.sent[s] \o (d1 \o d2)
      <3> DEFINE x == o.sent[s]
      <3>1. x \in Seq(B) /\ d1 \in Seq(B) /\ d2 \in Seq(B)
        BY <1>2, <1>4
      <3> HIDE DEF x
      <3>2. (x \o d1) \o d2 = x \o (d1 \o d2)
        BY <3>1, ConcatAssociative
      <3> QED
        BY <3>2 DEF x
    <2>3. o.sent[s] \o (d1 \o d2) = Pending(o, s)
      BY <1>4 DEF Pending
    <2> QED
      BY <2>1, <2>2, <2>3
  <1>11. IOSafe(p, B)
    <2>1. \A t \in Sockets : Exact(p, t)
      BY <1>8, <1>9 DEF IOSafe, Exact, OnlyOf
    <2> QED
      BY <1>7, <2>1 DEF IOSafe
  <1>12. Len(p.sent[s]) = Len(o.sent[s]) + n
    BY <1>6, <1>8
  <1> QED
    BY <1>7, <1>8, <1>9, <1>10, <1>11, <1>12 DEF p

(* Bytes behind the backpressure.                                          *)
LEMMA CutConcat ==
    ASSUME NEW B, NEW q \in Seq(B), NEW b \in Seq(B), NEW r \in 0..Len(q)
    PROVE  SubSeq(q \o b, r + 1, Len(q \o b)) = SubSeq(q, r + 1, Len(q)) \o b
  <1> DEFINE c == q \o b
             d == SubSeq(q, r + 1, Len(q))
             x == SubSeq(c, r + 1, Len(c))
             y == d \o b
  <1>1. /\ Len(q) \in Nat /\ Len(b) \in Nat
        /\ c \in Seq(B) /\ Len(c) = Len(q) + Len(b)
        /\ \A i \in 1..Len(q) + Len(b) :
                c[i] = IF i <= Len(q) THEN q[i] ELSE b[i - Len(q)]
    BY ConcatProperties
  <1>2. /\ \A i \in 1..Len(q) : q[i] \in B
        /\ \A i \in 1..Len(c) : c[i] \in B
    BY <1>1, ElementOfSeq
  <1> HIDE DEF c
  <1>3. /\ d \in Seq(B) /\ Len(d) = Len(q) - r
        /\ \A i \in 1..(Len(q) - r) : d[i] = q[r + i]
    BY <1>1, <1>2, SubSeqProperties
  <1>4. /\ x \in Seq(B) /\ Len(x) = Len(c) - r
        /\ \A i \in 1..(Len(c) - r) : x[i] = c[r + i]
    BY <1>1, <1>2, SubSeqProperties
  <1> HIDE DEF d, x
  <1>5. /\ y \in Seq(B) /\ Len(y) = Len(q) - r + Len(b)
        /\ \A i \in 1..(Len(q) - r + Len(b)) :
                y[i] = IF i <= Len(q) - r THEN d[i] ELSE b[i - (Len(q) - r)]
    <2>1. /\ d \o b \in Seq(B) /\ Len(d \o b) = Len(d) + Len(b)
          /\ \A i \in 1..Len(d) + Len(b) :
                (d \o b)[i] = IF i <= Len(d) THEN d[i] ELSE b[i - Len(d)]
      BY <1>3, ConcatProperties
    <2> QED
      BY <1>3, <2>1
  <1> HIDE DEF y
  <1>6. ASSUME NEW i \in 1..Len(x)
        PROVE  x[i] = y[i]
    <2>1. x[i] = c[r + i] /\ r + i \in 1..Len(q) + Len(b) /\ i \in 1..(Len(q) - r + Len(b))
      BY <1>1, <1>4
    <2>2. CASE i <= Len(q) - r
      <3>1. c[r + i] = q[r + i] /\ d[i] = q[r + i] /\ y[i] = d[i]
        BY <1>1, <1>3, <1>5, <2>1, <2>2
      <3> QED
        BY <2>1, <3>1
    <2>3. CASE i > Len(q) - r
      <3>1. r + i - Len(q) = i - (Len(q) - r) /\ ~(r + i <= Len(q)) /\ ~(i <= Len(q) - r)
        BY <1>1, <1>4, <2>3
      <3>2. c[r + i] = b[r + i - Len(q)]
        <4>1. c[r + i] = IF r + i <= Len(q) THEN q[r + i] ELSE b[r + i - Len(q)]
          BY <1>1, <2>1
        <4> QED
          BY <3>1, <4>1
      <3>3. y[i] = b[i - (Len(q) - r)]
        <4>1. y[i] = IF i <= Len(q) - r THEN d[i] ELSE b[i - (Len(q) - r)]
          BY <1>5, <2>1
        <4> QED
          BY <3>1, <4>1
      <3> QED
        BY <2>1, <3>1, <3>2, <3>3
    <2> QED
      BY <1>1, <1>4, <2>2, <2>3
  <1>7. Len(x) = Len(y)
    BY <1>1, <1>4, <1>5
  <1>8. x = y
    BY <1>4, <1>5, <1>6, <1>7, SeqEqual
  <1> QED
    BY <1>8 DEF x, y, c, d

(* Bytes appended to the backpressure come behind all of it.               *)
LEMMA AppendKeeps ==
    ASSUME NEW B, NEW o, IOSafe(o, B), NEW s \in Sockets, NEW bytes \in Seq(B)
    PROVE  LET p == AppendRaw(o, s, bytes)
           IN  /\ IOSafe(p, B)
               /\ OnlyOf(o, p, s)
               /\ p.corked = o.corked /\ p.cork = o.cork /\ p.sent = o.sent
               /\ p.raw[s] = o.raw[s] \o bytes
               /\ Pending(p, s) = Pending(o, s) \o bytes
  <1> DEFINE p == AppendRaw(o, s, bytes)
             raw == o.raw[s]
             r == o.removed[s]
             d == Data(o, s)
             x == o.sent[s]
  <1>1. IOType(o, B) /\ Exact(o, s)
    BY DEF IOSafe
  <1>2. /\ raw \in Seq(B) /\ Len(raw) \in Nat /\ r \in Nat /\ x \in Seq(B)
        /\ r \in 0..Len(raw) /\ d \in Seq(B)
    BY <1>1, Components, LengthExact DEF Exact
  <1>3. /\ raw \o bytes \in Seq(B) /\ Len(raw \o bytes) = Len(raw) + Len(bytes)
        /\ Len(bytes) \in Nat
    BY <1>2, ConcatProperties
  <1>4. /\ IOType(p, B) /\ OnlyOf(o, p, s)
        /\ p.corked = o.corked /\ p.cork = o.cork /\ p.sent = o.sent
        /\ p.raw[s] = raw \o bytes /\ p.removed = o.removed
    BY <1>1, <1>3 DEF IOType, AppendRaw, OnlyOf
  <1>5. Exact(p, s)
    <2> DEFINE a == Len(raw)
               b == Len(raw \o bytes)
    <2>0. a \in Nat /\ b \in Nat /\ a <= b /\ EraseDivisor \in Nat \ {0}
      BY <1>2, <1>3, CorkAssumption
    <2>1. r <= a \div EraseDivisor
      BY <1>1 DEF Exact
    <2> HIDE DEF a, b
    <2>2. a \div EraseDivisor <= b \div EraseDivisor
      BY <2>0, DivMonotone
    <2>5. a \div EraseDivisor \in Nat /\ b \div EraseDivisor \in Nat
      BY <2>0, DivNat
    <2>3. r <= Len(raw \o bytes) \div EraseDivisor
      <3>1. r <= b \div EraseDivisor
        BY <1>2, <2>1, <2>2, <2>5
      <3> QED
        BY <3>1 DEF b
    <2>4. r < Len(raw \o bytes) \/ (raw \o bytes = <<>> /\ r = 0)
      <3>1. CASE r < Len(raw)
        BY <1>2, <1>3, <3>1
      <3>2. CASE raw = <<>> /\ r = 0
        BY <1>3, <3>2, EmptySeq
      <3> QED
        BY <1>1, <3>1, <3>2 DEF Exact
    <2> QED
      BY <1>4, <2>3, <2>4 DEF Exact
  <1>6. IOSafe(p, B)
    <2>1. \A t \in Sockets : Exact(p, t)
      BY <1>4, <1>5 DEF IOSafe, Exact, OnlyOf
    <2> QED
      BY <1>4, <2>1 DEF IOSafe
  <1>7. Pending(p, s) = Pending(o, s) \o bytes
    <2>1. Data(p, s) = d \o bytes
      BY <1>2, <1>4, CutConcat DEF Data
    <2>2. Pending(p, s) = x \o (d \o bytes)
      BY <1>4, <2>1 DEF Pending
    <2>3. Pending(o, s) \o bytes = (x \o d) \o bytes
      BY DEF Pending
    <2> HIDE DEF x, d
    <2>4. (x \o d) \o bytes = x \o (d \o bytes)
      <3>1. x \in Seq(B) /\ d \in Seq(B) /\ bytes \in Seq(B)
        BY <1>2
      <3> QED
        BY <3>1, ConcatAssociative
    <2> QED
      BY <2>2, <2>3, <2>4
  <1> QED
    BY <1>4, <1>6, <1>7

(* Bytes given to the kernel when nothing is ahead of them.                *)
LEMMA PassKeeps ==
    ASSUME NEW B, NEW o, IOSafe(o, B), NEW s \in Sockets, NEW bytes \in Seq(B),
           o.raw[s] = <<>>
    PROVE  LET p == KernelWrite(o, s, bytes)
           IN  /\ IOSafe(p, B)
               /\ OnlyOf(o, p, s)
               /\ p.corked = o.corked /\ p.cork = o.cork /\ p.raw = o.raw
               /\ p.sent[s] = o.sent[s] \o bytes
               /\ Pending(p, s) = Pending(o, s) \o bytes
  <1> DEFINE p == KernelWrite(o, s, bytes)
             x == o.sent[s]
  <1>1. IOType(o, B) /\ Exact(o, s)
    BY DEF IOSafe
  <1>2. x \in Seq(B) /\ Data(o, s) = <<>>
    BY <1>1, Components, LengthExact
  <1>3. x \o bytes \in Seq(B)
    BY <1>2, ConcatProperties
  <1>4. /\ IOType(p, B) /\ OnlyOf(o, p, s)
        /\ p.corked = o.corked /\ p.cork = o.cork /\ p.raw = o.raw
        /\ p.removed = o.removed /\ p.sent[s] = x \o bytes
    BY <1>1, <1>3 DEF IOType, KernelWrite, OnlyOf
  <1>5. IOSafe(p, B)
    BY <1>4 DEF IOSafe, Exact
  <1>6. Pending(p, s) = Pending(o, s) \o bytes
    <2>1. Data(p, s) = <<>>
      BY <1>2, <1>4 DEF Data
    <2>2. Pending(p, s) = (x \o bytes) \o <<>> /\ Pending(o, s) = x \o <<>>
      BY <1>2, <1>4, <2>1 DEF Pending
    <2> HIDE DEF x
    <2>3. (x \o bytes) \o <<>> = x \o bytes /\ x \o <<>> = x
      BY <1>2, <1>3, ConcatEmptySeq
    <2> QED
      BY <2>2, <2>3
  <1> QED
    BY <1>4, <1>5, <1>6

-----------------------------------------------------------------------------
(* write(), for a socket that is not corked.                               *)

(* What the kernel takes is within what it is offered and has room for.    *)
LEMMA TakesBound ==
    ASSUME NEW o, NEW s, NEW room \in Nat, NEW n \in Nat
    PROVE  Takes(o, s, room, n) \in 0..n /\ Takes(o, s, room, n) <= room
  BY DEF Takes, Least

(* r is the result of writing src, which is counted as far as it reached   *)
(* the kernel or the backpressure: a call that has not failed leaves no    *)
(* backpressure, and one that may not give up has all of src.              *)
Wrote(o, B, s, src, room, optionally, r) ==
    /\ IOSafe(r.io, B)
    /\ OnlyOf(o, r.io, s)
    /\ r.io.corked = o.corked /\ r.io.cork = o.cork
    /\ r.written \in 0..Len(src)
    /\ Len(r.io.sent[s]) - Len(o.sent[s]) \in 0..room
    /\ s \notin o.closed =>
        /\ Pending(r.io, s) = Pending(o, s) \o SubSeq(src, 1, r.written)
        /\ ~r.failed => r.io.raw[s] = <<>>
    /\ ~r.failed \/ ~optionally => r.written = Len(src)

(* The same of a result that is spelled out.                               *)
LEMMA WroteResult ==
    ASSUME NEW o, NEW B, NEW s, NEW src, NEW room, NEW optionally,
           NEW p, NEW w, NEW f \in BOOLEAN,
           IOSafe(p, B), OnlyOf(o, p, s), p.corked = o.corked, p.cork = o.cork,
           w \in 0..Len(src), Len(p.sent[s]) - Len(o.sent[s]) \in 0..room,
           s \notin o.closed =>
             /\ Pending(p, s) = Pending(o, s) \o SubSeq(src, 1, w)
             /\ ~f => p.raw[s] = <<>>,
           ~f \/ ~optionally => w = Len(src)
    PROVE  Wrote(o, B, s, src, room, optionally, Result(p, w, f))
  BY DEF Wrote, Result

(* The first byte of nothing and the last of everything.                   *)
LEMMA Prefixes ==
    ASSUME NEW B, NEW q \in Seq(B)
    PROVE  SubSeq(q, 1, 0) = <<>> /\ SubSeq(q, 1, Len(q)) = q
  BY SubSeqEmpty, SubSeqFull

(* The bytes pending are bytes.                                            *)
LEMMA PendingType ==
    ASSUME NEW B, NEW o, IOSafe(o, B), NEW s \in Sockets
    PROVE  Pending(o, s) \in Seq(B) /\ Stream(o, s) \in Seq(B)
  <1>1. o.sent[s] \in Seq(B) /\ o.cork \in Seq(B) /\ <<>> \in Seq(B)
    BY Components, EmptySeq DEF IOSafe
  <1>2. Data(o, s) \in Seq(B)
    BY LengthExact DEF IOSafe
  <1>3. Pending(o, s) \in Seq(B)
    BY <1>1, <1>2, ConcatProperties DEF Pending
  <1> QED
    BY <1>1, <1>3, ConcatProperties DEF Stream

(* Past the backpressure, for an open socket without any.                  *)
LEMMA WriteThroughKeeps ==
    ASSUME NEW B, NEW o, IOSafe(o, B), NEW s \in Sockets, NEW src \in Seq(B),
           NEW room \in Nat, NEW optionally \in BOOLEAN,
           o.raw[s] = <<>>
    PROVE  Wrote(o, B, s, src, room, optionally,
                 WriteThrough(o, s, src, room, optionally))
  <1> DEFINE n == Takes(o, s, room, Len(src))
             first == SubSeq(src, 1, n)
             rest == SubSeq(src, n + 1, Len(src))
             after == KernelWrite(o, s, first)
             r == WriteThrough(o, s, src, room, optionally)
  <1>1. Len(src) \in Nat /\ n \in 0..Len(src) /\ n <= room
    BY TakesBound
  <1> HIDE DEF n
  <1>2. /\ first \in Seq(B) /\ Len(first) = n /\ rest \in Seq(B)
        /\ first \o rest = src
    BY <1>1, Cut
  <1>3. Pending(o, s) \in Seq(B) /\ o.sent[s] \in Seq(B) /\ Len(o.sent[s]) \in Nat
    BY PendingType, Components DEF IOSafe
  <1> HIDE DEF first, rest, r
  <1> SUFFICES Wrote(o, B, s, src, room, optionally, r)
    BY DEF r
  <1>4. CASE src = <<>>
    <2>1. r = Result(o, 0, FALSE)
      BY <1>4 DEF WriteThrough, r
    <2>2. Len(src) = 0 /\ SubSeq(src, 1, 0) = <<>>
      BY <1>4, Prefixes, EmptySeq
    <2>3. Pending(o, s) \o <<>> = Pending(o, s)
      BY <1>3, ConcatEmptySeq
    <2>4. Len(o.sent[s]) - Len(o.sent[s]) \in 0..room
      BY <1>3
    <2>5. OnlyOf(o, o, s) /\ 0 \in 0..Len(src)
      BY <2>2 DEF OnlyOf
    <2> QED
      BY <2>1, <2>2, <2>3, <2>4, <2>5, WroteResult
  <1>5. CASE src # <<>>
    <2>1. /\ IOSafe(after, B) /\ OnlyOf(o, after, s)
          /\ after.corked = o.corked /\ after.cork = o.cork
          /\ after.raw[s] = <<>>
          /\ after.sent[s] = o.sent[s] \o first
          /\ Pending(after, s) = Pending(o, s) \o first
      <3>1. first \in Seq(B)
        BY <1>2
      <3> QED
        BY <3>1, PassKeeps
    <2>2. Len(after.sent[s]) - Len(o.sent[s]) \in 0..room
      <3>1. Len(o.sent[s] \o first) = Len(o.sent[s]) + Len(first)
        BY <1>2, <1>3, ConcatProperties
      <3> QED
        BY <1>1, <1>2, <1>3, <2>1, <3>1
    <2> HIDE DEF after
    <2>3. CASE n = Len(src)
      <3>1. r = Result(after, n, FALSE)
        BY <1>5, <2>3 DEF WriteThrough, n, after, first, rest, r
      <3>2. SubSeq(src, 1, Len(src)) = first /\ Len(src) \in 0..Len(src)
        BY <1>1, <2>3 DEF first
      <3> QED
        BY <2>1, <2>2, <2>3, <3>1, <3>2, WroteResult
    <2>4. CASE n # Len(src) /\ optionally
      <3>1. r = Result(after, n, TRUE)
        BY <1>5, <2>4 DEF WriteThrough, n, after, first, rest, r
      <3>2. SubSeq(src, 1, n) = first
        BY DEF first
      <3> QED
        BY <1>1, <2>1, <2>2, <2>4, <3>1, <3>2, WroteResult
    <2>5. CASE n # Len(src) /\ ~optionally
      <3> DEFINE p == AppendRaw(after, s, rest)
      <3>1. r = Result(p, Len(src), TRUE)
        BY <1>5, <2>5 DEF WriteThrough, n, after, first, rest, r
      <3>3. /\ IOSafe(p, B) /\ OnlyOf(after, p, s)
            /\ p.corked = after.corked /\ p.cork = after.cork
            /\ p.sent = after.sent
            /\ Pending(p, s) = Pending(after, s) \o rest
        <4>1. rest \in Seq(B) /\ IOSafe(after, B)
          BY <1>2, <2>1
        <4> QED
          BY <4>1, AppendKeeps, SMTT(60)
      <3>4. Pending(p, s) = Pending(o, s) \o src
        <4> DEFINE x == Pending(o, s)
        <4>1. x \in Seq(B) /\ first \in Seq(B) /\ rest \in Seq(B)
          BY <1>2, <1>3
        <4> HIDE DEF x
        <4>2. (x \o first) \o rest = x \o (first \o rest)
          BY <4>1, ConcatAssociative
        <4> QED
          BY <1>2, <2>1, <3>3, <4>2 DEF x
      <3>5. SubSeq(src, 1, Len(src)) = src
        BY Prefixes
      <3>6. OnlyOf(o, p, s)
        BY <2>1, <3>3 DEF OnlyOf
      <3>7. Len(src) \in 0..Len(src)
        BY <1>1
      <3> HIDE DEF p
      <3> QED
        BY <2>1, <2>2, <2>5, <3>1, <3>3, <3>4, <3>5, <3>6, <3>7, WroteResult
    <2> QED
      BY <2>3, <2>4, <2>5
  <1> QED
    BY <1>4, <1>5

(* A write behind a flush is a write.                                      *)
LEMMA WroteBehindFlush ==
    ASSUME NEW o, NEW B, NEW s, NEW src, NEW room \in Nat, NEW optionally,
           NEW p, NEW n \in Nat, NEW r, n <= room,
           OnlyOf(o, p, s), p.corked = o.corked, p.cork = o.cork,
           Pending(p, s) = Pending(o, s),
           Len(o.sent[s]) \in Nat, Len(p.sent[s]) = Len(o.sent[s]) + n,
           Len(r.io.sent[s]) \in Nat,
           Wrote(p, B, s, src, room - n, optionally, r)
    PROVE  Wrote(o, B, s, src, room, optionally, r)
  <1>1. Len(r.io.sent[s]) - Len(o.sent[s]) \in 0..room
    BY DEF Wrote
  <1>2. OnlyOf(o, r.io, s)
    BY DEF OnlyOf, Wrote
  <1>3. p.closed = o.closed
    BY DEF OnlyOf
  <1> QED
    BY <1>1, <1>2, <1>3 DEF Wrote

(* write() of a socket that is not corked adds src behind what is pending. *)
LEMMA WriteUncorkedKeeps ==
    ASSUME NEW B, NEW o, IOSafe(o, B), NEW s \in Sockets, NEW src \in Seq(B),
           NEW room \in Nat, NEW optionally \in BOOLEAN
    PROVE  Wrote(o, B, s, src, room, optionally,
                 WriteUncorked(o, s, src, room, optionally))
  <1> DEFINE length == Length(o, s)
             n == Takes(o, s, room, length)
             p == Flushed(o, s, n)
             r == WriteUncorked(o, s, src, room, optionally)
  <1>1. IOType(o, B) /\ Exact(o, s)
    BY DEF IOSafe
  <1>2. Len(src) \in Nat /\ Len(o.sent[s]) \in Nat /\ Pending(o, s) \in Seq(B)
    BY <1>1, Components, PendingType, LenProperties
  <1>3. length \in Nat /\ (length = 0 <=> o.raw[s] = <<>>)
    BY <1>1, LengthExact, Components
  <1>4. n \in 0..length /\ n <= room
    BY <1>3, TakesBound
  <1>6. /\ IOSafe(p, B) /\ OnlyOf(o, p, s)
        /\ p.corked = o.corked /\ p.cork = o.cork
        /\ Pending(p, s) = Pending(o, s)
        /\ Len(p.sent[s]) = Len(o.sent[s]) + n
        /\ p.raw[s] = <<>> <=> n = length
    <2> HIDE DEF n
    <2> QED
      BY <1>4, FlushKeeps
  <1>7. SubSeq(src, 1, 0) = <<>> /\ SubSeq(src, 1, Len(src)) = src
    BY Prefixes
  <1> HIDE DEF r, p, n, length
  <1> SUFFICES Wrote(o, B, s, src, room, optionally, r)
    BY DEF r
  <1>8. CASE s \in o.closed
    <2>1. r = Result(o, Len(src), FALSE)
      BY <1>8 DEF WriteUncorked, FlushFirst, r
    <2>2. /\ OnlyOf(o, o, s) /\ Len(src) \in 0..Len(src)
          /\ Len(o.sent[s]) - Len(o.sent[s]) \in 0..room
      BY <1>2 DEF OnlyOf
    <2> QED
      BY <1>8, <2>1, <2>2, WroteResult
  <1>9. CASE s \notin o.closed /\ length = 0
    <2>1. r = WriteThrough(o, s, src, room, optionally)
      BY <1>9 DEF WriteUncorked, FlushFirst, r, length
    <2>2. o.raw[s] = <<>>
      BY <1>3, <1>9
    <2> QED
      BY <2>1, <2>2, WriteThroughKeeps
  <1>10. CASE s \notin o.closed /\ length # 0 /\ n = length
    <2>1. r = WriteThrough(p, s, src, room - n, optionally)
      <3>1. ~(n < length)
        BY <1>3, <1>4, <1>10
      <3> QED
        BY <1>10, <3>1 DEF WriteUncorked, FlushFirst, Flushed, r, p, n, length
    <2>2. p.raw[s] = <<>> /\ room - n \in Nat /\ n \in Nat
      BY <1>3, <1>4, <1>6, <1>10
    <2>3. Wrote(p, B, s, src, room - n, optionally, r)
      BY <1>6, <2>1, <2>2, WriteThroughKeeps
    <2>4. Len(r.io.sent[s]) \in Nat
      <3>1. IOType(r.io, B)
        BY <2>3 DEF Wrote, IOSafe
      <3> QED
        BY <3>1, Components
    <2> QED
      BY <1>2, <1>4, <1>6, <2>2, <2>3, <2>4, WroteBehindFlush
  <1>11. CASE s \notin o.closed /\ length # 0 /\ n # length /\ optionally
    <2>1. r = Result(p, 0, TRUE)
      <3>1. n < length
        BY <1>3, <1>4, <1>11
      <3> QED
        BY <1>11, <3>1 DEF WriteUncorked, FlushFirst, Flushed, r, p, n, length
    <2>2. 0 \in 0..Len(src) /\ Len(p.sent[s]) - Len(o.sent[s]) \in 0..room
      BY <1>2, <1>3, <1>4, <1>6
    <2>3. Pending(p, s) = Pending(o, s) \o SubSeq(src, 1, 0)
      <3>1. Pending(o, s) \o <<>> = Pending(o, s)
        BY <1>2, ConcatEmptySeq
      <3> QED
        BY <1>6, <1>7, <3>1
    <2> QED
      BY <1>6, <1>11, <2>1, <2>2, <2>3, WroteResult
  <1>12. CASE s \notin o.closed /\ length # 0 /\ n # length /\ ~optionally
    <2> DEFINE q == AppendRaw(p, s, src)
    <2>1. r = Result(q, Len(src), TRUE)
      <3>1. n < length
        BY <1>3, <1>4, <1>12
      <3> QED
        BY <1>12, <3>1 DEF WriteUncorked, FlushFirst, Flushed, q, r, p, n, length
    <2>2. /\ IOSafe(q, B) /\ OnlyOf(p, q, s)
          /\ q.corked = p.corked /\ q.cork = p.cork /\ q.sent = p.sent
          /\ Pending(q, s) = Pending(p, s) \o src
      <3>1. IOSafe(p, B)
        BY <1>6
      <3> QED
        BY <3>1, AppendKeeps, SMTT(60)
    <2> HIDE DEF q
    <2>3. Len(src) \in 0..Len(src) /\ Len(q.sent[s]) - Len(o.sent[s]) \in 0..room
      BY <1>2, <1>3, <1>4, <1>6, <2>2
    <2>4. /\ OnlyOf(o, q, s) /\ q.corked = o.corked /\ q.cork = o.cork
          /\ Pending(q, s) = Pending(o, s) \o SubSeq(src, 1, Len(src))
      BY <1>6, <1>7, <2>2 DEF OnlyOf
    <2> QED
      BY <1>12, <2>1, <2>2, <2>3, <2>4, WroteResult
  <1> QED
    BY <1>8, <1>9, <1>10, <1>11, <1>12

-----------------------------------------------------------------------------
(* The calls that see the cork buffer: uncork(), write(), getSendBuffer(). *)

(* r is the result of a call with src, counted as far as it has become     *)
(* part of the stream: nothing is lost, repeated or overtaken, and a call  *)
(* that has not failed leaves no backpressure.                             *)
Called(o, B, s, src, room, r) ==
    /\ IOInv(r.io, B)
    /\ OnlyOf(o, r.io, s)
    /\ r.io.corked = o.corked \/ (o.corked = s /\ r.io.corked = Nil)
    /\ o.corked # s => r.io.cork = o.cork
    /\ r.written \in 0..Len(src)
    /\ Len(r.io.sent[s]) - Len(o.sent[s]) \in 0..room
    /\ s \notin o.closed =>
        /\ Stream(r.io, s) = Stream(o, s) \o SubSeq(src, 1, r.written)
        /\ ~r.failed => r.io.raw[s] = <<>>
    /\ ~r.failed => r.written = Len(src)

(* The same of a result that is spelled out.                               *)
LEMMA CalledResult ==
    ASSUME NEW o, NEW B, NEW s, NEW src, NEW room, NEW p, NEW w, NEW f \in BOOLEAN,
           IOInv(p, B), OnlyOf(o, p, s),
           p.corked = o.corked \/ (o.corked = s /\ p.corked = Nil),
           o.corked # s => p.cork = o.cork,
           w \in 0..Len(src), Len(p.sent[s]) - Len(o.sent[s]) \in 0..room,
           s \notin o.closed =>
             /\ Stream(p, s) = Stream(o, s) \o SubSeq(src, 1, w)
             /\ ~f => p.raw[s] = <<>>,
           ~f => w = Len(src)
    PROVE  Called(o, B, s, src, room, Result(p, w, f))
  BY DEF Called, Result

(* The cork buffer is the end of the stream of the socket that is corked.  *)
LEMMA StreamEnds ==
    ASSUME NEW B, NEW o, IOSafe(o, B), NEW s \in Sockets
    PROVE  /\ o.corked = s => Stream(o, s) = Pending(o, s) \o o.cork
           /\ o.corked # s \/ o.cork = <<>> => Stream(o, s) = Pending(o, s)
  <1>1. Pending(o, s) \in Seq(B)
    BY PendingType
  <1>2. Pending(o, s) \o <<>> = Pending(o, s)
    BY <1>1, ConcatEmptySeq
  <1> QED
    BY <1>2 DEF Stream, IsCorked

(* Nothing but the cork buffer has changed.                                *)
CorkOnly(o, p) ==
    /\ p.raw = o.raw /\ p.removed = o.removed /\ p.sent = o.sent
    /\ p.fin = o.fin /\ p.closed = o.closed

(* What changes only the cork buffer, within its size, keeps the state     *)
(* safe and what is pending.                                               *)
LEMMA CorkOnlyKeeps ==
    ASSUME NEW B, NEW o, IOSafe(o, B), NEW p, IOType(p, B), CorkOnly(o, p),
           Len(p.cork) <= CorkSize, NEW s \in Sockets
    PROVE  IOSafe(p, B) /\ OnlyOf(o, p, s) /\ Pending(p, s) = Pending(o, s)
  <1>1. IOSafe(p, B)
    BY DEF IOSafe, Exact, CorkOnly
  <1>2. OnlyOf(o, p, s) /\ Pending(p, s) = Pending(o, s)
    BY DEF OnlyOf, Pending, Data, CorkOnly
  <1> QED
    BY <1>1, <1>2

(* A write to a socket without corked data is a call.                      *)
LEMMA WroteIsCalled ==
    ASSUME NEW B, NEW o, IOInv(o, B), NEW s \in Sockets, o.corked # s,
           NEW src \in Seq(B), NEW room \in Nat, NEW optionally \in BOOLEAN,
           NEW r, Wrote(o, B, s, src, room, optionally, r)
    PROVE  Called(o, B, s, src, room, r)
  <1>1. /\ IOSafe(r.io, B) /\ OnlyOf(o, r.io, s)
        /\ r.io.corked = o.corked /\ r.io.cork = o.cork
    BY DEF Wrote
  <1>2. CorkOwned(r.io)
    <2>1. CASE r.io.corked = Nil \/ r.io.cork = <<>>
      BY <1>1, <2>1 DEF CorkOwned, IOInv
    <2>2. CASE r.io.corked # Nil /\ r.io.cork # <<>>
      <3>1. o.corked \in Sockets \ {s}
        BY <1>1, <2>2 DEF IOInv, IOSafe, IOType
      <3>2. r.io.raw[o.corked] = o.raw[o.corked]
        BY <1>1, <3>1 DEF OnlyOf
      <3> QED
        BY <1>1, <2>2, <3>2 DEF CorkOwned, IOInv
    <2> QED
      BY <2>1, <2>2
  <1>3. Stream(r.io, s) = Pending(r.io, s) /\ Stream(o, s) = Pending(o, s)
    BY <1>1, StreamEnds DEF IOInv
  <1> QED
    BY <1>1, <1>2, <1>3 DEF Called, Wrote, IOInv

(* What the uncork() of the socket that is corked keeps.                   *)
CorkFreed(o, B, s, src, room, r) ==
    /\ Called(o, B, s, src, room, r)
    /\ r.io.corked = Nil /\ r.io.cork = <<>>

(* uncork() of the socket that is corked leaves the cork buffer free and   *)
(* its bytes ahead of those of src.                                        *)
LEMMA UncorkKeeps ==
    ASSUME NEW B, NEW o, IOInv(o, B), NEW s \in Sockets, o.corked = s,
           NEW src \in Seq(B), NEW room \in Nat, NEW optionally \in BOOLEAN
    PROVE  CorkFreed(o, B, s, src, room, Uncork(o, s, src, room, optionally))
  <1> DEFINE r == Uncork(o, s, src, room, optionally)
             free == [o EXCEPT !.corked = Nil]
             first == WriteUncorked(free, s, o.cork, room, FALSE)
             empty == [first.io EXCEPT !.cork = <<>>]
             used == Len(empty.sent[s]) - Len(o.sent[s])
             second == WriteUncorked(empty, s, src, room - used, optionally)
  <1>1. /\ IOSafe(o, B) /\ o.cork \in Seq(B) /\ Len(o.cork) <= CorkSize
        /\ Len(o.sent[s]) \in Nat /\ Len(src) \in Nat
        /\ Pending(o, s) \in Seq(B) /\ o.cork \in Seq(B) /\ <<>> \in Seq(B)
        /\ Len(<<>>) <= CorkSize
    BY Components, PendingType, LenProperties, EmptySeq, CorkAssumption
       DEF IOInv, IOSafe
  <1>2. /\ IOSafe(free, B) /\ free.corked = Nil /\ free.cork = o.cork
        /\ free.sent = o.sent /\ free.closed = o.closed
        /\ OnlyOf(o, free, s) /\ Pending(free, s) = Pending(o, s)
    <2>1. IOType(free, B) /\ CorkOnly(o, free) /\ free.corked = Nil /\ free.cork = o.cork
      BY <1>1 DEF IOSafe, IOType, CorkOnly
    <2> HIDE DEF free
    <2>2. IOSafe(o, B) /\ Len(free.cork) <= CorkSize
      BY <1>1, <2>1
    <2>3. IOSafe(free, B) /\ OnlyOf(o, free, s) /\ Pending(free, s) = Pending(o, s)
      BY <2>1, <2>2, CorkOnlyKeeps
    <2> QED
      BY <2>1, <2>3 DEF CorkOnly
  <1>3. Stream(o, s) = Pending(o, s) \o o.cork
    BY <1>1, StreamEnds
  <1> HIDE DEF r, free, first, empty, used, second
  <1> SUFFICES Called(o, B, s, src, room, r) /\ r.io.corked = Nil /\ r.io.cork = <<>>
    BY DEF r, CorkFreed
  <1>4. CASE o.cork = <<>>
    <2>1. r = WriteUncorked(free, s, src, room, optionally)
      BY <1>4 DEF r, Uncork, free, IsCorked
    <2>2. Wrote(free, B, s, src, room, optionally, r)
      BY <1>2, <2>1, WriteUncorkedKeeps
    <2>3. r.io.corked = Nil /\ r.io.cork = <<>> /\ IOSafe(r.io, B)
      BY <1>2, <1>4, <2>2 DEF Wrote
    <2>4. Stream(r.io, s) = Pending(r.io, s) /\ Stream(o, s) = Pending(o, s)
      BY <1>1, <1>4, <2>3, StreamEnds
    <2>5. OnlyOf(o, r.io, s)
      BY <1>2, <2>2 DEF Wrote, OnlyOf
    <2>6. IOInv(r.io, B)
      BY <2>3 DEF IOInv, CorkOwned
    <2> QED
      BY <1>2, <2>2, <2>3, <2>4, <2>5, <2>6 DEF Wrote, Called
  <1>5. CASE o.cork # <<>>
    <2>1. Wrote(free, B, s, o.cork, room, FALSE, first)
      BY <1>1, <1>2, WriteUncorkedKeeps DEF first
    <2>2. /\ IOSafe(first.io, B) /\ first.io.corked = Nil
          /\ OnlyOf(free, first.io, s)
          /\ Len(first.io.sent[s]) - Len(o.sent[s]) \in 0..room
          /\ s \notin o.closed =>
                /\ Pending(first.io, s) = Pending(o, s) \o o.cork
                /\ ~first.failed => first.io.raw[s] = <<>>
      <3>1. SubSeq(o.cork, 1, Len(o.cork)) = o.cork
        BY <1>1, Prefixes
      <3> QED
        BY <1>2, <2>1, <3>1 DEF Wrote
    <2>3. /\ IOSafe(empty, B) /\ empty.corked = Nil /\ empty.cork = <<>>
          /\ empty.raw = first.io.raw /\ empty.sent = first.io.sent
          /\ empty.closed = first.io.closed
          /\ OnlyOf(first.io, empty, s) /\ Pending(empty, s) = Pending(first.io, s)
      <3>1. /\ IOType(empty, B) /\ CorkOnly(first.io, empty)
            /\ empty.corked = Nil /\ empty.cork = <<>>
        BY <1>1, <2>2 DEF IOSafe, IOType, CorkOnly, empty
      <3>2. IOSafe(first.io, B) /\ Len(empty.cork) <= CorkSize
        BY <1>1, <2>2, <3>1
      <3>3. /\ IOSafe(empty, B) /\ OnlyOf(first.io, empty, s)
            /\ Pending(empty, s) = Pending(first.io, s)
        BY <3>1, <3>2, CorkOnlyKeeps
      <3> QED
        BY <3>1, <3>3 DEF CorkOnly
    <2>4. /\ used \in 0..room /\ OnlyOf(o, empty, s)
          /\ s \notin o.closed => Pending(empty, s) = Stream(o, s)
      BY <1>2, <1>3, <2>2, <2>3 DEF used, OnlyOf
    <2>5. Stream(o, s) \in Seq(B)
      BY <1>1, PendingType
    <2>6. CASE first.failed
      <3>1. r = Result(empty, 0, TRUE)
        BY <1>5, <2>6 DEF r, Uncork, free, first, empty, used, IsCorked
      <3>2. Stream(empty, s) = Pending(empty, s)
        BY <2>3, StreamEnds
      <3>3. Stream(o, s) \o SubSeq(src, 1, 0) = Stream(o, s)
        BY <2>5, Prefixes, ConcatEmptySeq
      <3>4. IOInv(empty, B)
        BY <2>3 DEF IOInv, CorkOwned
      <3>5. Called(o, B, s, src, room, Result(empty, 0, TRUE))
        <4>1. 0 \in 0..Len(src)
          BY <1>1
        <4> QED
          BY <2>3, <2>4, <3>2, <3>3, <3>4, <4>1, CalledResult DEF used
      <3> QED
        BY <2>3, <3>1, <3>5 DEF Result
    <2>7. CASE ~first.failed
      <3>1. r = second
        BY <1>5, <2>7 DEF r, Uncork, free, first, empty, used, second, IsCorked
      <3>2. room - used \in Nat
        BY <2>4
      <3>3. Wrote(empty, B, s, src, room - used, optionally, second)
        BY <2>3, <3>2, WriteUncorkedKeeps DEF second
      <3>4. /\ second.io.corked = Nil /\ second.io.cork = <<>> /\ IOSafe(second.io, B)
            /\ OnlyOf(o, second.io, s) /\ empty.closed = o.closed
        BY <2>3, <2>4, <3>3 DEF Wrote, OnlyOf
      <3>5. Stream(second.io, s) = Pending(second.io, s)
        BY <3>4, StreamEnds
      <3>6. IOInv(second.io, B)
        BY <3>4 DEF IOInv, CorkOwned
      <3>7. Len(second.io.sent[s]) - Len(o.sent[s]) \in 0..room
        <4>1. /\ Len(second.io.sent[s]) \in Nat
              /\ Len(empty.sent[s]) \in Nat
          BY <2>3, <3>4, Components DEF IOSafe
        <4>2. Len(second.io.sent[s]) - Len(empty.sent[s]) \in 0..(room - used)
          BY <3>3 DEF Wrote
        <4>3. used = Len(empty.sent[s]) - Len(o.sent[s]) /\ used \in 0..room
          BY <2>4 DEF used
        <4> DEFINE a == Len(second.io.sent[s])
                   e == Len(empty.sent[s])
                   f == Len(o.sent[s])
        <4>4. a \in Nat /\ e \in Nat /\ f \in Nat
          BY <1>1, <4>1
        <4>5. a - e \in 0..(room - used) /\ used = e - f /\ used \in 0..room
          BY <4>2, <4>3
        <4> HIDE DEF a, e, f, used
        <4>6. a - f \in 0..room
          BY <4>4, <4>5
        <4> QED
          BY <4>6 DEF a, f
      <3> QED
        BY <2>4, <3>1, <3>3, <3>4, <3>5, <3>6, <3>7 DEF Wrote, Called
    <2> QED
      BY <2>6, <2>7
  <1> QED
    BY <1>4, <1>5

(* write() of the socket that is corked, past the backpressure.            *)
CorkedRest(o, s, src, room, optionally) ==
    IF src = <<>> THEN Result(o, 0, FALSE)
    ELSE IF CorkSize - Len(o.cork) >= Len(src)
    THEN Result([o EXCEPT !.cork = @ \o src], Len(src), FALSE)
    ELSE Uncork(o, s, src, room, optionally)

(* write() of a corked socket whose bytes do not fit: the cork is flushed, *)
(* the rest written.                                                       *)
LEMMA CorkedRestKeeps ==
    ASSUME NEW B, NEW o, IOInv(o, B), NEW s \in Sockets, o.corked = s, o.raw[s] = <<>>,
           NEW src \in Seq(B), NEW room \in Nat, NEW optionally \in BOOLEAN
    PROVE  LET r == CorkedRest(o, s, src, room, optionally)
           IN  /\ Called(o, B, s, src, room, r)
               /\ src = <<>> => r.io.corked = o.corked
  <1> DEFINE r == CorkedRest(o, s, src, room, optionally)
             p == [o EXCEPT !.cork = @ \o src]
  <1>1. /\ IOSafe(o, B) /\ o.cork \in Seq(B)
        /\ Len(o.sent[s]) \in Nat /\ Len(src) \in Nat
        /\ Pending(o, s) \in Seq(B) /\ Stream(o, s) \in Seq(B)
    BY Components, PendingType, LenProperties DEF IOInv, IOSafe
  <1>2. /\ OnlyOf(o, o, s) /\ Len(o.sent[s]) - Len(o.sent[s]) \in 0..room
        /\ Len(src) \in 0..Len(src)
    BY <1>1 DEF OnlyOf
  <1> HIDE DEF r, p
  <1> SUFFICES Called(o, B, s, src, room, r) /\ (src = <<>> => r.io.corked = o.corked)
    BY DEF r
  <1>3. CASE src = <<>>
    <2>1. r = Result(o, 0, FALSE)
      BY <1>3 DEF r, CorkedRest
    <2>2. SubSeq(src, 1, 0) = <<>> /\ Stream(o, s) \o <<>> = Stream(o, s)
      BY <1>1, Prefixes, ConcatEmptySeq
    <2>3. Len(src) = 0 /\ 0 \in 0..Len(src)
      BY <1>3, EmptySeq
    <2>4. Called(o, B, s, src, room, Result(o, 0, FALSE))
      BY <1>2, <2>2, <2>3, CalledResult
    <2> QED
      BY <2>1, <2>4 DEF Result
  <1>4. CASE src # <<>> /\ CorkSize - Len(o.cork) >= Len(src)
    <2>1. r = Result(p, Len(src), FALSE)
      BY <1>4 DEF r, p, CorkedRest
    <2>2. /\ o.cork \o src \in Seq(B)
          /\ Len(o.cork \o src) = Len(o.cork) + Len(src)
      BY <1>1, ConcatProperties
    <2>3. /\ IOType(p, B) /\ CorkOnly(o, p)
          /\ p.corked = s /\ p.cork = o.cork \o src
      BY <1>1, <2>2 DEF p, CorkOnly, IOSafe, IOType
    <2>4. Len(p.cork) <= CorkSize
      <3>1. Len(o.cork) \in Nat
        BY <1>1, LenProperties
      <3> QED
        <4> DEFINE a == Len(o.cork)
                   c == Len(src)
        <4>1. /\ a \in Nat /\ c \in Nat /\ CorkSize \in Nat /\ CorkSize - a >= c
              /\ Len(p.cork) = a + c
          BY <1>1, <1>4, <2>2, <2>3, <3>1, CorkAssumption
        <4> HIDE DEF a, c
        <4> QED
          BY <4>1
    <2>5. IOSafe(p, B) /\ OnlyOf(o, p, s) /\ Pending(p, s) = Pending(o, s)
      BY <1>1, <2>3, <2>4, CorkOnlyKeeps
    <2>6. IOInv(p, B)
      <3>1. s # Nil
        BY SocketAssumption
      <3> QED
        BY <2>3, <2>5, <3>1 DEF IOInv, CorkOwned, CorkOnly
    <2>7. Stream(p, s) = Stream(o, s) \o src
      <3> DEFINE x == Pending(o, s)
                 c == o.cork
      <3>1. x \in Seq(B) /\ c \in Seq(B)
        BY <1>1
      <3>2. Stream(p, s) = x \o (c \o src) /\ Stream(o, s) = x \o c
        BY <1>1, <2>3, <2>5, StreamEnds
      <3> HIDE DEF x, c
      <3>3. (x \o c) \o src = x \o (c \o src)
        BY <3>1, ConcatAssociative
      <3> QED
        BY <3>2, <3>3
    <2>8. SubSeq(src, 1, Len(src)) = src
      BY Prefixes
    <2>9. p.raw[s] = <<>> /\ Len(p.sent[s]) - Len(o.sent[s]) \in 0..room
      BY <1>2, <2>3 DEF CorkOnly
    <2> QED
      BY <1>2, <1>4, <2>1, <2>3, <2>5, <2>6, <2>7, <2>8, <2>9, CalledResult
  <1>5. CASE src # <<>> /\ ~(CorkSize - Len(o.cork) >= Len(src))
    <2>1. r = Uncork(o, s, src, room, optionally)
      BY <1>5 DEF r, CorkedRest
    <2> QED
      BY <1>5, <2>1, UncorkKeeps DEF CorkFreed
  <1> QED
    BY <1>3, <1>4, <1>5

(* A call behind a flush is a call.                                        *)
LEMMA CalledBehindFlush ==
    ASSUME NEW o, NEW B, NEW s, NEW src, NEW room \in Nat,
           NEW p, NEW n \in Nat, NEW r, n <= room,
           OnlyOf(o, p, s), p.corked = o.corked, p.cork = o.cork,
           Stream(p, s) = Stream(o, s),
           Len(o.sent[s]) \in Nat, Len(p.sent[s]) = Len(o.sent[s]) + n,
           Len(r.io.sent[s]) \in Nat,
           Called(p, B, s, src, room - n, r)
    PROVE  Called(o, B, s, src, room, r)
  <1>1. Len(r.io.sent[s]) - Len(o.sent[s]) \in 0..room
    BY DEF Called
  <1>2. OnlyOf(o, r.io, s)
    BY DEF OnlyOf, Called
  <1>3. p.closed = o.closed
    BY DEF OnlyOf
  <1> QED
    BY <1>1, <1>2, <1>3 DEF Called

(* write() is such a call, and of nothing it leaves the cork where it is.  *)
Written(o, B, s, src, room, r) ==
    /\ Called(o, B, s, src, room, r)
    /\ src = <<>> => r.io.corked = o.corked

(* write() adds src behind all that was to be sent before.                 *)
LEMMA WriteKeeps ==
    ASSUME NEW B, NEW o, IOInv(o, B), NEW s \in Sockets, NEW src \in Seq(B),
           NEW room \in Nat, NEW optionally \in BOOLEAN
    PROVE  Written(o, B, s, src, room, Write(o, s, src, room, optionally))
  <1> DEFINE length == Length(o, s)
             n == Takes(o, s, room, length)
             p == Flushed(o, s, n)
             q == AppendRaw(p, s, src)
             r == Write(o, s, src, room, optionally)
  <1>1. IOSafe(o, B) /\ IOType(o, B) /\ Exact(o, s)
    BY DEF IOInv, IOSafe
  <1>2. Len(src) \in Nat /\ Len(o.sent[s]) \in Nat /\ Pending(o, s) \in Seq(B)
    BY <1>1, Components, PendingType, LenProperties
  <1>3. length \in Nat /\ (length = 0 <=> o.raw[s] = <<>>)
    BY <1>1, LengthExact, Components
  <1>4. n \in 0..length /\ n <= room
    BY <1>3, TakesBound
  <1>5. /\ IOSafe(p, B) /\ OnlyOf(o, p, s)
        /\ p.corked = o.corked /\ p.cork = o.cork
        /\ Pending(p, s) = Pending(o, s)
        /\ Len(p.sent[s]) = Len(o.sent[s]) + n
        /\ p.raw[s] = <<>> <=> n = length
    <2> HIDE DEF n
    <2> QED
      BY <1>1, <1>4, FlushKeeps
  <1> HIDE DEF r, p, q, n, length
  <1> SUFFICES Called(o, B, s, src, room, r) /\ (src = <<>> => r.io.corked = o.corked)
    BY DEF r, Written
  <1>6. CASE o.corked # s
    <2>1. r = WriteUncorked(o, s, src, room, optionally)
      BY <1>6 DEF r, Write, IsCorked
    <2>2. Wrote(o, B, s, src, room, optionally, r)
      BY <1>1, <2>1, WriteUncorkedKeeps
    <2>3. r.io.corked = o.corked
      BY <2>2 DEF Wrote
    <2> QED
      BY <1>6, <2>2, <2>3, WroteIsCalled
  <1>7. CASE o.corked = s /\ s \in o.closed
    <2>1. r = Result(o, Len(src), FALSE)
      BY <1>7 DEF r, Write, FlushFirst, IsCorked
    <2>2. /\ OnlyOf(o, o, s) /\ Len(src) \in 0..Len(src)
          /\ Len(o.sent[s]) - Len(o.sent[s]) \in 0..room
      BY <1>2 DEF OnlyOf
    <2>3. Called(o, B, s, src, room, Result(o, Len(src), FALSE))
      BY <1>7, <2>2, CalledResult
    <2> QED
      BY <2>1, <2>3 DEF Result
  <1>8. CASE o.corked = s /\ s \notin o.closed /\ length = 0
    <2>1. r = CorkedRest(o, s, src, room, optionally)
      BY <1>8 DEF r, Write, FlushFirst, CorkedRest, IsCorked, length
    <2>2. o.raw[s] = <<>>
      BY <1>3, <1>8
    <2> QED
      BY <1>8, <2>1, <2>2, CorkedRestKeeps
  <1>9. CASE o.corked = s /\ s \notin o.closed /\ length # 0
    <2>1. o.cork = <<>> /\ s # Nil
      BY <1>3, <1>9, SocketAssumption DEF IOInv, CorkOwned
    <2>2. Stream(p, s) = Pending(p, s) /\ Stream(o, s) = Pending(o, s)
      BY <1>1, <1>5, <2>1, StreamEnds
    <2>3. IOInv(p, B)
      BY <1>5, <1>9, <2>1 DEF IOInv, CorkOwned
    <2>4. SubSeq(src, 1, 0) = <<>> /\ SubSeq(src, 1, Len(src)) = src
      BY Prefixes
    <2>5. CASE n = length
      <3>1. r = CorkedRest(p, s, src, room - n, optionally)
        <4>1. ~(n < length)
          BY <1>3, <1>4, <2>5
        <4> QED
          BY <1>9, <2>5, <4>1
             DEF r, Write, FlushFirst, CorkedRest, IsCorked, Flushed, length, n, p
      <3>2. p.raw[s] = <<>> /\ room - n \in Nat /\ n \in Nat /\ p.corked = s
        BY <1>3, <1>4, <1>5, <1>9, <2>5
      <3>3. /\ Called(p, B, s, src, room - n, r)
            /\ src = <<>> => r.io.corked = o.corked
        BY <1>5, <2>3, <3>1, <3>2, CorkedRestKeeps
      <3>4. Len(r.io.sent[s]) \in Nat
        <4>1. IOType(r.io, B)
          BY <3>3 DEF Called, IOInv, IOSafe
        <4> QED
          BY <4>1, Components
      <3>5. Stream(p, s) = Stream(o, s)
        BY <1>5, <2>2
      <3> QED
        BY <1>2, <1>4, <1>5, <3>2, <3>3, <3>4, <3>5, CalledBehindFlush
    <2>6. CASE n # length /\ optionally
      <3>1. r = Result(p, 0, TRUE)
        <4>1. n < length
          BY <1>3, <1>4, <2>6
        <4> QED
          BY <1>9, <2>6, <4>1 DEF r, Write, FlushFirst, IsCorked, Flushed, length, n, p
      <3>2. 0 \in 0..Len(src) /\ Len(p.sent[s]) - Len(o.sent[s]) \in 0..room
        BY <1>2, <1>3, <1>4, <1>5
      <3>3. Stream(p, s) = Stream(o, s) \o SubSeq(src, 1, 0)
        <4>1. Pending(o, s) \o <<>> = Pending(o, s)
          BY <1>2, ConcatEmptySeq
        <4> QED
          BY <1>5, <2>2, <2>4, <4>1
      <3>4. Called(o, B, s, src, room, Result(p, 0, TRUE))
        BY <1>5, <2>3, <3>2, <3>3, CalledResult
      <3> QED
        BY <1>5, <3>1, <3>4 DEF Result
    <2>7. CASE n # length /\ ~optionally
      <3>1. r = Result(q, Len(src), TRUE)
        <4>1. n < length
          BY <1>3, <1>4, <2>7
        <4> QED
          BY <1>9, <2>7, <4>1
             DEF r, Write, FlushFirst, IsCorked, Flushed, length, n, p, q
      <3>2. /\ IOSafe(q, B) /\ OnlyOf(p, q, s)
            /\ q.corked = p.corked /\ q.cork = p.cork /\ q.sent = p.sent
            /\ Pending(q, s) = Pending(p, s) \o src
        <4>1. IOSafe(p, B)
          BY <1>5
        <4> QED
          BY <4>1, AppendKeeps, SMTT(60) DEF q
      <3>3. Len(src) \in 0..Len(src) /\ Len(q.sent[s]) - Len(o.sent[s]) \in 0..room
        BY <1>2, <1>3, <1>4, <1>5, <3>2
      <3>4. OnlyOf(o, q, s) /\ q.corked = o.corked /\ q.cork = o.cork
        BY <1>5, <3>2 DEF OnlyOf
      <3>5. IOInv(q, B)
        BY <1>9, <2>1, <3>2, <3>4 DEF IOInv, CorkOwned
      <3>6. Stream(q, s) = Stream(o, s) \o SubSeq(src, 1, Len(src))
        <4>1. Stream(q, s) = Pending(q, s)
          BY <2>1, <3>2, <3>4, StreamEnds
        <4> QED
          BY <1>5, <2>2, <2>4, <3>2, <4>1
      <3>7. Called(o, B, s, src, room, Result(q, Len(src), TRUE))
        BY <3>3, <3>4, <3>5, <3>6, CalledResult
      <3> QED
        BY <3>1, <3>4, <3>7 DEF Result
    <2> QED
      BY <2>5, <2>6, <2>7
  <1> QED
    BY <1>6, <1>7, <1>8, <1>9

(* g is what getSendBuffer() returns with the frame formatted into it: the *)
(* frame is the end of the stream, and what the attribute asks for is what *)
(* is left to do.                                                          *)
Buffered(o, B, s, frame, g) ==
    /\ IOInv(g.io, B)
    /\ OnlyOf(o, g.io, s) /\ g.io.sent = o.sent
    /\ Stream(g.io, s) = Stream(o, s) \o frame
    /\ \/ /\ g.attribute = "NEEDS_NOTHING"
          /\ o.corked = s /\ g.io.corked = s /\ g.io.raw[s] = <<>>
       \/ /\ g.attribute = "NEEDS_UNCORK"
          /\ o.corked = Nil /\ g.io.corked = s /\ g.io.raw[s] = <<>>
       \/ /\ g.attribute = "NEEDS_DRAIN"
          /\ g.io.corked = o.corked
          /\ o.corked # s => g.io.cork = o.cork

(* getSendBuffer() and the copy into it: cork buffer or backpressure gets  *)
(* the frame.                                                              *)
LEMMA GetSendBufferKeeps ==
    ASSUME NEW B, NEW o, IOInv(o, B), NEW s \in Sockets, NEW frame \in Seq(B)
    PROVE  Buffered(o, B, s, frame, GetSendBuffer(o, s, frame))
  <1> DEFINE g == GetSendBuffer(o, s, frame)
             fits == /\ Length(o, s) = 0
                     /\ o.corked = s \/ o.corked = Nil
                     /\ Len(o.cork) + Len(frame) < CorkSize
  <1>1. /\ IOSafe(o, B) /\ IOType(o, B) /\ o.cork \in Seq(B) /\ <<>> \in Seq(B)
        /\ Pending(o, s) \in Seq(B) /\ Len(frame) \in Nat /\ Len(o.cork) \in Nat
        /\ Len(<<>>) <= CorkSize /\ s # Nil
    BY Components, PendingType, LenProperties, EmptySeq, SocketAssumption,
       CorkAssumption DEF IOInv, IOSafe
  <1>2. /\ o.cork \o frame \in Seq(B)
        /\ Len(o.cork \o frame) = Len(o.cork) + Len(frame)
    BY <1>1, ConcatProperties
  <1> DEFINE x == Pending(o, s)
             c == o.cork
  <1>3. (x \o c) \o frame = x \o (c \o frame)
    <2>1. x \in Seq(B) /\ c \in Seq(B)
      BY <1>1
    <2> HIDE DEF x, c
    <2> QED
      BY <2>1, ConcatAssociative
  <1> HIDE DEF g
  <1> SUFFICES Buffered(o, B, s, frame, g)
    BY DEF g
  <1>4. CASE fits
    <2> DEFINE p == [Cork(o, s) EXCEPT !.cork = @ \o frame]
    <2>1. /\ g.io = p
          /\ \/ g.attribute = "NEEDS_NOTHING" /\ o.corked = s
             \/ g.attribute = "NEEDS_UNCORK" /\ o.corked = Nil
      BY <1>1, <1>4 DEF g, GetSendBuffer, IsCorked, CanCork
    <2>2. /\ IOType(p, B) /\ CorkOnly(o, p) /\ p.corked = s /\ p.cork = c \o frame
      BY <1>1, <1>2 DEF Cork, CorkOnly, IOType
    <2> HIDE DEF p
    <2>3. Len(p.cork) <= CorkSize
      BY <1>1, <1>2, <1>4, <2>2, CorkAssumption
    <2>4. IOSafe(p, B) /\ OnlyOf(o, p, s) /\ Pending(p, s) = x
      BY <1>1, <2>2, <2>3, CorkOnlyKeeps
    <2>5. p.raw[s] = <<>> /\ p.sent = o.sent
      <3>1. o.raw[s] = <<>>
        BY <1>1, <1>4, LengthExact DEF IOSafe
      <3> QED
        BY <2>2, <3>1 DEF CorkOnly
    <2>6. IOInv(p, B)
      BY <1>1, <2>2, <2>4, <2>5 DEF IOInv, CorkOwned
    <2>7. Stream(p, s) = Stream(o, s) \o frame
      <3>1. Stream(p, s) = x \o (c \o frame)
        BY <2>2, <2>4, StreamEnds
      <3>2. Stream(o, s) = x \o c
        <4>1. CASE o.corked = s
          BY <1>1, <4>1, StreamEnds
        <4>2. CASE o.corked = Nil
          <5>1. c = <<>>
            BY <4>2 DEF IOInv, CorkOwned
          <5>2. Stream(o, s) = x
            BY <1>1, <5>1, StreamEnds
          <5>3. x \o <<>> = x
            BY <1>1, ConcatEmptySeq
          <5> QED
            BY <5>1, <5>2, <5>3
        <4> QED
          BY <1>4, <4>1, <4>2
      <3> QED
        BY <1>3, <3>1, <3>2
    <2> QED
      BY <2>1, <2>2, <2>4, <2>5, <2>6, <2>7 DEF Buffered
  <1>5. CASE ~fits /\ o.corked = s
    <2> DEFINE q == AppendRaw(o, s, c \o frame)
               p == [q EXCEPT !.cork = <<>>]
    <2>1. g.io = p /\ g.attribute = "NEEDS_DRAIN"
      BY <1>5 DEF g, GetSendBuffer, IsCorked, CanCork
    <2>2. /\ IOSafe(q, B) /\ OnlyOf(o, q, s) /\ q.corked = s /\ q.sent = o.sent
          /\ Pending(q, s) = x \o (c \o frame)
      <3> DEFINE y == c \o frame
      <3>1. y \in Seq(B) /\ IOSafe(o, B)
        BY <1>1, <1>2
      <3> HIDE DEF y
      <3>2. LET z == AppendRaw(o, s, y)
            IN  /\ IOSafe(z, B) /\ OnlyOf(o, z, s)
                /\ z.corked = o.corked /\ z.sent = o.sent
                /\ Pending(z, s) = Pending(o, s) \o y
        BY <3>1, AppendKeeps, SMTT(60)
      <3> QED
        BY <1>5, <3>2 DEF y
    <2> HIDE DEF q
    <2>3. IOType(p, B) /\ CorkOnly(q, p) /\ p.corked = s /\ p.cork = <<>>
      BY <1>1, <2>2 DEF CorkOnly, IOSafe, IOType
    <2> HIDE DEF p
    <2>4. IOSafe(p, B) /\ OnlyOf(q, p, s) /\ Pending(p, s) = Pending(q, s)
      <3>1. Len(p.cork) <= CorkSize
        BY <1>1, <2>3
      <3> QED
        BY <2>2, <2>3, <3>1, CorkOnlyKeeps
    <2>5. IOInv(p, B)
      BY <2>3, <2>4 DEF IOInv, CorkOwned
    <2>6. Stream(p, s) = Stream(o, s) \o frame
      BY <1>1, <1>3, <1>5, <2>2, <2>3, <2>4, StreamEnds
    <2>7. OnlyOf(o, p, s) /\ p.sent = o.sent
      BY <2>2, <2>3, <2>4 DEF OnlyOf, CorkOnly
    <2> QED
      BY <1>5, <2>1, <2>3, <2>5, <2>6, <2>7 DEF Buffered
  <1>6. CASE ~fits /\ o.corked # s
    <2> DEFINE p == AppendRaw(o, s, frame)
    <2>1. g.io = p /\ g.attribute = "NEEDS_DRAIN"
      BY <1>6 DEF g, GetSendBuffer, IsCorked, CanCork
    <2>2. /\ IOSafe(p, B) /\ OnlyOf(o, p, s) /\ p.corked = o.corked
          /\ p.cork = o.cork /\ p.sent = o.sent
          /\ Pending(p, s) = Pending(o, s) \o frame
      <3>1. IOSafe(o, B)
        BY <1>1
      <3> QED
        BY <3>1, AppendKeeps, SMTT(60)
    <2> HIDE DEF p
    <2>3. CorkOwned(p)
      <3>1. CASE o.corked = Nil \/ o.cork = <<>>
        BY <2>2, <3>1 DEF IOInv, CorkOwned
      <3>2. CASE o.corked # Nil /\ o.cork # <<>>
        <4>1. o.corked \in Sockets \ {s}
          BY <1>1, <1>6, <3>2 DEF IOType
        <4> QED
          BY <2>2, <3>2, <4>1 DEF IOInv, CorkOwned, OnlyOf
      <3> QED
        BY <3>1, <3>2
    <2>4. Stream(p, s) = Stream(o, s) \o frame
      BY <1>1, <1>6, <2>2, StreamEnds
    <2> QED
      BY <1>6, <2>1, <2>2, <2>3, <2>4 DEF Buffered, IOInv
  <1> QED
    BY <1>4, <1>5, <1>6

-----------------------------------------------------------------------------
(* The calls without bytes of their own, which only move the stream on.    *)

(* p is what is left when a call without bytes comes back.                 *)
Drained(o, B, s, r) ==
    /\ IOInv(r.io, B)
    /\ OnlyOf(o, r.io, s)
    /\ o.corked # s => r.io.cork = o.cork
    /\ s \notin o.closed =>
        /\ Stream(r.io, s) = Stream(o, s)
        /\ ~r.failed => r.io.raw[s] = <<>>

(* A write() without bytes drains: no byte is new.                         *)
LEMMA CalledDrains ==
    ASSUME NEW B, NEW o, IOInv(o, B), NEW s \in Sockets, NEW room \in Nat,
           NEW r, Called(o, B, s, <<>>, room, r)
    PROVE  Drained(o, B, s, r)
  <1>1. Len(<<>>) = 0
    BY EmptySeq
  <1>2. r.written = 0
    BY <1>1 DEF Called
  <1>3. Stream(o, s) \in Seq(B)
    BY PendingType DEF IOInv
  <1>4. SubSeq(<<>>, 1, 0) = <<>> /\ Stream(o, s) \o <<>> = Stream(o, s)
    BY <1>3, SubSeqEmpty, ConcatEmptySeq
  <1> QED
    BY <1>2, <1>4 DEF Called, Drained

(* write() of nothing leaves the cork where it is.                         *)
LEMMA DrainKeeps ==
    ASSUME NEW B, NEW o, IOInv(o, B), NEW s \in Sockets, NEW room \in Nat
    PROVE  LET r == Write(o, s, <<>>, room, FALSE)
           IN  Drained(o, B, s, r) /\ r.io.corked = o.corked
  <1> DEFINE r == Write(o, s, <<>>, room, FALSE)
  <1>1. <<>> \in Seq(B) /\ FALSE \in BOOLEAN
    BY EmptySeq
  <1>2. Written(o, B, s, <<>>, room, r)
    BY <1>1, WriteKeeps
  <1> HIDE DEF r
  <1>3. Drained(o, B, s, r)
    BY <1>2, CalledDrains DEF Written
  <1> QED
    BY <1>2, <1>3 DEF r, Written

(* uncork() frees the cork if it is the socket's, and does nothing if not. *)
Uncorked(o, B, s, r) ==
    /\ o.corked = s => Drained(o, B, s, r) /\ r.io.corked = Nil
    /\ o.corked # s => r.io = o /\ ~r.failed

(* uncork() without bytes drains and gives the cork buffer up.             *)
LEMMA UncorkDrains ==
    ASSUME NEW B, NEW o, IOInv(o, B), NEW s \in Sockets, NEW room \in Nat
    PROVE  Uncorked(o, B, s, Uncork(o, s, <<>>, room, FALSE))
  <1> DEFINE r == Uncork(o, s, <<>>, room, FALSE)
  <1>1. <<>> \in Seq(B) /\ FALSE \in BOOLEAN
    BY EmptySeq
  <1>2. ASSUME o.corked = s PROVE Drained(o, B, s, r) /\ r.io.corked = Nil
    <2>1. CorkFreed(o, B, s, <<>>, room, r)
      BY <1>1, <1>2, UncorkKeeps
    <2> HIDE DEF r
    <2> QED
      BY <2>1, CalledDrains DEF CorkFreed
  <1>3. ASSUME o.corked # s PROVE r.io = o /\ ~r.failed
    BY <1>3 DEF Uncork, IsCorked, Result
  <1> QED
    BY <1>2, <1>3 DEF Uncorked

-----------------------------------------------------------------------------
(* A call that may not give up fails only by leaving backpressure behind,  *)
(* so that a writable event will follow.                                   *)

(* What is appended to the backpressure is still there.                    *)
LEMMA AppendLeaves ==
    ASSUME NEW B, NEW o, IOType(o, B), NEW s \in Sockets, NEW src \in Seq(B),
           o.raw[s] # <<>> \/ src # <<>>
    PROVE  AppendRaw(o, s, src).raw[s] # <<>>
  <1> DEFINE x == o.raw[s]
  <1>1. x \in Seq(B)
    BY Components
  <1>2. AppendRaw(o, s, src).raw[s] = x \o src
    BY DEF AppendRaw, IOType
  <1> HIDE DEF x
  <1>3. /\ Len(x) \in Nat /\ Len(src) \in Nat
        /\ Len(x) = 0 <=> x = <<>>
        /\ Len(src) = 0 <=> src = <<>>
    BY <1>1, EmptySeq, LenProperties
  <1>4. Len(x \o src) = Len(x) + Len(src)
    BY <1>1, ConcatProperties
  <1>5. Len(x) + Len(src) # 0
    BY <1>3 DEF x
  <1>6. Len(<<>>) = 0
    BY EmptySeq
  <1> QED
    BY <1>2, <1>4, <1>5, <1>6

(* write() says it failed only if it left something in the backpressure.   *)
LEMMA WriteThroughFails ==
    ASSUME NEW B, NEW o, IOType(o, B), NEW s \in Sockets, NEW src \in Seq(B),
           NEW room \in Nat, WriteThrough(o, s, src, room, FALSE).failed
    PROVE  WriteThrough(o, s, src, room, FALSE).io.raw[s] # <<>>
  <1> DEFINE n == Takes(o, s, room, Len(src))
             first == SubSeq(src, 1, n)
             rest == SubSeq(src, n + 1, Len(src))
             after == KernelWrite(o, s, first)
             r == WriteThrough(o, s, src, room, FALSE)
  <1>1. Len(src) \in Nat /\ n \in 0..Len(src)
    BY TakesBound
  <1>2. n # Len(src) /\ r.io = AppendRaw(after, s, rest)
    BY DEF WriteThrough, Result
  <1> HIDE DEF n
  <1>3. first \in Seq(B) /\ rest \in Seq(B) /\ Len(rest) = Len(src) - n
    BY <1>1, Cut
  <1>4. rest # <<>>
    <2>1. n # Len(src)
      BY <1>2
    <2>2. Len(src) - n # 0
      BY <1>1, <2>1
    <2>3. Len(<<>>) = 0
      BY EmptySeq
    <2> HIDE DEF rest
    <2> QED
      BY <1>3, <2>2, <2>3
  <1> HIDE DEF first, rest
  <1>5. IOType(after, B)
    <2>1. o.sent[s] \o first \in Seq(B)
      <3>1. o.sent[s] \in Seq(B)
        BY Components
      <3> QED
        BY <1>3, <3>1, ConcatProperties
    <2> QED
      BY <2>1 DEF IOType, KernelWrite
  <1> HIDE DEF after
  <1> QED
    BY <1>2, <1>3, <1>4, <1>5, AppendLeaves DEF r

(* The same of a socket with backpressure, or not corked.                  *)
LEMMA WriteUncorkedFails ==
    ASSUME NEW B, NEW o, IOSafe(o, B), NEW s \in Sockets, NEW src \in Seq(B),
           NEW room \in Nat, WriteUncorked(o, s, src, room, FALSE).failed
    PROVE  WriteUncorked(o, s, src, room, FALSE).io.raw[s] # <<>>
  <1> DEFINE length == Length(o, s)
             n == Takes(o, s, room, length)
             p == Flushed(o, s, n)
             r == WriteUncorked(o, s, src, room, FALSE)
  <1>1. IOType(o, B) /\ Exact(o, s)
    BY DEF IOSafe
  <1>2. length \in Nat /\ (length = 0 <=> o.raw[s] = <<>>)
    BY <1>1, LengthExact, Components
  <1>3. n \in 0..length /\ n <= room
    BY <1>2, TakesBound
  <1>4. IOSafe(p, B) /\ (p.raw[s] = <<>> <=> n = length)
    <2> HIDE DEF n
    <2> QED
      BY <1>3, FlushKeeps
  <1>5. r.failed
    OBVIOUS
  <1> HIDE DEF r, p, n, length
  <1> SUFFICES r.io.raw[s] # <<>>
    BY DEF r
  <1>6. s \notin o.closed
    BY <1>5 DEF r, WriteUncorked, FlushFirst, Result
  <1>7. CASE length = 0
    <2>1. r = WriteThrough(o, s, src, room, FALSE)
      BY <1>6, <1>7 DEF WriteUncorked, FlushFirst, r, length
    <2> QED
      BY <1>1, <1>5, <2>1, WriteThroughFails
  <1>8. CASE length # 0 /\ n = length
    <2>1. r = WriteThrough(p, s, src, room - n, FALSE)
      <3>1. ~(n < length)
        BY <1>2, <1>8
      <3> QED
        BY <1>6, <1>8, <3>1 DEF WriteUncorked, FlushFirst, Flushed, r, p, n, length
    <2>2. IOType(p, B) /\ room - n \in Nat
      BY <1>2, <1>3, <1>4 DEF IOSafe
    <2> QED
      BY <1>5, <2>1, <2>2, WriteThroughFails
  <1>9. CASE length # 0 /\ n # length
    <2>1. r.io = AppendRaw(p, s, src)
      <3>1. n < length
        BY <1>2, <1>3, <1>9
      <3> QED
        BY <1>6, <1>9, <3>1
        DEF WriteUncorked, FlushFirst, Flushed, Result, r, p, n, length
    <2>2. IOType(p, B) /\ p.raw[s] # <<>>
      BY <1>4, <1>9 DEF IOSafe
    <2> QED
      BY <2>1, <2>2, AppendLeaves
  <1> QED
    BY <1>7, <1>8, <1>9

(* The same of any write() without bytes.                                  *)
LEMMA DrainFails ==
    ASSUME NEW B, NEW o, IOSafe(o, B), NEW s \in Sockets, NEW room \in Nat,
           Write(o, s, <<>>, room, FALSE).failed
    PROVE  Write(o, s, <<>>, room, FALSE).io.raw[s] # <<>>
  <1> DEFINE r == Write(o, s, <<>>, room, FALSE)
             w == WriteUncorked(o, s, <<>>, room, FALSE)
  <1>1. r = w
    BY DEF Write, WriteUncorked, FlushFirst, WriteThrough, Result
  <1>2. <<>> \in Seq(B)
    BY EmptySeq
  <1>3. r.failed
    OBVIOUS
  <1> HIDE DEF r
  <1> QED
    BY <1>1, <1>2, <1>3, WriteUncorkedFails DEF r

(* The same of uncork().                                                   *)
LEMMA UncorkFails ==
    ASSUME NEW B, NEW o, IOInv(o, B), NEW s \in Sockets, NEW room \in Nat,
           s \notin o.closed, Uncork(o, s, <<>>, room, FALSE).failed
    PROVE  Uncork(o, s, <<>>, room, FALSE).io.raw[s] # <<>>
  <1> DEFINE free == [o EXCEPT !.corked = Nil]
             r == Uncork(o, s, <<>>, room, FALSE)
             first == WriteUncorked(free, s, o.cork, room, FALSE)
             empty == [first.io EXCEPT !.cork = <<>>]
             used == Len(empty.sent[s]) - Len(o.sent[s])
             second == WriteUncorked(empty, s, <<>>, room - used, FALSE)
             drain == WriteUncorked(free, s, <<>>, room, FALSE)
  <1>1. /\ IOSafe(o, B) /\ o.cork \in Seq(B) /\ <<>> \in Seq(B)
        /\ FALSE \in BOOLEAN
    BY Components, EmptySeq DEF IOInv, IOSafe
  <1>2. IOSafe(free, B) /\ free.closed = o.closed /\ free.sent = o.sent
    BY <1>1 DEF IOSafe, IOType, Exact
  <1>3. o.corked = s
    BY DEF Uncork, IsCorked, Result
  <1>4. o.cork = <<>> => r = drain
    BY <1>3 DEF Uncork, IsCorked
  <1>5. o.cork # <<>> /\ first.failed => r.io = empty
    BY <1>3 DEF Uncork, IsCorked, Result
  <1>6. o.cork # <<>> /\ ~first.failed => r = second
    BY <1>3 DEF Uncork, IsCorked
  <1> HIDE DEF free
  <1>7. Wrote(free, B, s, o.cork, room, FALSE, first)
    BY <1>1, <1>2, WriteUncorkedKeeps
  <1>8. first.failed => first.io.raw[s] # <<>>
    BY <1>1, <1>2, WriteUncorkedFails
  <1>9. drain.failed => drain.io.raw[s] # <<>>
    BY <1>1, <1>2, WriteUncorkedFails
  <1>10. r.failed
    OBVIOUS
  <1> HIDE DEF first
  <1>11. ~first.failed => first.io.raw[s] = <<>>
    BY <1>2, <1>7 DEF Wrote
  <1>12. empty.raw = first.io.raw /\ empty.closed = first.io.closed
    BY <1>7 DEF Wrote, IOSafe, IOType
  <1>13. empty.raw[s] = <<>> /\ s \notin empty.closed => ~second.failed
    <2>1. Len(<<>>) = 0
      BY EmptySeq
    <2>2. empty.raw[s] = <<>> => Length(empty, s) = 0
      <3>1. IOType(first.io, B) /\ Exact(first.io, s)
        BY <1>7 DEF Wrote, IOSafe
      <3>2. first.io.raw[s] = <<>> => first.io.removed[s] = 0
        BY <3>1, LengthExact
      <3>3. empty.removed = first.io.removed
        BY <3>1 DEF IOType
      <3> QED
        BY <1>12, <2>1, <3>2, <3>3 DEF Length
    <2> HIDE DEF empty, used
    <2> QED
      BY <2>2 DEF WriteUncorked, FlushFirst, WriteThrough, Result
  <1> HIDE DEF r, second, drain, empty
  <1>14. s \notin empty.closed
    BY <1>2, <1>7, <1>12 DEF Wrote, OnlyOf
  <1>15. r.io.raw[s] # <<>>
    BY <1>4, <1>5, <1>6, <1>8, <1>9, <1>10, <1>11, <1>12, <1>13, <1>14
  <1> QED
    BY <1>15 DEF r


(* A write that has to go through and fits is counted as all of its bytes: *)
(* those of a full cork buffer may be left alone by uncork().              *)
LEMMA FitsWritten ==
    ASSUME NEW B, NEW o, IOInv(o, B), NEW s \in Sockets, NEW src \in Seq(B),
           NEW room \in Nat, o.corked = s => Len(o.cork) + Len(src) <= CorkSize
    PROVE  LET r == Write(o, s, src, room, FALSE)
           IN  /\ r.written = Len(src)
               /\ o.corked = s => Len(r.io.cork) <= Len(o.cork) + Len(src)
  <1> DEFINE length == Length(o, s)
             n == Takes(o, s, room, length)
             after == KernelWrite(o, s, SubSeq(Data(o, s), 1, n))
             clear == Clear(after, s)
             kept == AppendRaw(Erase(after, s, n), s, src)
             r == Write(o, s, src, room, FALSE)
             Filled(p) == [p EXCEPT !.cork = @ \o src]
  <1>1. /\ IOSafe(o, B) /\ IOType(o, B) /\ Len(src) \in Nat /\ Len(o.cork) \in Nat
        /\ o.cork \in Seq(B) /\ FALSE \in BOOLEAN
    BY Components DEF IOInv, IOSafe
  <1>2. CASE o.corked # s
    <2> DEFINE w == WriteUncorked(o, s, src, room, FALSE)
    <2>1. r = w
      BY <1>2 DEF Write, IsCorked
    <2>2. Wrote(o, B, s, src, room, FALSE, w)
      BY <1>1, WriteUncorkedKeeps
    <2> HIDE DEF w
    <2>3. r.written = Len(src)
      BY <2>1, <2>2 DEF Wrote
    <2> HIDE DEF r
    <2> QED
      BY <1>2, <2>3 DEF r
  <1>3. CASE o.corked = s
    <2>1. clear.cork = o.cork /\ kept.cork = o.cork
      BY <1>1 DEF Clear, Erase, AppendRaw, KernelWrite, IOType
    <2>2. Filled(o).cork = o.cork \o src /\ Filled(clear).cork = o.cork \o src
      BY <1>1, <2>1 DEF Clear, KernelWrite, IOType
    <2>3. Len(o.cork \o src) = Len(o.cork) + Len(src)
      BY <1>1, ConcatProperties
    <2>4. /\ CorkSize - Len(o.cork) >= Len(src)
          /\ CorkSize - Len(clear.cork) >= Len(src)
      BY <1>1, <1>3, <2>1, CorkAssumption
    <2>5. src = <<>> => Len(src) = 0
      BY EmptySeq
    <2>6. r \in {Result(o, Len(src), FALSE), Result(Filled(o), Len(src), FALSE),
                 Result(clear, Len(src), FALSE), Result(Filled(clear), Len(src), FALSE),
                 Result(kept, Len(src), TRUE)}
      <3> HIDE DEF length, n
      <3> QED
        BY <1>3, <2>4, <2>5
           DEF Write, IsCorked, FlushFirst, clear, kept, after, n, length
    <2> HIDE DEF r, clear, kept, Filled
    <2>7. r.written = Len(src) /\ r.io.cork \in {o.cork, o.cork \o src}
      BY <2>1, <2>2, <2>6 DEF Result
    <2>8. r.written = Len(src) /\ Len(r.io.cork) <= Len(o.cork) + Len(src)
      BY <1>1, <2>3, <2>7
    <2> QED
      BY <2>8 DEF r
  <1> QED
    BY <1>2, <1>3

(* A closed socket gets nothing more.                                      *)
LEMMA ClosedIgnored ==
    ASSUME NEW B, NEW o, IOType(o, B), NEW s \in o.closed, NEW room
    PROVE  LET r == Uncork(o, s, <<>>, room, FALSE)
           IN  r.io.sent = o.sent /\ r.io.closed = o.closed
  <1> DEFINE free == [o EXCEPT !.corked = Nil]
             empty == [free EXCEPT !.cork = <<>>]
             r == Uncork(o, s, <<>>, room, FALSE)
  <1>1. \A src, left : WriteUncorked(free, s, src, left, FALSE) = Result(free, Len(src), FALSE)
    BY DEF WriteUncorked, FlushFirst, IOType
  <1>2. \A src, left : WriteUncorked(empty, s, src, left, FALSE) = Result(empty, Len(src), FALSE)
    BY DEF WriteUncorked, FlushFirst, IOType
  <1>3. /\ free.sent = o.sent /\ free.closed = o.closed
        /\ empty.sent = o.sent /\ empty.closed = o.closed
    BY DEF IOType
  <1> HIDE DEF free, empty
  <1>4. \A src : Result(free, Len(src), FALSE).io = free
                /\ ~Result(free, Len(src), FALSE).failed
    BY DEF Result
  <1>5. r \in {Result(o, 0, FALSE), Result(free, Len(<<>>), FALSE),
               Result(empty, Len(<<>>), FALSE)}
    <2>1. CASE ~IsCorked(o, s)
      BY <2>1 DEF Uncork
    <2>2. CASE IsCorked(o, s) /\ o.cork = <<>>
      BY <1>1, <2>2 DEF Uncork, free
    <2>3. CASE IsCorked(o, s) /\ o.cork # <<>>
      <3> DEFINE first == WriteUncorked(free, s, o.cork, room, FALSE)
                 rest == [first.io EXCEPT !.cork = <<>>]
                 left == room - (Len(rest.sent[s]) - Len(o.sent[s]))
      <3>1. r = IF first.failed THEN Result(rest, 0, TRUE)
                ELSE WriteUncorked(rest, s, <<>>, left, FALSE)
        BY <2>3 DEF Uncork, free
      <3>2. first = Result(free, Len(o.cork), FALSE)
        BY <1>1
      <3> HIDE DEF left, first
      <3>3. ~first.failed /\ rest = empty
        BY <1>4, <3>2 DEF empty
      <3> HIDE DEF rest
      <3> QED
        BY <1>2, <3>1, <3>3
    <2> QED
      BY <2>1, <2>2, <2>3
  <1> HIDE DEF r
  <1>6. r.io.sent = o.sent /\ r.io.closed = o.closed
    BY <1>3, <1>5 DEF Result
  <1> QED
    BY <1>6 DEF r
=============================================================================
