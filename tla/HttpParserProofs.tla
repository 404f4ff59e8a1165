--------------------------- MODULE HttpParserProofs ---------------------------
(***************************************************************************)
(* Proofs about HttpParser, for every stream of a peer and however its     *)
(* bytes are cut into pieces: the fallback holds an incomplete head and    *)
(* nothing else, and every call of consumePostPadded returns.              *)
(***************************************************************************)
EXTENDS HttpParser, SequenceTheorems, WellFoundedInduction, TLAPS

-----------------------------------------------------------------------------
(* Numbers.                                                                *)

(* A set of numbers that has a member has a least one.                     *)
LEMMA Least ==
    ASSUME NEW T \in SUBSET Nat, T # {}
    PROVE  \E m \in T : \A k \in T : m <= k
<1>1. IsWellFoundedOn(OpToRel(<, Nat), Nat)
  BY NatLessThanWellFounded
<1>2. PICK m \in T : \A k \in T : ~(<<k, m>> \in OpToRel(<, Nat))
  BY <1>1, WFMin
<1>3. ASSUME NEW k \in T PROVE m <= k
  <2>1. k < m => <<k, m>> \in OpToRel(<, Nat)
    BY DEF OpToRel
  <2>2. ~(k < m) /\ k \in Nat /\ m \in Nat
    BY <1>2, <2>1
  <2> QED
    BY <2>2
<1> QED
  BY <1>3

(* A set with 0 and the successors of its members below n has all to n.    *)
LEMMA InductTo ==
    ASSUME NEW n \in Nat, NEW S, 0 \in S, \A i \in 0..n : i < n /\ i \in S => i + 1 \in S
    PROVE  \A i \in 0..n : i \in S
<1> DEFINE T == {i \in 0..n : i \notin S}
<1> SUFFICES ASSUME T # {} PROVE FALSE
  OBVIOUS
<1>1. T \in SUBSET Nat
  OBVIOUS
<1> HIDE DEF T
<1>2. PICK m \in T : \A k \in T : m <= k
  BY <1>1, Least
<1>3. m \in 0..n /\ m \notin S
  BY DEF T
<1>4. m - 1 \in 0..n /\ m - 1 < n /\ ~(m <= m - 1) /\ m - 1 + 1 = m
  BY <1>3
<1>5. m - 1 \in S
  BY <1>2, <1>4 DEF T
<1> QED
  BY <1>3, <1>4, <1>5

(* The least of some numbers is one of them.                               *)
LEMMA MinIs ==
    ASSUME NEW T \in SUBSET Nat, T # {}
    PROVE  Min(T) \in T /\ \A k \in T : Min(T) <= k
BY Least DEF Min

-----------------------------------------------------------------------------
(* Scans.                                                                  *)

(* The bytes of a wire, and those of a fence.                              *)
Byte == STRING \union {"CR", "a", "LF"}
Bytes(d) == d \in Seq(Byte)

(* What the scans have in common: they end at the first place of a set.    *)
First(T, p, n) == Min({q \in p..n : q \in T} \union {n + 1})

(* That is the first one, or behind the last.                              *)
LEMMA FirstIs ==
    ASSUME NEW T, NEW n \in Nat, NEW p \in Nat, p <= n + 1
    PROVE  LET q == First(T, p, n)
           IN  /\ q \in Nat /\ p <= q /\ q <= n + 1
               /\ q <= n => q \in T
               /\ \A j \in p..q - 1 : j \notin T
<1> DEFINE U == {q \in p..n : q \in T} \union {n + 1}
           q == Min(U)
<1>1. U \in SUBSET Nat /\ U # {}
  OBVIOUS
<1> HIDE DEF U
<1>2. q \in U /\ \A k \in U : q <= k
  BY <1>1, MinIs
<1> HIDE DEF q
<1>3. /\ q \in Nat /\ p <= q /\ q <= n + 1
      /\ q <= n => q \in T
  BY <1>2 DEF U
<1>4. ASSUME NEW j \in p..q - 1, j \in T PROVE FALSE
  <2>1. j \in p..n /\ ~(q <= j)
    BY <1>3
  <2>2. j \in U
    BY <1>4, <2>1 DEF U
  <2> QED
    BY <1>2, <2>1, <2>2
<1>5. First(T, p, n) = q
  BY DEF First, q, U
<1> QED
  BY <1>3, <1>4, <1>5

(* And the same for sets that agree as far as that.                        *)
LEMMA FirstSame ==
    ASSUME NEW T, NEW U, NEW k \in Nat, NEW m \in Nat, NEW n \in Nat, n <= k, n <= m,
           NEW p \in Nat, p <= n, \A j \in p..n : j \in T <=> j \in U,
           First(T, p, k) <= n
    PROVE  First(U, p, m) = First(T, p, k)
<1> DEFINE q == First(T, p, k)
           r == First(U, p, m)
<1>1. /\ q \in Nat /\ p <= q /\ q <= n
      /\ q \in T
      /\ \A j \in p..q - 1 : j \notin T
  BY FirstIs
<1>2. /\ r \in Nat /\ p <= r
      /\ r <= m => r \in U
      /\ \A j \in p..r - 1 : j \notin U
  BY FirstIs
<1> HIDE DEF q, r
<1>3. q \in p..n /\ q \in U
  BY <1>1
<1>4. r <= q
  BY <1>1, <1>2, <1>3
<1>5. r \in p..n /\ r \in U
  BY <1>1, <1>2, <1>4
<1>6. r = q
  BY <1>1, <1>2, <1>4, <1>5
<1> QED
  BY <1>6 DEF q, r

Stops(buf, stops) == {q \in Nat : buf[q] \in stops}
Passes(buf, skips) == {q \in Nat : buf[q] \notin skips}

(* So the scans end at the first byte that stops them, or behind the last. *)
LEMMA ScanIs ==
    ASSUME NEW buf, Bytes(buf), NEW p \in Nat, p <= Len(buf) + 1, NEW set
    PROVE  /\ ScanTo(buf, p, set) = First(Stops(buf, set), p, Len(buf))
           /\ ScanPast(buf, p, set) = First(Passes(buf, set), p, Len(buf))
           /\ LET q == ScanTo(buf, p, set)
              IN  /\ q \in Nat /\ p <= q /\ q <= Len(buf) + 1
                  /\ q <= Len(buf) => buf[q] \in set
                  /\ \A j \in p..q - 1 : buf[j] \notin set
           /\ LET q == ScanPast(buf, p, set)
              IN  /\ q \in Nat /\ p <= q /\ q <= Len(buf) + 1
                  /\ q <= Len(buf) => buf[q] \notin set
                  /\ \A j \in p..q - 1 : buf[j] \in set
<1>1. Len(buf) \in Nat
  BY LenProperties DEF Bytes
<1>2. /\ ScanTo(buf, p, set) = First(Stops(buf, set), p, Len(buf))
      /\ ScanPast(buf, p, set) = First(Passes(buf, set), p, Len(buf))
  <2>1. /\ {q \in p..Len(buf) : buf[q] \in set}
              = {q \in p..Len(buf) : q \in Stops(buf, set)}
        /\ {q \in p..Len(buf) : buf[q] \notin set}
              = {q \in p..Len(buf) : q \in Passes(buf, set)}
    BY <1>1 DEF Stops, Passes
  <2> QED
    BY <2>1 DEF ScanTo, ScanPast, First
<1> DEFINE q == First(Stops(buf, set), p, Len(buf))
           r == First(Passes(buf, set), p, Len(buf))
<1>3. /\ q \in Nat /\ p <= q /\ q <= Len(buf) + 1
      /\ q <= Len(buf) => q \in Stops(buf, set)
      /\ \A j \in p..q - 1 : j \notin Stops(buf, set)
  BY <1>1, FirstIs
<1>4. /\ r \in Nat /\ p <= r /\ r <= Len(buf) + 1
      /\ r <= Len(buf) => r \in Passes(buf, set)
      /\ \A j \in p..r - 1 : j \notin Passes(buf, set)
  BY <1>1, FirstIs
<1> HIDE DEF q, r
<1>5. /\ q <= Len(buf) => buf[q] \in set
      /\ \A j \in p..q - 1 : buf[j] \notin set
      /\ r <= Len(buf) => buf[r] \notin set
      /\ \A j \in p..r - 1 : buf[j] \in set
  BY <1>3, <1>4 DEF Stops, Passes
<1> QED
  BY <1>2, <1>3, <1>4, <1>5 DEF q, r

(* A scan that ends at a byte is the same in a buffer that is the same as  *)
(* far as that byte.                                                       *)
LEMMA ScanSame ==
    ASSUME NEW a, Bytes(a), NEW b, Bytes(b), NEW set, NEW n \in Nat,
           n <= Len(a), n <= Len(b), \A j \in 1..n : a[j] = b[j],
           NEW p \in Nat \ {0}, p <= n
    PROVE  /\ ScanTo(a, p, set) <= n => ScanTo(b, p, set) = ScanTo(a, p, set)
           /\ ScanPast(a, p, set) <= n => ScanPast(b, p, set) = ScanPast(a, p, set)
<1>1. /\ Len(a) \in Nat /\ Len(b) \in Nat /\ p <= Len(a) + 1 /\ p <= Len(b) + 1
  BY LenProperties DEF Bytes
<1>2. \A j \in p..n : /\ j \in Stops(a, set) <=> j \in Stops(b, set)
                      /\ j \in Passes(a, set) <=> j \in Passes(b, set)
  BY DEF Stops, Passes
<1>3. /\ ScanTo(a, p, set) = First(Stops(a, set), p, Len(a))
      /\ ScanTo(b, p, set) = First(Stops(b, set), p, Len(b))
      /\ ScanPast(a, p, set) = First(Passes(a, set), p, Len(a))
      /\ ScanPast(b, p, set) = First(Passes(b, set), p, Len(b))
  BY <1>1, ScanIs
<1>4. ASSUME ScanTo(a, p, set) <= n PROVE ScanTo(b, p, set) = ScanTo(a, p, set)
  BY <1>1, <1>2, <1>3, <1>4, FirstSame
<1>5. ASSUME ScanPast(a, p, set) <= n PROVE ScanPast(b, p, set) = ScanPast(a, p, set)
  BY <1>1, <1>2, <1>3, <1>5, FirstSame
<1> QED
  BY <1>4, <1>5

-----------------------------------------------------------------------------
(* The numbers of a head and of a chunk.                                   *)

(* A byte has a value as a digit.                                          *)
LEMMA HexValueType == \A b : HexValue(b) \in Nat
<1> SUFFICES ASSUME NEW b PROVE HexValue(b) \in Nat
  OBVIOUS
<1>1. CASE b \in Range(HexDigits)
  <2>1. Len(HexDigits) = 16 /\ DOMAIN HexDigits = 1..16
    BY DEF HexDigits
  <2>2. PICK i \in 1..16 : HexDigits[i] = b
    BY <1>1, <2>1 DEF Range
  <2>3. i - 1 \in 0..15 /\ i - 1 + 1 = i
    OBVIOUS
  <2>4. \E v \in 0..15 : HexDigits[v + 1] = b
    BY <2>2, <2>3
  <2> QED
    BY <1>1, <2>4 DEF HexValue
<1>2. CASE b \notin Range(HexDigits)
  BY <1>2 DEF HexValue
<1> QED
  BY <1>1, <1>2

(* And so has a decimal digit.                                             *)
LEMMA DigitsType == \A b \in DOMAIN Digits : Digits[b] \in Nat
<1> DEFINE tens == SubSeq(HexDigits, 1, 10)
<1>1. /\ DOMAIN tens = 1..10 /\ \A i \in 1..10 : tens[i] = HexDigits[i]
  BY DEF HexDigits
<1> HIDE DEF tens
<1> SUFFICES ASSUME NEW b \in Range(tens) PROVE Digits[b] \in Nat
  BY DEF Digits, tens
<1>2. PICK i \in 1..10 : HexDigits[i] = b
  BY <1>1 DEF Range
<1>3. i - 1 \in 0..9 /\ i - 1 + 1 = i
  OBVIOUS
<1>4. \E v \in 0..9 : HexDigits[v + 1] = b
  BY <1>2, <1>3
<1> DEFINE d == CHOOSE v \in 0..9 : HexDigits[v + 1] = b
<1>5. Digits[b] = d
  BY DEF Digits, tens
<1>6. d \in 0..9
  BY <1>4
<1> HIDE DEF d
<1> QED
  BY <1>5, <1>6

IsDecimal(f, v, m) ==
    f = [i \in 0..m |-> IF i = 0 THEN 0 ELSE f[i - 1] * 10 + Digits[v[i]]]

(* A function that adds up digits exists.                                  *)
LEMMA DecimalIs ==
    ASSUME NEW v, NEW n \in Nat
    PROVE  \E f : IsDecimal(f, v, n)
<1> DEFINE S == {m \in Nat : \E f : IsDecimal(f, v, m)}
<1>1. 0 \in S
  <2> DEFINE f == [i \in 0..0 |-> 0]
  <2>1. IsDecimal(f, v, 0)
    BY DEF IsDecimal
  <2> QED
    BY <2>1
<1>2. ASSUME NEW m \in S PROVE m + 1 \in S
  <2>1. PICK f : IsDecimal(f, v, m)
    OBVIOUS
  <2> DEFINE g == [i \in 0..(m + 1) |-> IF i = m + 1 THEN f[m] * 10 + Digits[v[m + 1]]
                                         ELSE f[i]]
  <2>2. \A i \in 0..m : f[i] = IF i = 0 THEN 0 ELSE f[i - 1] * 10 + Digits[v[i]]
    BY <2>1 DEF IsDecimal
  <2>3. \A i \in 0..m : g[i] = f[i]
    OBVIOUS
  <2>4. g[m + 1] = f[m] * 10 + Digits[v[m + 1]] /\ g = [i \in 0..(m + 1) |-> g[i]]
    OBVIOUS
  <2> HIDE DEF g
  <2>5. ASSUME NEW i \in 0..(m + 1)
        PROVE  g[i] = IF i = 0 THEN 0 ELSE g[i - 1] * 10 + Digits[v[i]]
    <3>1. CASE i = m + 1
      <4>1. i - 1 = m /\ m \in 0..m /\ i # 0
        BY <3>1
      <4> QED
        BY <2>3, <2>4, <3>1, <4>1
    <3>2. CASE i # m + 1
      <4>1. i \in 0..m /\ (i # 0 => i - 1 \in 0..m)
        BY <3>2
      <4> QED
        BY <2>2, <2>3, <4>1
    <3> QED
      BY <3>1, <3>2
  <2>6. IsDecimal(g, v, m + 1)
    BY <2>4, <2>5 DEF IsDecimal
  <2> QED
    BY <2>6
<1> HIDE DEF S
<1>3. n \in S
  BY <1>1, <1>2, InductTo
<1> QED
  BY <1>3 DEF S

(* The value of a content-length is a number.                              *)
LEMMA UnsignedType ==
    ASSUME NEW v
    PROVE  ToUnsignedInteger(v) \in Int
<1>1. CASE v \notin BoundedSeq(DOMAIN Digits, MaxDigits)
  BY <1>1 DEF ToUnsignedInteger
<1>2. CASE v \in BoundedSeq(DOMAIN Digits, MaxDigits)
  <2> DEFINE f == CHOOSE g : IsDecimal(g, v, MaxDigits)
  <2>1. IsDecimal(f, v, MaxDigits) /\ MaxDigits \in Nat
    BY DecimalIs, ParserAssumption
  <2>2. ToUnsignedInteger(v) = f[Len(v)]
    BY <1>2 DEF ToUnsignedInteger, IsDecimal
  <2> HIDE DEF f
  <2>3. PICK m \in 0..MaxDigits : v \in [1..m -> DOMAIN Digits]
    BY <1>2, <2>1 DEF BoundedSeq, SeqOf
  <2>4. Len(v) = m
    BY <2>3
  <2> DEFINE S == {i \in 0..m : f[i] \in Int}
  <2>5. \A i \in 0..MaxDigits : f[i] = IF i = 0 THEN 0 ELSE f[i - 1] * 10 + Digits[v[i]]
    BY <2>1 DEF IsDecimal
  <2>6. 0 \in S
    <3>1. 0 \in 0..m /\ 0 \in 0..MaxDigits
      BY <2>1
    <3>2. f[0] = 0
      BY <2>5, <3>1
    <3> QED
      BY <3>1, <3>2
  <2>7. ASSUME NEW i \in 0..m, i < m, i \in S PROVE i + 1 \in S
    <3>1. i + 1 \in 1..m /\ i + 1 \in 0..MaxDigits /\ i + 1 - 1 = i
      BY <2>1, <2>7
    <3>2. Digits[v[i + 1]] \in Nat
      BY <2>3, <3>1, DigitsType
    <3>3. f[i + 1] = f[i] * 10 + Digits[v[i + 1]]
      BY <2>5, <3>1
    <3> QED
      BY <2>7, <3>1, <3>2, <3>3
  <2> HIDE DEF S
  <2>8. m \in S
    BY <2>6, <2>7, InductTo
  <2> QED
    BY <2>2, <2>4, <2>8 DEF S
<1> QED
  BY <1>1, <1>2
IsHex(f, size, ds, m) ==
    f = [i \in 0..m |-> IF i = 0 THEN size ELSE HexStep(f[i - 1], ds[i])]

(* A function that takes hexadecimal digits up exists.                     *)
LEMMA HexIs ==
    ASSUME NEW size, NEW ds, NEW n \in Nat
    PROVE  \E f : IsHex(f, size, ds, n)
<1> DEFINE S == {m \in Nat : \E f : IsHex(f, size, ds, m)}
<1>1. 0 \in S
  <2> DEFINE f == [i \in 0..0 |-> size]
  <2>1. IsHex(f, size, ds, 0)
    BY DEF IsHex
  <2> QED
    BY <2>1
<1>2. ASSUME NEW m \in S PROVE m + 1 \in S
  <2>1. PICK f : IsHex(f, size, ds, m)
    OBVIOUS
  <2> DEFINE g == [i \in 0..(m + 1) |-> IF i = m + 1 THEN HexStep(f[m], ds[m + 1])
                                         ELSE f[i]]
  <2>2. \A i \in 0..m : f[i] = IF i = 0 THEN size ELSE HexStep(f[i - 1], ds[i])
    BY <2>1 DEF IsHex
  <2>3. \A i \in 0..m : g[i] = f[i]
    OBVIOUS
  <2>4. g[m + 1] = HexStep(f[m], ds[m + 1]) /\ g = [i \in 0..(m + 1) |-> g[i]]
    OBVIOUS
  <2> HIDE DEF g
  <2>5. ASSUME NEW i \in 0..(m + 1)
        PROVE  g[i] = IF i = 0 THEN size ELSE HexStep(g[i - 1], ds[i])
    <3>1. CASE i = m + 1
      <4>1. i - 1 = m /\ m \in 0..m /\ i # 0
        BY <3>1
      <4> QED
        BY <2>3, <2>4, <3>1, <4>1
    <3>2. CASE i # m + 1
      <4>1. i \in 0..m /\ (i # 0 => i - 1 \in 0..m)
        BY <3>2
      <4> QED
        BY <2>2, <2>3, <4>1
    <3> QED
      BY <3>1, <3>2
  <2>6. IsHex(g, size, ds, m + 1)
    BY <2>4, <2>5 DEF IsHex
  <2> QED
    BY <2>6
<1> HIDE DEF S
<1>3. n \in S
  BY <1>1, <1>2, InductTo
<1> QED
  BY <1>3 DEF S

(* The size of a chunk is a number, whatever its digits are.               *)
LEMMA HexType ==
    ASSUME NEW size \in Int, NEW ds, Bytes(ds)
    PROVE  ConsumeHexNumber(size, ds) \in Int
<1> DEFINE n == Len(ds)
           f == CHOOSE g : IsHex(g, size, ds, n)
<1>1. n \in Nat
  BY LenProperties DEF Bytes
<1>2. ConsumeHexNumber(size, ds) = f[n]
  BY DEF ConsumeHexNumber, IsHex
<1> HIDE DEF n
<1>3. IsHex(f, size, ds, n)
  BY <1>1, HexIs
<1> HIDE DEF f
<1> DEFINE S == {i \in 0..n : f[i] \in Int}
<1>4. \A i \in 0..n : f[i] = IF i = 0 THEN size ELSE HexStep(f[i - 1], ds[i])
  BY <1>3 DEF IsHex
<1>5. 0 \in S
  BY <1>1, <1>4
<1>6. ASSUME NEW i \in 0..n, i < n, i \in S PROVE i + 1 \in S
  <2>1. i + 1 \in 0..n /\ i + 1 - 1 = i /\ i + 1 # 0
    BY <1>1, <1>6
  <2>2. f[i + 1] = HexStep(f[i], ds[i + 1])
    BY <1>4, <2>1
  <2>3. HexStep(f[i], ds[i + 1]) \in Int
    BY <1>6, HexValueType DEF HexStep
  <2> QED
    BY <2>1, <2>2, <2>3
<1> HIDE DEF S
<1>7. n \in S
  BY <1>1, <1>5, <1>6, InductTo
<1> QED
  BY <1>2, <1>7 DEF S
-----------------------------------------------------------------------------
(* The head of a request.                                                  *)

(* The bytes of a buffer and its fence.                                    *)
LEMMA FencedIs ==
    ASSUME NEW d, Bytes(d)
    PROVE  LET buf == Fenced(d)
           IN  /\ Bytes(buf) /\ Len(d) \in Nat /\ Len(buf) = Len(d) + 2
               /\ \A j \in 1..Len(d) : buf[j] = d[j]
               /\ buf[Len(d) + 1] = "CR" /\ buf[Len(d) + 2] = "a"
<1> DEFINE e == <<"CR", "a">>
           buf == d \o e
<1>1. Len(d) \in Nat /\ d \in Seq(Byte)
  BY LenProperties DEF Bytes
<1>2. e \in Seq(Byte) /\ Len(e) = 2 /\ e[1] = "CR" /\ e[2] = "a"
  BY DEF Byte
<1> HIDE DEF e
<1>3. /\ buf \in Seq(Byte) /\ Len(buf) = Len(d) + Len(e)
      /\ \A j \in 1..Len(d) + Len(e) :
            buf[j] = IF j <= Len(d) THEN d[j] ELSE e[j - Len(d)]
  BY <1>1, <1>2, ConcatProperties
<1> HIDE DEF buf
<1>4. \A j \in 1..Len(d) : buf[j] = d[j]
  BY <1>1, <1>2, <1>3
<1>5. buf[Len(d) + 1] = "CR" /\ buf[Len(d) + 2] = "a"
  <2>1. /\ Len(d) + 1 \in 1..Len(d) + Len(e) /\ ~(Len(d) + 1 <= Len(d))
        /\ Len(d) + 1 - Len(d) = 1
        /\ Len(d) + 2 \in 1..Len(d) + Len(e) /\ ~(Len(d) + 2 <= Len(d))
        /\ Len(d) + 2 - Len(d) = 2
    BY <1>1, <1>2
  <2> QED
    BY <1>2, <1>3, <2>1
<1>6. Fenced(d) = buf
  BY DEF Fenced, buf, e
<1> QED
  BY <1>1, <1>2, <1>3, <1>4, <1>5, <1>6 DEF Bytes

(* One pass of the loop over the fields, of which the others make rest.    *)
NameAt(buf, p) == ScanPast(buf, p, Names)
ValueAt(buf, p) == ScanTo(buf, NameAt(buf, p), {"CR", "LF", "BAD"})

Pass(buf, end, line, p, rest) ==
    IF buf[NameAt(buf, p)] # ":" THEN IF NameAt(buf, p) = end THEN More ELSE Fail(400)
    ELSE IF buf[ValueAt(buf, p)] # "CR" THEN Fail(400)
    ELSE AfterField(buf, end, line, ValueAt(buf, p), rest)

IsFields(f, buf, end, line, n) ==
    f = [left \in 0..n |-> [p \in 1..end |->
            IF left = 0 THEN Fail(431)
            ELSE Pass(buf, end, line, p, f[left - 1][ValueAt(buf, p) + 2])]]

(* A function of all passes exists.                                        *)
LEMMA FieldsExist ==
    ASSUME NEW buf, NEW end, NEW line, NEW n \in Nat
    PROVE  \E f : IsFields(f, buf, end, line, n)
<1> DEFINE One(left, row) == [p \in 1..end |->
               IF left = 0 THEN Fail(431)
               ELSE Pass(buf, end, line, p, row[ValueAt(buf, p) + 2])]
           Is(f, m) == f = [left \in 0..m |-> One(left, f[left - 1])]
           S == {m \in Nat : \E f : Is(f, m)}
<1> HIDE DEF One
<1>1. 0 \in S
  <2> DEFINE f == [left \in 0..0 |-> One(0, <<>>)]
  <2>1. \A row, other : One(0, row) = One(0, other)
    BY DEF One
  <2>2. \A left \in 0..0 : One(left, f[left - 1]) = One(0, <<>>)
    BY <2>1
  <2>3. Is(f, 0)
    BY <2>2
  <2> QED
    BY <2>3
<1>2. ASSUME NEW m \in S PROVE m + 1 \in S
  <2>1. PICK f : Is(f, m)
    OBVIOUS
  <2> DEFINE g == [left \in 0..(m + 1) |-> IF left = m + 1 THEN One(m + 1, f[m])
                                            ELSE f[left]]
  <2>2. \A left \in 0..m : f[left] = One(left, f[left - 1])
    BY <2>1
  <2>3. \A left \in 0..m : g[left] = f[left]
    OBVIOUS
  <2>4. g[m + 1] = One(m + 1, f[m]) /\ g = [left \in 0..(m + 1) |-> g[left]]
    OBVIOUS
  <2> HIDE DEF g
  <2>5. ASSUME NEW left \in 0..(m + 1)
        PROVE  g[left] = One(left, g[left - 1])
    <3>1. CASE left = m + 1
      <4>1. left - 1 = m /\ m \in 0..m
        BY <3>1
      <4> QED
        BY <2>3, <2>4, <3>1, <4>1
    <3>2. CASE left # m + 1 /\ left # 0
      <4>1. left \in 0..m /\ left - 1 \in 0..m
        BY <3>2
      <4> QED
        BY <2>2, <2>3, <4>1
    <3>3. CASE left = 0
      <4>1. 0 \in 0..m
        OBVIOUS
      <4>2. g[0] = One(0, f[0 - 1])
        BY <2>2, <2>3, <4>1
      <4>3. One(0, f[0 - 1]) = One(0, g[0 - 1])
        BY DEF One
      <4> QED
        BY <3>3, <4>2, <4>3
    <3> QED
      BY <3>1, <3>2, <3>3
  <2>6. Is(g, m + 1)
    BY <2>4, <2>5
  <2> QED
    BY <2>6
<1> HIDE DEF S
<1>3. n \in S
  BY <1>1, <1>2, InductTo
<1>4. PICK f : Is(f, n)
  BY <1>3 DEF S
<1>5. IsFields(f, buf, end, line, n)
  BY <1>4 DEF IsFields, One
<1> QED
  BY <1>5

AllPasses(buf, end, line) == CHOOSE g : IsFields(g, buf, end, line, MaxHeaders - 2)

(* getHeaders is its passes from the first field on.                       *)
LEMMA FieldsAre ==
    ASSUME NEW buf, NEW end, NEW line
    PROVE  /\ IsFields(AllPasses(buf, end, line), buf, end, line, MaxHeaders - 2)
           /\ GetFields(buf, end, line) =
                IF line = 0 THEN More ELSE IF line < 0 THEN Fail(505)
                ELSE AllPasses(buf, end, line)[MaxHeaders - 2][line]
<1>1. MaxHeaders - 2 \in Nat
  BY ParserAssumption
<1> DEFINE f == CHOOSE g : IsFields(g, buf, end, line, MaxHeaders - 2)
<1>2. IsFields(f, buf, end, line, MaxHeaders - 2)
  BY <1>1, FieldsExist
<1>3. GetFields(buf, end, line) =
        IF line = 0 THEN More ELSE IF line < 0 THEN Fail(505)
        ELSE f[MaxHeaders - 2][line]
  BY DEF GetFields, IsFields, Pass, NameAt, ValueAt
<1>4. AllPasses(buf, end, line) = f
  BY DEF AllPasses
<1> HIDE DEF f
<1> QED
  BY <1>2, <1>3, <1>4

(* A pass that finds something goes over a field with a value and the end  *)
(* of its line, in the data: the end of the head, or another field.        *)
LEMMA PassIs ==
    ASSUME NEW d, Bytes(d), NEW line, NEW p \in 1..Len(d) + 1, NEW rest,
           Pass(Fenced(d), Len(d) + 1, line, p, rest).consumed # 0
    PROVE  LET buf == Fenced(d)
               n == NameAt(buf, p)
               v == ValueAt(buf, p)
           IN  /\ n \in Nat /\ v \in Nat /\ p <= n /\ n <= v /\ v + 2 <= Len(d) + 1
               /\ buf[n] = ":" /\ buf[v] = "CR" /\ buf[v + 1] = "LF"
               /\ \/ /\ buf[v + 2] = "CR" /\ buf[v + 3] = "LF" /\ v + 3 <= Len(d)
                     /\ Pass(buf, Len(d) + 1, line, p, rest).consumed = v + 3
                  \/ /\ buf[v + 2] # "CR"
                     /\ Pass(buf, Len(d) + 1, line, p, rest) = rest
<1> DEFINE buf == Fenced(d)
           end == Len(d) + 1
           n == NameAt(buf, p)
           v == ValueAt(buf, p)
           pass == Pass(buf, end, line, p, rest)
<1>1. /\ Bytes(buf) /\ Len(d) \in Nat /\ Len(buf) = end + 1
      /\ buf[end] = "CR" /\ buf[end + 1] = "a"
  BY FencedIs
<1>2. More.consumed = 0 /\ \A c : Fail(c).consumed = 0
  BY DEF More, Fail
<1>3. /\ buf[n] = ":" /\ buf[v] = "CR"
      /\ pass = AfterField(buf, end, line, v, rest)
  BY <1>2 DEF Pass
<1>4. buf[v + 1] = "LF"
  BY <1>2, <1>3 DEF AfterField
<1> HIDE DEF buf, end, pass
<1>5. n \in Nat /\ p <= n /\ n <= end
  <2>1. p \in Nat /\ p <= Len(buf) + 1 /\ end \in Nat /\ p <= end
    BY <1>1 DEF end
  <2>2. /\ n \in Nat /\ p <= n
        /\ \A j \in p..n - 1 : buf[j] \in Names
    BY <1>1, <2>1, ScanIs DEF NameAt
  <2>3. ~(end \in p..n - 1)
    BY <1>1, <2>2 DEF Names
  <2> QED
    BY <2>1, <2>2, <2>3
<1>6. v \in Nat /\ n <= v /\ v <= end
  <2>1. n \in Nat /\ n <= Len(buf) + 1 /\ end \in Nat
    BY <1>1, <1>5 DEF end
  <2>2. /\ v \in Nat /\ n <= v
        /\ \A j \in n..v - 1 : buf[j] \notin {"CR", "LF", "BAD"}
    BY <1>1, <2>1, ScanIs DEF ValueAt
  <2>3. ~(end \in n..v - 1)
    BY <1>1, <2>2
  <2> QED
    BY <1>5, <2>1, <2>2, <2>3
<1> HIDE DEF n, v
<1>7. end \in Nat
  BY <1>1 DEF end
<1>8. v + 2 <= end
  <2>1. v # end
    BY <1>1, <1>4
  <2>2. v + 1 # end
    BY <1>1, <1>4
  <2> QED
    BY <1>6, <1>7, <2>1, <2>2
<1>9. CASE buf[v + 2] # "CR"
  <2>1. pass = rest
    BY <1>3, <1>4, <1>9 DEF AfterField
  <2> QED
    BY <1>3, <1>4, <1>5, <1>6, <1>8, <1>9, <2>1 DEF buf, end, n, v, pass
<1>10. CASE buf[v + 2] = "CR"
  <2>1. buf[v + 3] = "LF" /\ pass.consumed = v + 3
    <3>1. CASE buf[v + 3] = "LF"
      BY <1>3, <1>4, <1>10, <3>1 DEF AfterField
    <3>2. CASE buf[v + 3] # "LF"
      <4>1. pass.consumed = 0
        BY <1>2, <1>3, <1>4, <1>10, <3>2 DEF AfterField
      <4> QED
        BY <4>1 DEF pass, buf, end
    <3> QED
      BY <3>1, <3>2
  <2>2. v + 3 # end /\ v + 3 # end + 1
    BY <1>1, <2>1
  <2>3. v + 3 <= Len(d)
    BY <1>1, <1>6, <1>8, <2>2 DEF end
  <2> QED
    BY <1>3, <1>4, <1>5, <1>6, <1>8, <1>10, <2>1, <2>3 DEF buf, end, n, v, pass
<1> QED
  BY <1>9, <1>10

(* What the fields say of a function of passes.                            *)
LEMMA FieldsStep ==
    ASSUME NEW f, NEW buf, NEW end \in Nat, NEW line, NEW n \in Nat,
           IsFields(f, buf, end, line, n), NEW left \in 0..n, NEW p \in 1..end,
           f[left][p].consumed # 0
    PROVE  /\ left # 0 /\ left - 1 \in 0..n
           /\ f[left][p] = Pass(buf, end, line, p, f[left - 1][ValueAt(buf, p) + 2])
<1>1. f[left][p] = IF left = 0 THEN Fail(431)
                   ELSE Pass(buf, end, line, p, f[left - 1][ValueAt(buf, p) + 2])
  BY DEF IsFields
<1>2. Fail(431).consumed = 0
  BY DEF Fail
<1> QED
  BY <1>1, <1>2

(* A head that is found ends in the data, behind its last field.           *)
LEMMA FieldsBound ==
    ASSUME NEW d, Bytes(d), NEW line, NEW n \in Nat, NEW f,
           IsFields(f, Fenced(d), Len(d) + 1, line, n)
    PROVE  \A left \in 0..n : \A p \in 1..Len(d) + 1 :
             LET c == f[left][p].consumed
             IN  c # 0 => c \in Nat /\ p + 3 <= c /\ c <= Len(d)
<1> DEFINE buf == Fenced(d)
           end == Len(d) + 1
           Holds(left, p) == LET c == f[left][p].consumed
                             IN  c # 0 => c \in Nat /\ p + 3 <= c /\ c <= Len(d)
           S == {left \in 0..n : \A p \in 1..end : Holds(left, p)}
<1>1. Len(d) \in Nat /\ end \in Nat
  BY FencedIs
<1>2. 0 \in S
  <2> SUFFICES ASSUME NEW p \in 1..end, f[0][p].consumed # 0
               PROVE  FALSE
    OBVIOUS
  <2>1. IsFields(f, buf, end, line, n) /\ 0 \in 0..n
    OBVIOUS
  <2> HIDE DEF buf, end
  <2> QED
    BY <1>1, <2>1, FieldsStep
<1>3. ASSUME NEW left \in 0..n, left < n, left \in S PROVE left + 1 \in S
  <2> SUFFICES ASSUME NEW p \in 1..end, f[left + 1][p].consumed # 0
               PROVE  Holds(left + 1, p)
    BY <1>3
  <2> DEFINE v == ValueAt(buf, p)
             rest == f[left][v + 2]
  <2>1. left + 1 \in 0..n /\ left + 1 - 1 = left
    BY <1>3
  <2>2. f[left + 1][p] = Pass(buf, end, line, p, rest)
    <3> DEFINE next == left + 1
    <3>1. IsFields(f, buf, end, line, n) /\ next \in 0..n /\ f[next][p].consumed # 0
      BY <2>1
    <3>2. next - 1 = left
      BY <2>1
    <3> HIDE DEF buf, end, next
    <3>3. f[next][p] = Pass(buf, end, line, p, f[next - 1][ValueAt(buf, p) + 2])
      BY <1>1, <3>1, FieldsStep
    <3> QED
      BY <3>2, <3>3 DEF next
  <2>3. /\ v \in Nat /\ p <= v /\ v + 2 <= end
        /\ \/ v + 3 <= Len(d) /\ f[left + 1][p].consumed = v + 3
           \/ f[left + 1][p] = rest
    <3>1. Pass(buf, end, line, p, rest).consumed # 0
      BY <2>2
    <3> QED
      BY <2>2, <3>1, PassIs
  <2> HIDE DEF v
  <2>4. CASE v + 3 <= Len(d) /\ f[left + 1][p].consumed = v + 3
    BY <2>3, <2>4
  <2>5. CASE f[left + 1][p] = rest
    <3>1. v + 2 \in 1..end
      BY <1>1, <2>3
    <3>2. Holds(left, v + 2)
      BY <1>3, <3>1
    <3> QED
      BY <1>1, <2>3, <2>5, <3>2
  <2> QED
    BY <2>3, <2>4, <2>5
<1> HIDE DEF S
<1>4. \A left \in 0..n : left \in S
  BY <1>2, <1>3, InductTo
<1> QED
  BY <1>4 DEF S
PassesIn(f, d, line, n) == IsFields(f, Fenced(d), Len(d) + 1, line, n)

(* A head that ends in the data is found as well without the bytes behind  *)
(* that data.                                                              *)
LEMMA FieldsSame ==
    ASSUME NEW d, Bytes(d), NEW e, Bytes(e), Len(d) <= Len(e),
           \A j \in 1..Len(d) : d[j] = e[j], NEW line, NEW n \in Nat,
           NEW f, PassesIn(f, d, line, n), NEW g, PassesIn(g, e, line, n)
    PROVE  \A left \in 0..n : \A p \in 1..Len(d) :
             g[left][p].consumed \in 1..Len(d) => f[left][p].consumed = g[left][p].consumed
<1> DEFINE a == Fenced(e)
           b == Fenced(d)
           k == Len(d)
           m == Len(e)
           x == m + 1
           y == k + 1
           Holds(left, p) ==
             g[left][p].consumed \in 1..k => f[left][p].consumed = g[left][p].consumed
           S == {left \in 0..n : \A p \in 1..k : Holds(left, p)}
<1>1. /\ Bytes(a) /\ Bytes(b) /\ k \in Nat /\ m \in Nat /\ k <= m
      /\ Len(a) = m + 2 /\ Len(b) = k + 2
      /\ \A j \in 1..k : a[j] = b[j]
  BY FencedIs
<1>2. /\ IsFields(f, b, y, line, n) /\ IsFields(g, a, x, line, n)
      /\ x \in Nat /\ y \in Nat /\ x = m + 1
      /\ \A p \in 1..k : p \in 1..y /\ p \in 1..x
  BY <1>1 DEF PassesIn
<1>3. \A left \in 0..n : \A p \in 1..x :
        LET c == g[left][p].consumed
        IN  c # 0 => c \in Nat /\ p + 3 <= c /\ c <= m
  BY FieldsBound DEF PassesIn
<1>4. 0 \in S
  <2> SUFFICES ASSUME NEW p \in 1..k, g[0][p].consumed \in 1..k
               PROVE  FALSE
    OBVIOUS
  <2>1. g[0][p].consumed # 0 /\ 0 \in 0..n /\ p \in 1..x
    BY <1>1, <1>2
  <2> HIDE DEF a, b, k, m, x, y
  <2>2. IsFields(g, a, x, line, n) /\ x \in Nat /\ n \in Nat
    BY <1>2
  <2> QED
    BY ONLY <2>1, <2>2, FieldsStep
<1>5. ASSUME NEW left \in 0..n, left < n, left \in S PROVE left + 1 \in S
  <2> DEFINE next == left + 1
  <2>1. next \in 0..n /\ next # 0 /\ next - 1 = left
    BY <1>5
  <2> SUFFICES ASSUME NEW p \in 1..k, g[next][p].consumed \in 1..k
               PROVE  f[next][p].consumed = g[next][p].consumed
    BY <2>1
  <2> DEFINE c == g[next][p].consumed
             v == ValueAt(a, p)
             name == NameAt(a, p)
             rest == g[left][v + 2]
             other == f[left][ValueAt(b, p) + 2]
  <2>2. c # 0 /\ c \in Nat /\ c <= k /\ p \in 1..y /\ p \in 1..x
    BY <1>1, <1>2
  <2>3. Holds(left, v + 2) \/ v + 2 \notin 1..k
    BY <1>5
  <2> HIDE DEF next, k, m, a, b, x, y, c, v, name, other
  <2>4. g[next][p] = Pass(a, x, line, p, rest)
    <3>1. g[next][p].consumed # 0
      BY <2>2 DEF c
    <3>2. g[next][p] = Pass(a, x, line, p, g[next - 1][ValueAt(a, p) + 2])
      <4>1. /\ IsFields(g, a, x, line, n) /\ x \in Nat /\ n \in Nat
            /\ next \in 0..n /\ p \in 1..x
        BY <1>2, <2>1, <2>2
      <4> QED
        BY ONLY <3>1, <4>1, FieldsStep
    <3> QED
      BY <2>1, <3>2 DEF v
  <2>5. f[next][p] = Pass(b, y, line, p, other)
    <3>1. f[next] = [q \in 1..y |-> IF next = 0 THEN Fail(431)
                       ELSE Pass(b, y, line, q, f[next - 1][ValueAt(b, q) + 2])]
      BY <1>2, <2>1 DEF IsFields
    <3>2. f[next][p] = IF next = 0 THEN Fail(431)
                       ELSE Pass(b, y, line, p, f[next - 1][ValueAt(b, p) + 2])
      BY <2>2, <3>1
    <3> QED
      BY <2>1, <3>2 DEF other
  <2>6. /\ name \in Nat /\ v \in Nat /\ p <= name /\ name <= v /\ v + 2 <= m + 1
        /\ a[name] = ":" /\ a[v] = "CR" /\ a[v + 1] = "LF"
        /\ \/ a[v + 2] = "CR" /\ a[v + 3] = "LF" /\ c = v + 3
           \/ a[v + 2] # "CR" /\ g[next][p] = rest
    <3>1. Pass(a, x, line, p, rest).consumed # 0 /\ p \in 1..x
      BY <2>2, <2>4 DEF c
    <3> QED
      BY <2>4, <3>1, PassIs DEF a, m, x, v, name, c
  <2>7. v + 3 <= c
    <3>1. CASE c = v + 3
      BY <2>6, <3>1
    <3>2. CASE g[next][p] = rest
      <4>1. v + 2 \in 1..x
        <5>1. x \in Nat /\ x = m + 1
          BY <1>2
        <5>2. v \in Nat /\ v + 2 <= m + 1
          BY <2>6
        <5> QED
          BY ONLY <5>1, <5>2
      <4>2. rest.consumed = c
        BY <3>2 DEF c
      <4>3. v + 2 + 3 <= c
        BY <1>3, <2>2, <4>1, <4>2
      <4> QED
        BY <2>2, <2>6, <4>3
    <3> QED
      BY <2>6, <3>1, <3>2
  <2>8. name <= k /\ v + 3 <= k /\ v + 2 \in 1..k
    BY <1>1, <2>2, <2>6, <2>7
  <2>9. NameAt(b, p) = name /\ ValueAt(b, p) = v
    <3>1. k <= Len(a) /\ k <= Len(b) /\ p \in Nat \ {0} /\ p <= k /\ k \in Nat
      BY <1>1
    <3>2. ScanPast(a, p, Names) = name
      BY DEF NameAt, name
    <3>3. NameAt(b, p) = name
      <4>1. Bytes(a) /\ Bytes(b) /\ \A j \in 1..k : a[j] = b[j]
        BY <1>1
      <4>2. ScanPast(b, p, Names) = ScanPast(a, p, Names)
        BY ONLY <2>8, <3>1, <3>2, <4>1, ScanSame
      <4> QED
        BY <3>2, <4>2 DEF NameAt
    <3>4. name \in Nat \ {0}
      BY <2>6
    <3>5. v = ScanTo(a, name, {"CR", "LF", "BAD"}) /\ v <= k
      BY <2>6, <2>8, <1>1 DEF v, ValueAt, name
    <3>6. ScanTo(b, name, {"CR", "LF", "BAD"}) = v
      <4>1. Bytes(a) /\ Bytes(b) /\ \A j \in 1..k : a[j] = b[j]
        BY <1>1
      <4> QED
        BY ONLY <2>8, <3>1, <3>4, <3>5, <4>1, ScanSame
    <3> QED
      BY <3>3, <3>6 DEF ValueAt
  <2>10. /\ b[name] = a[name] /\ b[v] = a[v] /\ b[v + 1] = a[v + 1]
         /\ b[v + 2] = a[v + 2] /\ b[v + 3] = a[v + 3]
    <3>1. name \in 1..k /\ v \in 1..k /\ v + 1 \in 1..k /\ v + 2 \in 1..k /\ v + 3 \in 1..k
      BY <1>1, <2>6, <2>8
    <3> QED
      BY <1>1, <3>1
  <2>11. f[next][p] = AfterField(b, y, line, v, f[left][v + 2])
    BY <2>5, <2>6, <2>9, <2>10 DEF Pass, other
  <2>12. CASE a[v + 2] = "CR" /\ a[v + 3] = "LF" /\ c = v + 3
    <3>1. f[next][p].consumed = v + 3
      BY <2>6, <2>10, <2>11, <2>12 DEF AfterField
    <3> QED
      BY <2>12, <3>1 DEF c
  <2>13. CASE a[v + 2] # "CR" /\ g[next][p] = rest
    <3>1. f[next][p] = f[left][v + 2]
      BY <2>6, <2>10, <2>11, <2>13 DEF AfterField
    <3>2. rest.consumed \in 1..k
      BY <2>2, <2>13 DEF c
    <3>3. f[left][v + 2].consumed = rest.consumed
      BY <2>3, <2>8, <3>2
    <3> QED
      BY <2>13, <3>1, <3>3
  <2> QED
    BY <2>6, <2>12, <2>13
<1> HIDE DEF S
<1>6. \A left \in 0..n : left \in S
  BY <1>4, <1>5, InductTo
<1> QED
  BY <1>6 DEF S
(* A request line that is found ends in the data.                          *)
LEMMA LineIs ==
    ASSUME NEW d, Bytes(d), NEW p \in 1..Len(d) + 1,
           ConsumeRequestLine(Fenced(d), Len(d) + 1, p) \notin {0, -1}
    PROVE  LET buf == Fenced(d)
               a == ScanTo(buf, p, Low)
               b == ScanTo(buf, a + 1, Low)
           IN  /\ a \in Nat /\ b \in Nat /\ p <= a /\ a + 1 <= b
               /\ buf[a] = "SP" /\ buf[a + 1] = "/"
               /\ b + 4 <= Len(d) /\ SubSeq(buf, b, b + 3) = Version
               /\ ConsumeRequestLine(buf, Len(d) + 1, p) = b + 4
<1> DEFINE buf == Fenced(d)
           end == Len(d) + 1
           a == ScanTo(buf, p, Low)
           b == ScanTo(buf, a + 1, Low)
           line == ConsumeRequestLine(buf, end, p)
<1>1. /\ Bytes(buf) /\ Len(d) \in Nat /\ Len(buf) = end + 1 /\ end \in Nat
      /\ buf[end] = "CR" /\ buf[end + 1] = "a" /\ p \in 1..end
  BY FencedIs
<1>2. /\ buf[a] = "SP" /\ buf[a + 1] = "/" /\ a + 1 # end
      /\ line = AfterTarget(buf, end, b)
  BY DEF ConsumeRequestLine, AfterMethod
<1>3. Len(Version) = 4
  BY DEF Version
<1>4. /\ ~(b + 4 >= end) /\ SubSeq(buf, b, b + 4 - 1) = Version /\ line = b + 4
  BY <1>2, <1>3 DEF AfterTarget
<1> HIDE DEF buf, end, line
<1>5. a \in Nat /\ p <= a /\ a <= end
  <2>1. p \in Nat /\ p <= Len(buf) + 1
    BY <1>1
  <2>2. /\ a \in Nat /\ p <= a
        /\ \A j \in p..a - 1 : buf[j] \notin Low
    BY <1>1, <2>1, ScanIs
  <2>3. ~(end \in p..a - 1)
    BY <1>1, <2>2 DEF Low
  <2> HIDE DEF a
  <2> QED
    BY <1>1, <2>2, <2>3
<1>6. b \in Nat /\ a + 1 <= b
  <2>1. a + 1 \in Nat /\ a + 1 <= Len(buf) + 1
    BY <1>1, <1>5
  <2> QED
    BY <1>1, <2>1, ScanIs
<1> HIDE DEF a, b
<1>7. b + 4 <= Len(d) /\ b + 4 - 1 = b + 3
  BY <1>1, <1>4, <1>6 DEF end
<1> QED
  BY <1>2, <1>4, <1>5, <1>6, <1>7 DEF buf, end, a, b, line

(* The bytes of a PROXY frame in front of the head are in the data.        *)
LEMMA ProxyIs ==
    ASSUME NEW d, Bytes(d), ~(ProxyOffset(Fenced(d), Len(d) + 1) < 0)
    PROVE  ProxyOffset(Fenced(d), Len(d) + 1) \in 0..Len(d)
<1> DEFINE buf == Fenced(d)
           end == Len(d) + 1
           h == HexValue(buf[7])
<1>1. Len(d) \in Nat /\ end - 1 = Len(d) /\ h \in Nat /\ ProxyHeader \in Nat
  BY FencedIs, HexValueType, ParserAssumption
<1> HIDE DEF buf, h
<1>2. ProxyOffset(buf, end) \in {0, -1, ProxyHeader + h}
  BY DEF ProxyOffset, h
<1>3. ProxyOffset(buf, end) = 0 \/ ProxyOffset(buf, end) = -1
      \/ (~(Len(d) < ProxyHeader + h) /\ ProxyOffset(buf, end) = ProxyHeader + h)
  BY <1>1 DEF ProxyOffset, h
<1> HIDE DEF end
<1> QED
  BY <1>1, <1>3 DEF buf, end

(* A head that is found ends in the data, behind the request line.         *)
LEMMA HeadIs ==
    ASSUME NEW d, Bytes(d), GetHeaders(Fenced(d)).consumed # 0
    PROVE  LET buf == Fenced(d)
               end == Len(d) + 1
               offset == ProxyOffset(buf, end)
               line == ConsumeRequestLine(buf, end, offset + 1)
               c == GetHeaders(buf).consumed
           IN  /\ offset \in 0..Len(d) /\ line \notin {0, -1} /\ line \in 1..Len(d)
               /\ c \in Nat /\ line + 3 <= c /\ c <= Len(d)
               /\ GetHeaders(buf) = GetFields(buf, end, line)
<1> DEFINE buf == Fenced(d)
           end == Len(d) + 1
           offset == ProxyOffset(buf, end)
           line == ConsumeRequestLine(buf, end, offset + 1)
           c == GetHeaders(buf).consumed
<1>1. /\ Len(d) \in Nat /\ Len(buf) - 1 = end
  BY FencedIs
<1>2. More.consumed = 0 /\ \A code : Fail(code).consumed = 0
  BY DEF More, Fail
<1>3. GetHeaders(buf) = IF offset < 0 THEN More ELSE GetFields(buf, end, line)
  BY <1>1 DEF GetHeaders
<1>4. ~(offset < 0) /\ GetHeaders(buf) = GetFields(buf, end, line)
  BY <1>2, <1>3
<1>5. offset \in 0..Len(d)
  BY <1>4, ProxyIs
<1> DEFINE f == AllPasses(buf, end, line)
<1>6. /\ IsFields(f, buf, end, line, MaxHeaders - 2)
      /\ GetFields(buf, end, line) =
           IF line = 0 THEN More ELSE IF line < 0 THEN Fail(505)
           ELSE f[MaxHeaders - 2][line]
  BY FieldsAre
<1>7. ~(line = 0) /\ ~(line < 0) /\ GetHeaders(buf) = f[MaxHeaders - 2][line]
  BY <1>2, <1>4, <1>6
<1>8. line \notin {0, -1} /\ line \in 1..Len(d)
  <2>1. line \notin {0, -1} /\ offset + 1 \in 1..Len(d) + 1
    BY <1>1, <1>5, <1>7
  <2>2. line \in Nat /\ line <= Len(d)
    <3> HIDE DEF offset
    <3> QED
      BY <2>1, LineIs
  <2> HIDE DEF line
  <2> QED
    BY <1>1, <2>1, <2>2
<1>9. c # 0 => c \in Nat /\ line + 3 <= c /\ c <= Len(d)
  <2>1. MaxHeaders - 2 \in Nat /\ MaxHeaders - 2 \in 0..MaxHeaders - 2
    BY ParserAssumption
  <2>2. line \in 1..Len(d) + 1
    BY <1>1, <1>8
  <2> HIDE DEF line
  <2> QED
    BY <1>6, <1>7, <2>1, <2>2, FieldsBound
<1> QED
  BY <1>4, <1>5, <1>8, <1>9
(* Buffers that agree on some places have the same bytes there.            *)
LEMMA SubSeqSame ==
    ASSUME NEW a, Bytes(a), NEW b, Bytes(b), NEW i \in Nat \ {0}, NEW j \in Nat,
           i <= j, j <= Len(a), j <= Len(b), \A x \in i..j : a[x] = b[x]
    PROVE  SubSeq(a, i, j) = SubSeq(b, i, j)
<1> DEFINE s == SubSeq(a, i, j)
           u == SubSeq(b, i, j)
<1>1. Len(a) \in Nat /\ Len(b) \in Nat /\ a \in Seq(Byte) /\ b \in Seq(Byte)
  BY LenProperties DEF Bytes
<1>2. /\ i \in 1..Len(a) + 1 /\ j \in i - 1..Len(a)
      /\ i \in 1..Len(b) + 1 /\ j \in i - 1..Len(b)
  BY <1>1
<1>3. /\ s \in Seq(Byte) /\ Len(s) = j - i + 1
      /\ \A x \in 1..j - i + 1 : s[x] = a[i + x - 1]
  BY <1>1, <1>2, SubSeqProperties
<1>4. /\ u \in Seq(Byte) /\ Len(u) = j - i + 1
      /\ \A x \in 1..j - i + 1 : u[x] = b[i + x - 1]
  BY <1>1, <1>2, SubSeqProperties
<1> HIDE DEF s, u
<1>5. \A x \in 1..j - i + 1 : s[x] = u[x]
  <2> SUFFICES ASSUME NEW x \in 1..j - i + 1 PROVE s[x] = u[x]
    OBVIOUS
  <2>1. i + x - 1 \in i..j
    OBVIOUS
  <2> QED
    BY <1>3, <1>4, <2>1
<1>6. s = u
  BY <1>3, <1>4, <1>5, SeqEqual
<1> QED
  BY <1>6 DEF s, u

(* A head that ends in the data is found as well without the bytes behind. *)
LEMMA HeadSame ==
    ASSUME NEW d, Bytes(d), NEW e, Bytes(e), Len(d) <= Len(e),
           \A j \in 1..Len(d) : d[j] = e[j],
           GetHeaders(Fenced(e)).consumed \in 1..Len(d)
    PROVE  GetHeaders(Fenced(d)).consumed = GetHeaders(Fenced(e)).consumed
<1> DEFINE a == Fenced(e)
           b == Fenced(d)
           k == Len(d)
           m == Len(e)
           o == ProxyOffset(a, m + 1)
           line == ConsumeRequestLine(a, m + 1, o + 1)
           s == ScanTo(a, o + 1, Low)
           v == ScanTo(a, s + 1, Low)
           c == GetHeaders(a).consumed
<1>1. /\ Bytes(a) /\ Bytes(b) /\ k \in Nat /\ m \in Nat /\ k <= m
      /\ Len(a) = m + 2 /\ Len(b) = k + 2
      /\ \A j \in 1..k : a[j] = b[j]
  BY FencedIs
<1>2. c \in 1..k /\ c # 0
  BY <1>1
<1>3. /\ o \in 0..m /\ line \notin {0, -1} /\ line \in 1..m
      /\ c \in Nat /\ line + 3 <= c
      /\ GetHeaders(a) = GetFields(a, m + 1, line)
  BY <1>2, HeadIs
<1>4. /\ s \in Nat /\ v \in Nat /\ o + 1 <= s /\ s + 1 <= v
      /\ a[s] = "SP" /\ a[s + 1] = "/"
      /\ SubSeq(a, v, v + 3) = Version /\ line = v + 4
  <2>1. o + 1 \in 1..m + 1
    BY <1>1, <1>3
  <2> HIDE DEF o
  <2> QED
    BY <1>3, <2>1, LineIs
<1>5. ProxyOffset(b, k + 1) = IF ~WithProxy THEN 0 ELSE
        IF k < 4 THEN -1 ELSE
        IF SubSeq(b, 1, 4) # <<"CR", "LF", "CR", "LF">> THEN 0 ELSE
        IF \/ k < ProxyHeader \/ b[5] # "Q" \/ b[6] # "2"
           \/ k < ProxyHeader + HexValue(b[7]) \/ MaxProxy < HexValue(b[7])
        THEN -1 ELSE ProxyHeader + HexValue(b[7])
  <2>1. k + 1 - 1 = k /\ k \in Nat /\ WithProxy \in BOOLEAN
    BY <1>1, ParserAssumption
  <2> HIDE DEF b, k
  <2> QED
    BY <2>1 DEF ProxyOffset
<1>6. o = IF ~WithProxy THEN 0 ELSE
        IF m < 4 THEN -1 ELSE
        IF SubSeq(a, 1, 4) # <<"CR", "LF", "CR", "LF">> THEN 0 ELSE
        IF \/ m < ProxyHeader \/ a[5] # "Q" \/ a[6] # "2"
           \/ m < ProxyHeader + HexValue(a[7]) \/ MaxProxy < HexValue(a[7])
        THEN -1 ELSE ProxyHeader + HexValue(a[7])
  <2>1. m + 1 - 1 = m /\ m \in Nat /\ WithProxy \in BOOLEAN
    BY <1>1, ParserAssumption
  <2> HIDE DEF a, m
  <2> QED
    BY <2>1 DEF ProxyOffset, o
<1>7. GetHeaders(b) = IF ProxyOffset(b, k + 1) < 0 THEN More
                      ELSE GetFields(b, k + 1,
                             ConsumeRequestLine(b, k + 1, ProxyOffset(b, k + 1) + 1))
  <2>1. Len(b) - 1 = k + 1
    BY <1>1
  <2> HIDE DEF b, k
  <2> QED
    BY <2>1 DEF GetHeaders
<1> HIDE DEF a, b, k, m, o, line, s, v, c
<1>8. /\ v + 7 <= k /\ s + 1 <= k /\ o + 9 <= k /\ 4 <= k /\ 7 <= k
      /\ o \in Nat /\ s \in Nat \ {0} /\ v \in Nat \ {0}
  BY <1>1, <1>2, <1>3, <1>4
<1>9. ProxyOffset(b, k + 1) = o
  <2>1. SubSeq(a, 1, 4) = SubSeq(b, 1, 4)
    <3>1. /\ 4 <= Len(a) /\ 4 <= Len(b) /\ \A j \in 1..4 : a[j] = b[j]
      BY <1>1, <1>8
    <3> QED
      BY <1>1, <3>1, SubSeqSame
  <2>2. a[5] = b[5] /\ a[6] = b[6] /\ a[7] = b[7]
    <3>1. 5 \in 1..k /\ 6 \in 1..k /\ 7 \in 1..k
      BY <1>1, <1>8
    <3> QED
      BY <1>1, <3>1
  <2> DEFINE x == HexValue(a[7])
  <2>3. x \in Nat /\ ProxyHeader \in Nat
    BY HexValueType, ParserAssumption
  <2>4. HexValue(b[7]) = x
    BY <2>2
  <2> HIDE DEF x
  <2>5. CASE ~WithProxy
    BY <1>5, <1>6, <2>5
  <2>6. CASE WithProxy /\ SubSeq(a, 1, 4) # <<"CR", "LF", "CR", "LF">>
    <3>1. ~(k < 4) /\ ~(m < 4)
      BY <1>1, <1>8
    <3> QED
      BY <1>5, <1>6, <2>1, <2>6, <3>1
  <2>7. CASE WithProxy /\ SubSeq(a, 1, 4) = <<"CR", "LF", "CR", "LF">>
    <3>1. ~(k < 4) /\ ~(m < 4)
      BY <1>1, <1>8
    <3>2. a[5] = "Q" /\ a[6] = "2" /\ ~(MaxProxy < x) /\ o = ProxyHeader + x
      BY <1>6, <1>8, <2>7, <3>1 DEF x
    <3>3. ~(k < ProxyHeader) /\ ~(k < ProxyHeader + x)
      BY <1>1, <1>8, <2>3, <3>2
    <3> QED
      BY <1>5, <2>1, <2>2, <2>4, <2>7, <3>1, <3>2, <3>3
  <2> QED
    BY <2>5, <2>6, <2>7
<1>10. ConsumeRequestLine(b, k + 1, o + 1) = line
  <2>1. /\ k <= Len(a) /\ k <= Len(b) /\ k \in Nat /\ Bytes(a) /\ Bytes(b)
        /\ \A j \in 1..k : a[j] = b[j]
    BY <1>1
  <2>2. ScanTo(b, o + 1, Low) = s
    <3>1. /\ o + 1 \in Nat \ {0} /\ o + 1 <= k /\ s <= k
          /\ ScanTo(a, o + 1, Low) = s
      BY <1>1, <1>8 DEF s
    <3> QED
      BY ONLY <2>1, <3>1, ScanSame
  <2>3. ScanTo(b, s + 1, Low) = v
    <3>1. /\ s + 1 \in Nat \ {0} /\ s + 1 <= k /\ v <= k
          /\ ScanTo(a, s + 1, Low) = v
      BY <1>1, <1>8 DEF v
    <3> QED
      BY ONLY <2>1, <3>1, ScanSame
  <2>4. b[s] = "SP" /\ b[s + 1] = "/"
    <3>1. s \in 1..k /\ s + 1 \in 1..k
      BY <1>1, <1>8
    <3> QED
      BY <1>4, <2>1, <3>1
  <2>5. SubSeq(b, v, v + 3) = Version
    <3>1. /\ v \in Nat \ {0} /\ v + 3 \in Nat /\ v <= v + 3
          /\ v + 3 <= Len(a) /\ v + 3 <= Len(b)
          /\ \A x \in v..v + 3 : a[x] = b[x]
      BY <1>1, <1>8
    <3>2. SubSeq(a, v, v + 3) = SubSeq(b, v, v + 3)
      BY ONLY <2>1, <3>1, SubSeqSame
    <3> QED
      BY <1>4, <3>2
  <2>6. /\ s + 1 # k + 1 /\ Len(Version) = 4 /\ ~(v + 4 >= k + 1)
        /\ v + 4 - 1 = v + 3
    BY <1>1, <1>8 DEF Version
  <2> QED
    BY <1>4, <2>2, <2>3, <2>4, <2>5, <2>6 DEF ConsumeRequestLine, AfterMethod, AfterTarget
<1>11. GetHeaders(b) = GetFields(b, k + 1, line)
  BY <1>7, <1>8, <1>9, <1>10
<1> DEFINE n == MaxHeaders - 2
           g == AllPasses(a, m + 1, line)
           f == AllPasses(b, k + 1, line)
<1>12. n \in Nat /\ n \in 0..n
  BY ParserAssumption
<1>13. /\ IsFields(g, a, m + 1, line, n)
       /\ GetFields(a, m + 1, line) =
            IF line = 0 THEN More ELSE IF line < 0 THEN Fail(505) ELSE g[n][line]
  BY FieldsAre
<1>14. /\ IsFields(f, b, k + 1, line, n)
       /\ GetFields(b, k + 1, line) =
            IF line = 0 THEN More ELSE IF line < 0 THEN Fail(505) ELSE f[n][line]
  BY FieldsAre
<1> HIDE DEF n, f, g
<1>15. ~(line = 0) /\ ~(line < 0) /\ line \in 1..k
  BY <1>1, <1>3, <1>4, <1>8
<1>16. g[n][line].consumed = c
  BY <1>3, <1>13, <1>15 DEF c
<1>17. f[n][line].consumed = c
  <2>1. PassesIn(f, d, line, n) /\ PassesIn(g, e, line, n)
    BY <1>13, <1>14 DEF a, b, k, m, PassesIn
  <2>2. line \in 1..Len(d) /\ g[n][line].consumed \in 1..Len(d)
    BY <1>2, <1>15, <1>16 DEF k
  <2>3. \A left \in 0..n : \A p \in 1..Len(d) :
          g[left][p].consumed \in 1..Len(d) => f[left][p].consumed = g[left][p].consumed
    <3>1. /\ Bytes(d) /\ Bytes(e) /\ Len(d) <= Len(e) /\ n \in Nat
          /\ \A j \in 1..Len(d) : d[j] = e[j]
      BY <1>12
    <3> QED
      BY ONLY <2>1, <3>1, FieldsSame
  <2> QED
    BY <1>12, <1>16, <2>2, <2>3
<1> QED
  BY <1>11, <1>14, <1>15, <1>17 DEF a, b, c
-----------------------------------------------------------------------------
(* The inductive invariant.                                                *)

(* What is left of a body, and what is kept between two calls.             *)
Left == [chunked : BOOLEAN, hasSize : BOOLEAN, size : Nat]
IsParser(p) ==
    p \in [fallback : Seq(Byte), left : Left, state : {p.state}, events : {p.events}]

(* A chunk and a trailer are never empty, a body leaves no head in the     *)
(* fallback, and the fallback has no complete one.                         *)
Kept(p) ==
    /\ IsParser(p)
    /\ p.left.hasSize => p.left.size # 0
    /\ p.left # NoBody => p.fallback = <<>>
    /\ Len(p.fallback) < MaxFallback
    /\ GetHeaders(Fenced(p.fallback)).consumed = 0

(* Only a body or heads without a fallback are parsed in the data itself,  *)
(* and heads only where no body is left.                                   *)
InCall(p, d, loop) ==
    /\ Bytes(d) /\ loop \in {"idle", "fallback", "heads", "body"}
    /\ loop # "idle" => p.state = 200
    /\ loop \in {"heads", "body"} => p.fallback = <<>>
    /\ loop = "fallback" => p.left = NoBody /\ d # <<>>
    /\ loop = "heads" /\ d # <<>> => p.left = NoBody

ParserInv ==
    /\ stream \in Streams /\ arrived \in Nat
    /\ Kept(parser) /\ InCall(parser, data, phase)

(* The lesser of two numbers.                                              *)
LEMMA MinTwo ==
    ASSUME NEW m \in Nat, NEW n \in Nat
    PROVE  Min({m, n}) = IF m <= n THEN m ELSE n
<1> DEFINE x == Min({m, n})
<1>1. x \in {m, n} /\ \A k \in {m, n} : x <= k
  <2>1. {m, n} \in SUBSET Nat /\ {m, n} # {}
    OBVIOUS
  <2> QED
    BY <2>1, MinIs
<1> HIDE DEF x
<1>2. x = IF m <= n THEN m ELSE n
  BY <1>1
<1> QED
  BY <1>2 DEF x

(* A piece of the data, and what is left of it behind its first n bytes.   *)
LEMMA PieceIs ==
    ASSUME Bytes(data), NEW n \in 0..Len(data)
    PROVE  /\ Bytes(Rest(n)) /\ Len(Rest(n)) = Len(data) - n
           /\ Bytes(SubSeq(data, 1, n)) /\ Len(SubSeq(data, 1, n)) = n
           /\ \A j \in 1..n : SubSeq(data, 1, n)[j] = data[j]
<1>1. Len(data) \in Nat /\ data \in Seq(Byte) /\ n \in Nat /\ n <= Len(data)
  BY LenProperties DEF Bytes
<1>2. /\ n + 1 \in 1..Len(data) + 1 /\ Len(data) \in (n + 1) - 1..Len(data)
      /\ 1 \in 1..Len(data) + 1 /\ n \in 1 - 1..Len(data)
  BY <1>1
<1>3. /\ SubSeq(data, n + 1, Len(data)) \in Seq(Byte)
      /\ Len(SubSeq(data, n + 1, Len(data))) = Len(data) - (n + 1) + 1
  BY <1>1, <1>2, SubSeqProperties
<1>4. /\ SubSeq(data, 1, n) \in Seq(Byte) /\ Len(SubSeq(data, 1, n)) = n - 1 + 1
      /\ \A j \in 1..n - 1 + 1 : SubSeq(data, 1, n)[j] = data[1 + j - 1]
  BY <1>1, <1>2, SubSeqProperties
<1>5. n - 1 + 1 = n /\ Len(data) - (n + 1) + 1 = Len(data) - n
      /\ \A j \in 1..n : 1 + j - 1 = j
  BY <1>1
<1> QED
  BY <1>3, <1>4, <1>5 DEF Bytes, Rest

(* Data that is not empty has a byte.                                      *)
LEMMA SomeData ==
    ASSUME Bytes(data)
    PROVE  Len(data) \in Nat /\ (data # <<>> <=> Len(data) # 0)
BY LenProperties, EmptySeq DEF Bytes

(* No head is in nothing.                                                  *)
LEMMA NoHead == Bytes(<<>>) /\ Len(<<>>) = 0 /\ GetHeaders(Fenced(<<>>)).consumed = 0
<1>1. Bytes(<<>>) /\ Len(<<>>) = 0
  BY EmptySeq DEF Bytes
<1>2. ASSUME GetHeaders(Fenced(<<>>)).consumed # 0 PROVE FALSE
  <2>1. \E line \in 1..Len(<<>>) : TRUE
    BY <1>1, <1>2, HeadIs
  <2> QED
    BY <1>1, <2>1
<1> QED
  BY <1>1, <1>2

(* What is handed to the application changes nothing else.                 *)
LEMMA EmitIs ==
    ASSUME NEW p, IsParser(p), NEW bytes, NEW fin
    PROVE  LET q == Emit(p, bytes, fin)
           IN  /\ IsParser(q) /\ q.fallback = p.fallback
               /\ q.left = p.left /\ q.state = p.state
BY DEF Emit, IsParser

(* Nor does a change of the body's state, or of its size.                  *)
LEMMA LeftIs ==
    ASSUME NEW p, IsParser(p), NEW l \in Left
    PROVE  LET q == [p EXCEPT !.left = l]
           IN  /\ IsParser(q) /\ q.fallback = p.fallback
               /\ q.left = l /\ q.state = p.state
BY DEF IsParser

SetSize(p, n) == [p EXCEPT !.left.size = n]

(* A change of the size keeps the two bits.                                *)
LEMMA SizeIs ==
    ASSUME NEW p, IsParser(p), NEW n \in Nat
    PROVE  LET q == SetSize(p, n)
               l == [p.left EXCEPT !.size = n]
           IN  /\ IsParser(q) /\ q.fallback = p.fallback /\ q.state = p.state
               /\ q.left = l /\ l \in Left /\ l.size = n
               /\ l.chunked = p.left.chunked /\ l.hasSize = p.left.hasSize
BY DEF IsParser, Left, SetSize

(* What the digits of a size leave, or all of it.                          *)
Counted(l, n) == [l EXCEPT !.size = n, !.chunked = TRUE]
ChunkOf(n) == [chunked |-> TRUE, hasSize |-> TRUE, size |-> n]
Trailer == [NoBody EXCEPT !.hasSize = TRUE, !.size = 2]

(* Digits whose line goes on leave a body whose size is not known yet.     *)
LEMMA CountedIs ==
    ASSUME NEW l \in Left, NEW n \in Nat
    PROVE  Counted(l, n) \in Left /\ Counted(l, n).hasSize = l.hasSize
BY DEF Left, Counted

(* A chunk has its size.                                                   *)
LEMMA ChunkOfIs ==
    ASSUME NEW n \in Nat
    PROVE  ChunkOf(n) \in Left /\ ChunkOf(n).size = n
BY DEF Left, ChunkOf

(* The trailer is two bytes long.                                          *)
LEMMA TrailerIs == Trailer \in Left /\ Trailer.size = 2
BY DEF Left, NoBody, Trailer

(* Nor does the event of a request.                                        *)
LEMMA RequestedIs ==
    ASSUME NEW p, IsParser(p), NEW hs
    PROVE  LET q == Requested(p, hs)
           IN  /\ IsParser(q) /\ q.fallback = p.fallback
               /\ q.left = p.left /\ q.state = p.state
BY DEF Requested, IsParser

(* A refusal changes the state of the parser only.                         *)
LEMMA RefuseIs ==
    ASSUME NEW p, IsParser(p), NEW code
    PROVE  LET q == Refuse(p, code)
           IN  /\ IsParser(q) /\ q.fallback = p.fallback
               /\ q.left = p.left /\ q.state = code
BY DEF Refuse, IsParser

(* And a piece of a chunk.                                                 *)
LEMMA ChunkPieceIs ==
    ASSUME NEW p, IsParser(p), NEW d
    PROVE  LET q == ChunkPiece(p, d)
           IN  /\ IsParser(q) /\ q.fallback = p.fallback
               /\ q.left = p.left /\ q.state = p.state
BY DEF ChunkPiece, Emit, IsParser

(* A piece of a body takes as much from it as there is.                    *)
LEMMA LengthPieceIs ==
    ASSUME NEW p, IsParser(p), NEW d, Bytes(d)
    PROVE  LET q == LengthPiece(p, d)
           IN  /\ IsParser(q) /\ q.fallback = p.fallback /\ q.state = p.state
               /\ q.left.size = IF p.left.size <= Len(d) THEN 0 ELSE p.left.size - Len(d)
               /\ q.left.chunked = p.left.chunked /\ q.left.hasSize = p.left.hasSize
<1> DEFINE n == Min({p.left.size, Len(d)})
           e == Emit(p, SubSeq(d, 1, n), n = p.left.size)
<1>1. Len(d) \in Nat /\ p.left.size \in Nat
  BY LenProperties DEF Bytes, IsParser, Left
<1>2. n = IF p.left.size <= Len(d) THEN p.left.size ELSE Len(d)
  BY <1>1, MinTwo
<1>3. /\ IsParser(e) /\ e.fallback = p.fallback
      /\ e.left = p.left /\ e.state = p.state
  BY EmitIs
<1>4. LengthPiece(p, d) = [e EXCEPT !.left.size = e.left.size - n]
  BY DEF LengthPiece
<1> HIDE DEF n, e
<1> DEFINE m == e.left.size - n
<1>5. m \in Nat /\ m = IF p.left.size <= Len(d) THEN 0 ELSE p.left.size - Len(d)
  BY <1>1, <1>2, <1>3
<1> HIDE DEF m
<1> DEFINE q == SetSize(e, m)
           l == [e.left EXCEPT !.size = m]
<1>6. /\ IsParser(q) /\ q.fallback = e.fallback /\ q.state = e.state
      /\ q.left = l /\ l.size = m
      /\ l.chunked = e.left.chunked /\ l.hasSize = e.left.hasSize
  BY <1>3, <1>5, SizeIs
<1>7. LengthPiece(p, d) = q
  BY <1>4 DEF m, SetSize
<1> HIDE DEF q, l
<1> QED
  BY <1>3, <1>5, <1>6, <1>7
-----------------------------------------------------------------------------
(* The passes.                                                             *)

Shortens ==
    \/ phase' = "idle" \/ Len(data') < Len(data)
    \/ phase = "body" /\ phase' = "heads"

(* What is kept stays so when the fallback does.                           *)
LEMMA KeptAs ==
    ASSUME NEW p, Kept(p), NEW q, IsParser(q), q.fallback = p.fallback,
           q.left # NoBody => q.fallback = <<>>,
           q.left.hasSize => q.left.size # 0
    PROVE  Kept(q)
BY DEF Kept

(* A call that returns leaves what is kept.                                *)
LEMMA ReturnKeeps ==
    ASSUME ParserInv, NEW p, Kept(p), Return(p)
    PROVE  ParserInv' /\ Shortens
<1>1. parser' = p /\ data' = <<>> /\ phase' = "idle" /\ stream' = stream /\ arrived' = arrived
  BY DEF Return
<1>2. InCall(p, <<>>, "idle")
  BY NoHead DEF InCall
<1> QED
  BY <1>1, <1>2 DEF ParserInv, Shortens

(* A pass that takes something from the data goes on with the rest.        *)
LEMMA GoKeeps ==
    ASSUME ParserInv, NEW p, Kept(p), p.state = 200, p.fallback = <<>>,
           NEW n \in 0..Len(data), NEW to \in {"heads", "body"}, Go(p, Rest(n), to),
           to = "heads" => p.left = NoBody \/ n = Len(data),
           n # 0 \/ (phase = "body" /\ to = "heads")
    PROVE  ParserInv' /\ Shortens
<1> DEFINE rest == Rest(n)
<1>1. parser' = p /\ data' = rest /\ phase' = to /\ stream' = stream /\ arrived' = arrived
  BY DEF Go
<1>2. Bytes(rest) /\ Len(rest) = Len(data) - n /\ Len(data) \in Nat
  BY PieceIs, SomeData DEF ParserInv, InCall
<1> HIDE DEF rest
<1>3. n = Len(data) => rest = <<>>
  <2>1. Len(data) - Len(data) = 0
    BY <1>2
  <2> QED
    BY <1>2, <2>1, EmptySeq DEF Bytes
<1>4. InCall(p, rest, to)
  BY <1>2, <1>3 DEF InCall
<1>5. n # 0 => Len(rest) < Len(data)
  BY <1>2
<1> QED
  BY <1>1, <1>4, <1>5 DEF ParserInv, Shortens

(* What remains behind all of the data is nothing.                         *)
LEMMA RestOfAll ==
    ASSUME Bytes(data)
    PROVE  Rest(Len(data)) = <<>>
<1>1. Len(data) \in Nat /\ Len(data) \in 0..Len(data) /\ Len(data) - Len(data) = 0
  BY SomeData
<1>2. Bytes(Rest(Len(data))) /\ Len(Rest(Len(data))) = 0
  BY <1>1, PieceIs
<1> QED
  BY <1>2, EmptySeq DEF Bytes

(* uSockets delivers a piece.                                              *)
LEMMA ReceiveKeeps ==
    ASSUME ParserInv, NEW n \in 1..Len(stream.wire), Receive(n)
    PROVE  ParserInv' /\ (phase # "idle" => Shortens)
<1> DEFINE w == stream.wire
           d == SubSeq(w, arrived + 1, arrived + n)
<1>1. w \in Seq(STRING) /\ arrived \in Nat /\ Len(w) \in Nat
  BY ParserAssumption, LenProperties DEF ParserInv
<1>2. /\ phase = "idle" /\ parser.state = 200 /\ arrived + n <= Len(w)
      /\ arrived' = arrived + n /\ data' = d /\ stream' = stream /\ parser' = parser
      /\ phase' = IF parser.left # NoBody THEN "body"
                  ELSE IF parser.fallback # <<>> THEN "fallback" ELSE "heads"
  BY DEF Receive
<1> HIDE DEF w
<1>3. n \in Nat /\ n # 0
  BY <1>1 DEF w
<1>4. d \in Seq(STRING) /\ Len(d) = n
  <2>1. /\ arrived + 1 \in 1..Len(w) + 1 /\ arrived + n \in (arrived + 1) - 1..Len(w)
        /\ arrived + n - (arrived + 1) + 1 = n
    BY <1>1, <1>2, <1>3
  <2> DEFINE i == arrived + 1
             j == arrived + n
  <2> HIDE DEF i, j
  <2>2. SubSeq(w, i, j) \in Seq(STRING) /\ Len(SubSeq(w, i, j)) = j - i + 1
    BY <1>1, <2>1, SubSeqProperties DEF i, j
  <2>3. j - i + 1 = n
    BY ONLY <1>1, <1>3 DEF i, j
  <2>4. d = SubSeq(w, i, j)
    BY DEF i, j
  <2> HIDE DEF d
  <2> QED
    BY <2>2, <2>3, <2>4
<1> HIDE DEF d
<1>5. Bytes(d) /\ d # <<>>
  <2>1. d \in Seq(Byte)
    BY <1>4 DEF Byte
  <2> QED
    BY <1>3, <1>4, <2>1, EmptySeq DEF Bytes
<1>6. arrived + n \in Nat
  BY <1>1, <1>3
<1>7. InCall(parser, d, phase')
  BY <1>2, <1>5 DEF InCall, ParserInv, Kept
<1> QED
  BY <1>2, <1>6, <1>7 DEF ParserInv

(* More of a body of known length.                                         *)
LEMMA BodyKeeps ==
    ASSUME ParserInv, Body
    PROVE  ParserInv' /\ Shortens
<1> DEFINE q == LengthPiece(parser, data)
           size == parser.left.size
<1>1. /\ Bytes(data) /\ IsParser(parser) /\ Kept(parser) /\ phase = "body"
      /\ parser.state = 200 /\ parser.fallback = <<>> /\ ~parser.left.chunked
      /\ ~parser.left.hasSize /\ size \in Nat /\ Len(data) \in Nat
  BY SomeData DEF ParserInv, InCall, Kept, Body, IsChunked, IsParser, Left
<1>2. /\ IsParser(q) /\ q.fallback = parser.fallback /\ q.state = parser.state
      /\ q.left.size = IF size <= Len(data) THEN 0 ELSE size - Len(data)
      /\ q.left.chunked = parser.left.chunked /\ q.left.hasSize = parser.left.hasSize
  BY <1>1, LengthPieceIs
<1> HIDE DEF q, size
<1>3. Kept(q)
  <2>1. ~q.left.hasSize
    BY <1>1, <1>2
  <2> QED
    BY <1>1, <1>2, <2>1, KeptAs
<1> DEFINE left == HandlerLeaves(q)
<1>4. CASE Return(left)
  <2>1. /\ IsParser(left) /\ left.fallback = q.fallback /\ left.left = q.left
    BY <1>2 DEF HandlerLeaves, IsParser
  <2>2. Kept(left)
    BY <1>3, <2>1, KeptAs DEF Kept
  <2> HIDE DEF left
  <2> QED
    BY <1>4, <2>2, ReturnKeeps
<1> HIDE DEF left
<1>5. CASE size >= Len(data) /\ Return(q)
  BY <1>3, <1>5, ReturnKeeps
<1>6. CASE ~(size >= Len(data)) /\ Go(q, Rest(size), "heads")
  <2>1. Go(q, Rest(size), "heads")
    BY <1>6
  <2>2. size \in 0..Len(data) /\ q.left.size = 0
    BY <1>1, <1>2, <1>6
  <2>3. q.left = NoBody
    BY <1>1, <1>2, <2>2 DEF IsParser, Left, NoBody
  <2> QED
    BY <1>1, <1>2, <1>3, <2>1, <2>2, <2>3, GoKeeps
<1>7. Return(left) \/ (IF size >= Len(data) THEN Return(q) ELSE Go(q, Rest(size), "heads"))
  BY DEF Body, q, size, left
<1> QED
  BY <1>4, <1>5, <1>6, <1>7

(* The chunks of what arrived are all consumed.                            *)
LEMMA ChunksDoneKeeps ==
    ASSUME ParserInv, ChunksDone
    PROVE  ParserInv' /\ Shortens
<1>1. /\ Bytes(data) /\ Kept(parser) /\ phase = "body" /\ data = <<>>
      /\ parser.state = 200 /\ parser.fallback = <<>>
      /\ Go(parser, data, "heads")
  BY DEF ParserInv, InCall, ChunksDone, InChunks
<1>2. Len(data) = 0 /\ Rest(Len(data)) = data
  BY <1>1, RestOfAll
<1>3. Len(data) \in 0..Len(data) /\ Go(parser, Rest(Len(data)), "heads")
  BY <1>1, <1>2
<1> QED
  BY <1>1, <1>3, GoKeeps

(* The bytes behind the last chunk are dropped.                            *)
LEMMA DropTrailerKeeps ==
    ASSUME ParserInv, DropTrailer
    PROVE  ParserInv' /\ Shortens
<1> DEFINE size == parser.left.size
           n == Min({size, Len(data)})
<1>1. /\ Bytes(data) /\ IsParser(parser) /\ Kept(parser) /\ phase = "body"
      /\ parser.state = 200 /\ parser.fallback = <<>> /\ data # <<>>
      /\ parser.left.hasSize /\ size \in Nat /\ size # 0
      /\ Len(data) \in Nat /\ Len(data) # 0
  BY SomeData DEF ParserInv, InCall, Kept, DropTrailer, InChunks, Trailing, IsParser, Left
<1>2. n = IF size <= Len(data) THEN size ELSE Len(data)
  BY <1>1, MinTwo
<1> HIDE DEF n
<1>3. IF n = size THEN Go([parser EXCEPT !.left = NoBody], Rest(n), "heads")
      ELSE Go(DecChunkSize(parser, n), Rest(n), "body")
  BY DEF DropTrailer, n
<1>4. n \in 0..Len(data) /\ n # 0
  BY <1>1, <1>2
<1>5. CASE n = size
  <2> DEFINE q == [parser EXCEPT !.left = NoBody]
  <2>1. NoBody \in Left /\ ~NoBody.hasSize
    BY DEF NoBody, Left
  <2>2. /\ IsParser(q) /\ q.fallback = parser.fallback
        /\ q.left = NoBody /\ q.state = parser.state
    BY <1>1, <2>1, LeftIs
  <2>3. Go(q, Rest(n), "heads")
    BY <1>3, <1>5
  <2> HIDE DEF q
  <2>4. Kept(q)
    BY <1>1, <2>1, <2>2, KeptAs
  <2> QED
    BY <1>1, <1>4, <2>2, <2>3, <2>4, GoKeeps
<1>6. CASE n # size
  <2> DEFINE m == size - n
             q == SetSize(parser, m)
             l == [parser.left EXCEPT !.size = m]
  <2>1. m \in Nat /\ m # 0
    BY <1>1, <1>2, <1>6
  <2>2. Go(q, Rest(n), "body")
    BY <1>3, <1>6 DEF DecChunkSize, SetSize
  <2> HIDE DEF m
  <2>3. /\ IsParser(q) /\ q.fallback = parser.fallback /\ q.state = parser.state
        /\ q.left = l /\ l.size = m
    BY <1>1, <2>1, SizeIs
  <2> HIDE DEF q, l
  <2>4. Kept(q)
    BY <1>1, <2>1, <2>3, KeptAs
  <2> QED
    BY <1>1, <1>4, <2>2, <2>3, <2>4, GoKeeps
<1> QED
  BY <1>5, <1>6

(* A chunk, or a piece of it.                                              *)
LEMMA ChunkKeeps ==
    ASSUME ParserInv, Chunk
    PROVE  ParserInv' /\ Shortens
<1> DEFINE size == parser.left.size
<1>1. /\ Bytes(data) /\ IsParser(parser) /\ Kept(parser) /\ phase = "body"
      /\ parser.state = 200 /\ parser.fallback = <<>> /\ data # <<>>
      /\ parser.left.hasSize /\ size \in Nat /\ size # 0
      /\ Len(data) \in Nat /\ Len(data) # 0
  BY SomeData DEF ParserInv, InCall, Kept, Chunk, InChunks, IsParser, Left
<1>2. CASE Len(data) >= size
  <2> DEFINE e == ChunkPiece(parser, SubSeq(data, 1, size))
             q == [e EXCEPT !.left = ChunkedBody]
  <2>1. ChunkedBody \in Left /\ ~ChunkedBody.hasSize
    BY DEF ChunkedBody, NoBody, Left
  <2>2. /\ IsParser(e) /\ e.fallback = parser.fallback /\ e.state = parser.state
    BY <1>1, ChunkPieceIs
  <2>3. Go(q, Rest(size), "body")
    BY <1>2 DEF Chunk
  <2> HIDE DEF e
  <2>4. /\ IsParser(q) /\ q.fallback = e.fallback
        /\ q.left = ChunkedBody /\ q.state = e.state
    BY <2>1, <2>2, LeftIs
  <2> HIDE DEF q
  <2>5. Kept(q)
    BY <1>1, <2>1, <2>2, <2>4, KeptAs
  <2>6. size \in 0..Len(data)
    BY <1>1, <1>2
  <2> QED
    BY <1>1, <2>2, <2>3, <2>4, <2>5, <2>6, GoKeeps
<1>3. CASE ~(Len(data) >= size)
  <2> DEFINE e == ChunkPiece(parser, data)
             m == e.left.size - Len(data)
             q == SetSize(e, m)
             l == [e.left EXCEPT !.size = m]
  <2>1. /\ IsParser(e) /\ e.fallback = parser.fallback /\ e.state = parser.state
        /\ e.left = parser.left
    BY <1>1, ChunkPieceIs
  <2>2. Go(q, <<>>, "body")
    BY <1>3 DEF Chunk, DecChunkSize, SetSize
  <2> HIDE DEF e
  <2>3. m \in Nat /\ m # 0
    BY <1>1, <1>3, <2>1
  <2> HIDE DEF m
  <2>4. /\ IsParser(q) /\ q.fallback = e.fallback /\ q.state = e.state
        /\ q.left = l /\ l.size = m
    BY <2>1, <2>3, SizeIs
  <2> HIDE DEF q, l
  <2>5. Kept(q)
    BY <1>1, <2>1, <2>3, <2>4, KeptAs
  <2>6. Len(data) \in 0..Len(data) /\ Go(q, Rest(Len(data)), "body")
    BY <1>1, <2>2, RestOfAll
  <2> QED
    BY <1>1, <2>1, <2>4, <2>5, <2>6, GoKeeps
<1> QED
  BY <1>2, <1>3

(* The size of a chunk: its digits and the end of the line are in the data *)
(* or all of it is consumed.                                               *)
LEMMA ChunkSizeKeeps ==
    ASSUME ParserInv, ChunkSize
    PROVE  ParserInv' /\ Shortens
<1> DEFINE buf == Append(data, "LF")
           stop == ScanTo(buf, 1, Low)
           digits == stop - 1
           line == ScanTo(buf, digits + 1, {"LF"})
           ds == SubSeq(data, 1, digits)
           size == ConsumeHexNumber(parser.left.size, ds)
<1>1. /\ Bytes(data) /\ IsParser(parser) /\ Kept(parser) /\ phase = "body"
      /\ parser.state = 200 /\ parser.fallback = <<>> /\ data # <<>>
      /\ ~parser.left.hasSize /\ parser.left.size \in Nat /\ parser.left \in Left
      /\ Len(data) \in Nat /\ Len(data) # 0
  BY SomeData DEF ParserInv, InCall, Kept, ChunkSize, InChunks, IsParser, Left
<1>2. Bytes(buf) /\ Len(buf) = Len(data) + 1 /\ buf[Len(data) + 1] = "LF"
  <2>1. "LF" \in Byte /\ data \in Seq(Byte)
    BY <1>1 DEF Byte, Bytes
  <2> QED
    BY <2>1, AppendProperties DEF Bytes
<1>3. IF size < 0 THEN Return(Refuse(parser, 400))
      ELSE IF line > Len(data)
      THEN Go([parser EXCEPT !.left.size = size, !.left.chunked = TRUE], <<>>, "body")
      ELSE Go(Sized(parser, size), Rest(line), "body")
  BY DEF ChunkSize
<1> HIDE DEF buf
<1>4. stop \in Nat /\ 1 <= stop /\ stop <= Len(data) + 1
  <2>1. 1 \in Nat /\ 1 <= Len(buf) + 1
    BY <1>1, <1>2
  <2>2. /\ stop \in Nat /\ 1 <= stop /\ stop <= Len(buf) + 1
        /\ \A j \in 1..stop - 1 : buf[j] \notin Low
    BY <1>2, <2>1, ScanIs
  <2> HIDE DEF stop
  <2>3. ~(Len(data) + 1 \in 1..stop - 1)
    BY <1>2, <2>2 DEF Low
  <2> QED
    BY <1>1, <1>2, <2>2, <2>3
<1>5. digits \in 0..Len(data) /\ digits + 1 = stop
  <2> HIDE DEF stop
  <2> QED
    BY <1>1, <1>4
<1>6. line \in Nat /\ 1 <= line
  <2>1. stop <= Len(buf) + 1
    BY <1>1, <1>2, <1>4
  <2> HIDE DEF stop
  <2>2. ScanTo(buf, stop, {"LF"}) \in Nat /\ stop <= ScanTo(buf, stop, {"LF"})
    BY <1>2, <1>4, <2>1, ScanIs
  <2>3. line = ScanTo(buf, stop, {"LF"})
    BY <1>5
  <2> HIDE DEF line
  <2> QED
    BY <1>4, <2>2, <2>3
<1> HIDE DEF stop, digits, line
<1>7. size \in Int
  <2>1. Bytes(ds)
    BY <1>1, <1>5, PieceIs
  <2> HIDE DEF ds
  <2> QED
    BY <1>1, <2>1, HexType
<1> HIDE DEF size
<1>8. CASE size < 0
  <2> DEFINE q == Refuse(parser, 400)
  <2>1. /\ IsParser(q) /\ q.fallback = parser.fallback
        /\ q.left = parser.left /\ q.state = 400
    BY <1>1 DEF Refuse, IsParser
  <2>2. Return(q)
    BY <1>3, <1>8
  <2> HIDE DEF q
  <2>3. Kept(q)
    BY <1>1, <2>1, KeptAs
  <2> QED
    BY <2>2, <2>3, ReturnKeeps
<1>9. CASE ~(size < 0) /\ line > Len(data)
  <2> DEFINE l == Counted(parser.left, size)
             q == [parser EXCEPT !.left = l]
  <2>1. l \in Left /\ ~l.hasSize
    <3>1. size \in Nat
      BY <1>7, <1>9
    <3> QED
      <4> DEFINE x == parser.left
      <4>2. x \in Left
        BY <1>1
      <4>3. l = Counted(x, size)
        OBVIOUS
      <4> HIDE DEF x, l
      <4>4. Counted(x, size) \in Left /\ Counted(x, size).hasSize = x.hasSize
        BY ONLY <3>1, <4>2, CountedIs
      <4>1. l \in Left /\ l.hasSize = parser.left.hasSize
        BY <4>3, <4>4 DEF x
      <4> QED
        BY <1>1, <4>1
  <2>2. [parser EXCEPT !.left.size = size, !.left.chunked = TRUE] = q
    BY <1>1 DEF IsParser, Counted
  <2>3. Go(q, <<>>, "body")
    BY <1>3, <1>9, <2>2
  <2> HIDE DEF l
  <2>4. /\ IsParser(q) /\ q.fallback = parser.fallback
        /\ q.left = l /\ q.state = parser.state
    BY <1>1, <2>1, LeftIs
  <2> HIDE DEF q
  <2>5. Kept(q)
    BY <1>1, <2>1, <2>4, KeptAs
  <2>6. Len(data) \in 0..Len(data) /\ Go(q, Rest(Len(data)), "body")
    BY <1>1, <2>3, RestOfAll
  <2> QED
    BY <1>1, <2>4, <2>5, <2>6, GoKeeps
<1>10. CASE ~(size < 0) /\ ~(line > Len(data))
  <2> DEFINE q == Sized(parser, size)
             e == Emit(parser, <<>>, TRUE)
             l == IF size = 0 THEN Trailer ELSE ChunkOf(size + 2)
             p == IF size = 0 THEN e ELSE parser
  <2>1. l \in Left /\ l.size # 0
    <3>1. size + 2 \in Nat /\ size + 2 # 0
      BY <1>7, <1>10
    <3>2. CASE size = 0
      BY <3>2, TrailerIs
    <3>3. CASE size # 0
      BY <3>1, <3>3, ChunkOfIs
    <3> QED
      BY <3>2, <3>3
  <2>2. q = [p EXCEPT !.left = l]
    BY DEF Sized, Trailer, ChunkOf
  <2>3. /\ IsParser(p) /\ p.fallback = parser.fallback /\ p.state = parser.state
    BY <1>1 DEF Emit, IsParser
  <2>4. Go(q, Rest(line), "body")
    BY <1>3, <1>10
  <2> HIDE DEF l, p, q
  <2>5. /\ IsParser(q) /\ q.fallback = p.fallback
        /\ q.left = l /\ q.state = p.state
    BY <2>1, <2>2, <2>3, LeftIs
  <2>6. Kept(q)
    BY <1>1, <2>1, <2>3, <2>5, KeptAs
  <2>7. line \in 0..Len(data) /\ line # 0
    BY <1>1, <1>6, <1>10
  <2> QED
    BY <1>1, <2>3, <2>4, <2>5, <2>6, <2>7, GoKeeps
<1> QED
  BY <1>8, <1>9, <1>10

-----------------------------------------------------------------------------
(* The heads.                                                              *)

(* A head that is not complete, no body, and one in chunks.                *)
LEMMA ResultTypes ==
    /\ More.consumed = 0 /\ More.err = 0 /\ More.headers = <<>>
    /\ NoBody \in Left /\ NoBody.size = 0 /\ ~NoBody.chunked /\ ~NoBody.hasSize
    /\ ChunkedBody \in Left /\ ChunkedBody.chunked /\ ~ChunkedBody.hasSize
BY DEF More, NoBody, ChunkedBody, Left

(* A body of known length begins.                                          *)
LEMMA WithLengthIs ==
    ASSUME NEW p, IsParser(p), NEW hs, NEW n \in Nat,
           n = ToUnsignedInteger(GetHeader(hs, "l"))
    PROVE  LET q == WithLength(p, hs)
           IN  /\ IsParser(q) /\ q.fallback = p.fallback /\ q.state = p.state
               /\ q.left \in Left /\ q.left.size = n
               /\ q.left.chunked = p.left.chunked /\ q.left.hasSize = p.left.hasSize
<1> DEFINE q == SetSize(p, n)
           l == [p.left EXCEPT !.size = n]
<1>1. /\ IsParser(q) /\ q.fallback = p.fallback /\ q.state = p.state
      /\ q.left = l /\ l \in Left /\ l.size = n
      /\ l.chunked = p.left.chunked /\ l.hasSize = p.left.hasSize
  BY SizeIs
<1>2. WithLength(p, hs) = q
  BY DEF WithLength, SetSize
<1> HIDE DEF q, l
<1> QED
  BY <1>1, <1>2

(* A body begins, and none begins in a request that is refused.            *)
LEMMA BeginMinimallyIs ==
    ASSUME NEW p, IsParser(p), p.left = NoBody, p.state = 200, NEW hs
    PROVE  LET q == BeginMinimally(p, hs)
           IN  /\ IsParser(q) /\ q.fallback = p.fallback /\ ~q.left.hasSize
               /\ q.state = 200 \/ q.left = NoBody
               /\ HasBody(hs, "t") => q.left.chunked
               /\ ~HasBody(hs, "t") /\ ~HasBody(hs, "l") => q.left = NoBody
               /\ ~HasBody(hs, "t") /\ HasBody(hs, "l")
                  /\ ToUnsignedInteger(GetHeader(hs, "l")) < 0 => q.state # 200
<1> DEFINE n == ToUnsignedInteger(GetHeader(hs, "l"))
           q == BeginMinimally(p, hs)
<1>1. CASE HasBody(hs, "t")
  <2> DEFINE r == [p EXCEPT !.left = ChunkedBody]
  <2>1. q = r
    BY <1>1 DEF BeginMinimally
  <2>2. /\ IsParser(r) /\ r.fallback = p.fallback
        /\ r.left = ChunkedBody /\ r.state = p.state
    BY ResultTypes, LeftIs
  <2> HIDE DEF q, r
  <2> QED
    BY <1>1, <2>1, <2>2, ResultTypes DEF q
<1>2. CASE ~HasBody(hs, "t") /\ HasBody(hs, "l") /\ n < 0
  <2> DEFINE r == Refuse(p, 400)
  <2>1. q = r
    BY <1>2 DEF BeginMinimally
  <2>2. /\ IsParser(r) /\ r.fallback = p.fallback
        /\ r.left = p.left /\ r.state = 400
    BY DEF Refuse, IsParser
  <2> HIDE DEF q, r, n
  <2> QED
    BY <1>2, <2>1, <2>2, ResultTypes DEF q
<1>3. CASE ~HasBody(hs, "t") /\ HasBody(hs, "l") /\ ~(n < 0)
  <2> DEFINE r == WithLength(p, hs)
  <2>1. q = r
    BY <1>3 DEF BeginMinimally
  <2>2. n \in Int /\ n \in Nat
    BY <1>3, UnsignedType
  <2>3. PICK m \in Nat : m = n
    BY <2>2
  <2>4. /\ IsParser(r) /\ r.fallback = p.fallback /\ r.state = p.state
        /\ r.left.hasSize = p.left.hasSize
    BY <2>3, WithLengthIs
  <2> HIDE DEF q, r
  <2> QED
    BY <1>3, <2>1, <2>4, ResultTypes DEF q
<1>4. CASE ~HasBody(hs, "t") /\ ~HasBody(hs, "l")
  <2> DEFINE r == Emit(p, <<>>, TRUE)
  <2>1. q = r
    BY <1>4 DEF BeginMinimally
  <2>2. /\ IsParser(r) /\ r.fallback = p.fallback
        /\ r.left = p.left /\ r.state = p.state
    BY DEF Emit, IsParser
  <2> HIDE DEF q, r
  <2> QED
    BY <1>4, <2>1, <2>2, ResultTypes DEF q
<1> QED
  BY <1>1, <1>2, <1>3, <1>4

(* What belongs to a body of known length is taken from the rest: the body *)
(* is complete, or nothing remains.                                        *)
LEMMA BeginIs ==
    ASSUME NEW p, IsParser(p), p.left = NoBody, p.state = 200, NEW hs,
           NEW rest, Bytes(rest), ~(HasBody(hs, "t") /\ HasBody(hs, "l"))
    PROVE  LET q == Begin(p, hs, rest)
               m == Emittable(hs, rest)
           IN  /\ IsParser(q) /\ q.fallback = p.fallback /\ ~q.left.hasSize
               /\ q.state = 200 \/ q.left = NoBody
               /\ q.state = 200 /\ ~IsChunked(q.left) =>
                     /\ m \in 0..Len(rest)
                     /\ q.left = NoBody \/ m = Len(rest)
<1> DEFINE n == ToUnsignedInteger(GetHeader(hs, "l"))
           q == Begin(p, hs, rest)
           m == Emittable(hs, rest)
<1>1. Len(rest) \in Nat /\ n \in Int
  BY LenProperties, UnsignedType DEF Bytes
<1>2. CASE HasBody(hs, "l") /\ ~HasBody(hs, "t") /\ n >= 0
  <2> DEFINE w == WithLength(p, hs)
             r == LengthPiece(w, rest)
  <2>1. q = r
    BY <1>2 DEF Begin
  <2>2. n \in Nat
    BY <1>1, <1>2
  <2>3. PICK x \in Nat : x = n
    BY <2>2
  <2>4. /\ IsParser(w) /\ w.fallback = p.fallback /\ w.state = p.state
        /\ w.left.size = x
        /\ w.left.chunked = p.left.chunked /\ w.left.hasSize = p.left.hasSize
    BY <2>3, WithLengthIs
  <2> HIDE DEF w
  <2>5. /\ IsParser(r) /\ r.fallback = w.fallback /\ r.state = w.state
        /\ r.left.size = IF w.left.size <= Len(rest) THEN 0 ELSE w.left.size - Len(rest)
        /\ r.left.chunked = w.left.chunked /\ r.left.hasSize = w.left.hasSize
    BY <2>4, LengthPieceIs
  <2>6. m = IF x <= Len(rest) THEN x ELSE Len(rest)
    <3>1. m = Min({n, Len(rest)})
      BY <1>2 DEF Emittable
    <3>2. m = Min({x, Len(rest)})
      BY <2>3, <3>1
    <3> HIDE DEF m, n
    <3> QED
      BY <1>1, <3>2, MinTwo
  <2> HIDE DEF r, m, n, q
  <2>7. m \in 0..Len(rest) /\ (x <= Len(rest) \/ m = Len(rest))
    BY <1>1, <2>6
  <2>8. x <= Len(rest) => q.left = NoBody
    <3>1. /\ q.left \in Left /\ ~q.left.chunked /\ ~q.left.hasSize
      BY <2>1, <2>4, <2>5, ResultTypes DEF IsParser
    <3>2. x <= Len(rest) => q.left.size = 0
      BY <2>1, <2>4, <2>5
    <3> QED
      BY <3>1, <3>2 DEF Left, NoBody
  <2>9. IsParser(q) /\ q.fallback = p.fallback /\ ~q.left.hasSize /\ q.state = 200
    BY <2>1, <2>4, <2>5, ResultTypes
  <2> QED
    BY <2>7, <2>8, <2>9 DEF q, m
<1>3. CASE ~(HasBody(hs, "l") /\ ~HasBody(hs, "t") /\ n >= 0)
  <2> DEFINE r == BeginMinimally(p, hs)
  <2>1. q = r
    BY <1>3 DEF Begin
  <2>2. /\ IsParser(r) /\ r.fallback = p.fallback /\ ~r.left.hasSize
        /\ r.state = 200 \/ r.left = NoBody
        /\ HasBody(hs, "t") => r.left.chunked
        /\ ~HasBody(hs, "t") /\ ~HasBody(hs, "l") => r.left = NoBody
        /\ ~HasBody(hs, "t") /\ HasBody(hs, "l") /\ n < 0 => r.state # 200
    BY BeginMinimallyIs
  <2>3. ~HasBody(hs, "t") /\ ~HasBody(hs, "l") => m = 0 /\ 0 \in 0..Len(rest)
    BY <1>1 DEF Emittable
  <2>4. n >= 0 \/ n < 0
    BY <1>1
  <2> HIDE DEF r, m, n, q
  <2>5. q.state = 200 /\ ~IsChunked(q.left) => ~HasBody(hs, "t") /\ ~HasBody(hs, "l")
    BY <1>3, <2>1, <2>2, <2>4 DEF IsChunked
  <2> QED
    BY <2>1, <2>2, <2>3, <2>5 DEF q, m
<1> QED
  BY <1>2, <1>3

(* What is copied to the fallback goes on where it ends.                   *)
LEMMA CopiedIs ==
    ASSUME ParserInv
    PROVE  /\ Bytes(Copied) /\ Len(Copied) \in Nat /\ Len(parser.fallback) \in Nat
           /\ Bytes(parser.fallback)
           /\ Len(parser.fallback) <= Len(Copied)
           /\ Len(Copied) <= Len(parser.fallback) + Len(data)
           /\ Len(Copied) <= MaxFallback
           /\ \A j \in 1..Len(parser.fallback) : parser.fallback[j] = Copied[j]
<1> DEFINE fb == parser.fallback
           room == MaxFallback - Len(fb)
           n == Min({room, Len(data)})
           s == SubSeq(data, 1, n)
<1>1. /\ Bytes(data) /\ fb \in Seq(Byte) /\ Len(fb) \in Nat /\ Len(fb) < MaxFallback
      /\ MaxFallback \in Nat /\ Len(data) \in Nat
  BY ParserAssumption, SomeData, LenProperties DEF ParserInv, InCall, Kept, IsParser
<1> HIDE DEF fb
<1>2. room \in Nat
  BY <1>1
<1>3. n = IF room <= Len(data) THEN room ELSE Len(data)
  <2> HIDE DEF room
  <2> QED
    BY <1>1, <1>2, MinTwo
<1> HIDE DEF n
<1>4. n \in 0..Len(data) /\ n <= room
  BY <1>1, <1>2, <1>3
<1>5. Bytes(s) /\ Len(s) = n
  BY <1>1, <1>4, PieceIs
<1> HIDE DEF s
<1>6. /\ fb \o s \in Seq(Byte) /\ Len(fb \o s) = Len(fb) + n
      /\ \A j \in 1..Len(fb) + n :
            (fb \o s)[j] = IF j <= Len(fb) THEN fb[j] ELSE s[j - Len(fb)]
  BY <1>1, <1>5, ConcatProperties DEF Bytes
<1>7. Copied = fb \o s
  BY DEF Copied, fb, s, n
<1> DEFINE c == fb \o s
<1> HIDE DEF c
<1>8. c \in Seq(Byte) /\ Len(c) = Len(fb) + n /\ Copied = c
      /\ \A j \in 1..Len(fb) + n : c[j] = IF j <= Len(fb) THEN fb[j] ELSE s[j - Len(fb)]
  BY <1>6, <1>7 DEF c
<1>9. \A j \in 1..Len(fb) : fb[j] = c[j]
  BY <1>1, <1>4, <1>8
<1>10. /\ Len(c) \in Nat /\ Len(fb) <= Len(c)
       /\ Len(c) <= Len(fb) + Len(data) /\ Len(c) <= MaxFallback
  BY <1>1, <1>4, <1>8
<1> QED
  BY <1>1, <1>8, <1>9, <1>10 DEF fb, Bytes

(* A pass over the fallback: what was in it before has no complete head,   *)
(* so that a head that is found ends in the new data.                      *)
LEMMA FallbackKeeps ==
    ASSUME ParserInv, Fallback
    PROVE  ParserInv' /\ Shortens
<1> DEFINE fb == parser.fallback
           c == Copied
<1>1. /\ Bytes(data) /\ IsParser(parser) /\ Kept(parser) /\ parser.state = 200
      /\ phase = "fallback" /\ parser.left = NoBody /\ data # <<>>
      /\ Len(data) \in Nat /\ MaxFallback \in Nat
  BY SomeData, ParserAssumption DEF ParserInv, InCall, Kept, Fallback
<1>2. /\ Bytes(c) /\ Len(c) \in Nat /\ Len(fb) \in Nat /\ Bytes(fb)
      /\ Len(fb) <= Len(c) /\ Len(c) <= Len(fb) + Len(data) /\ Len(c) <= MaxFallback
      /\ \A j \in 1..Len(fb) : fb[j] = c[j]
  BY CopiedIs
<1> DEFINE found == GetHeaders(Fenced(c))
           p == Requested(parser, found.headers)
<1>3. \/ FallbackWaits(found) \/ FallbackRefused(found)
      \/ \E begun \in {BeginMinimally(p, found.headers), HandlerLeaves(p)} :
            FallbackParsed(found, begun)
  BY DEF Fallback
<1>4. CASE FallbackWaits(found)
  <2> DEFINE q == [parser EXCEPT !.fallback = c]
             r == Refuse(parser, 431)
  <2>1. /\ IsParser(q) /\ q.fallback = c /\ q.left = parser.left
    BY <1>1, <1>2 DEF IsParser, Bytes
  <2>2. /\ IsParser(r) /\ r.fallback = fb /\ r.left = parser.left
    BY <1>1 DEF Refuse, IsParser
  <2>3. found.consumed = 0 /\ Return(IF Len(c) = MaxFallback THEN r ELSE q)
    BY <1>4 DEF FallbackWaits
  <2> HIDE DEF c, q, r
  <2>4. CASE Len(c) = MaxFallback
    <3>1. Kept(r)
      BY <1>1, <2>2, ResultTypes, KeptAs DEF fb
    <3> QED
      BY <2>3, <2>4, <3>1, ReturnKeeps
  <2>5. CASE Len(c) # MaxFallback
    <3>1. Len(c) < MaxFallback
      BY <1>1, <1>2, <2>5
    <3>2. Kept(q)
      BY <1>1, <2>1, <2>3, <3>1, ResultTypes DEF Kept
    <3> QED
      BY <2>3, <2>5, <3>2, ReturnKeeps
  <2> QED
    BY <2>4, <2>5
<1>5. CASE FallbackRefused(found)
  <2> DEFINE code == IF found.err # 0 THEN found.err ELSE 400
             r == Refuse(parser, code)
  <2>1. Return(r)
    BY <1>5 DEF FallbackRefused
  <2> HIDE DEF code
  <2>3. /\ IsParser(r) /\ r.fallback = parser.fallback /\ r.left = parser.left
    BY <1>1, RefuseIs
  <2> HIDE DEF r
  <2>4. Kept(r)
    BY <1>1, <2>3, ResultTypes, KeptAs
  <2> QED
    BY <2>1, <2>4, ReturnKeeps
<1>6. ASSUME NEW begun \in {BeginMinimally(p, found.headers), HandlerLeaves(p)},
             FallbackParsed(found, begun)
      PROVE  ParserInv' /\ Shortens
  <2> DEFINE q == [begun EXCEPT !.fallback = <<>>]
             n == found.consumed - Len(fb)
             to == IF begun.left # NoBody THEN "body" ELSE "heads"
  <2>1. /\ IsParser(p) /\ p.fallback = fb /\ p.left = NoBody /\ p.state = 200
    BY <1>1, RequestedIs
  <2>2. found.consumed > 0 /\ IF begun.state # 200 THEN Return(begun) ELSE Go(q, Rest(n), to)
    BY <1>6 DEF FallbackParsed
  <2>3. /\ IsParser(begun) /\ begun.fallback = fb /\ ~begun.left.hasSize
        /\ begun.state = 200 \/ begun.left = NoBody
    <3> HIDE DEF found, p, fb
    <3>1. CASE begun = BeginMinimally(p, found.headers)
      BY <2>1, <3>1, BeginMinimallyIs
    <3>2. CASE begun = HandlerLeaves(p)
      <4>1. /\ IsParser(begun) /\ begun.fallback = p.fallback /\ begun.left = p.left
        BY <2>1, <3>2 DEF HandlerLeaves, IsParser
      <4> QED
        BY <2>1, <4>1, ResultTypes
    <3> QED
      BY <1>6, <3>1, <3>2
  <2>4. found.consumed \in Nat /\ found.consumed <= Len(c)
    BY <1>2, <2>2, HeadIs
  <2>5. n \in 0..Len(data) /\ n # 0
    <3>1. ~(found.consumed <= Len(fb))
      <4> SUFFICES ASSUME found.consumed \in 1..Len(fb) PROVE FALSE
        BY <1>2, <2>2, <2>4
      <4>1. GetHeaders(Fenced(fb)).consumed = found.consumed
        BY <1>2, HeadSame
      <4>2. GetHeaders(Fenced(fb)).consumed = 0
        BY <1>1 DEF Kept
      <4> HIDE DEF found
      <4> QED
        BY <2>2, <4>1, <4>2
    <3> HIDE DEF found, c, fb
    <3> QED
      BY <1>1, <1>2, <2>4, <3>1
  <2> HIDE DEF n, q, found, p, c
  <2>6. CASE begun.state # 200
    <3>1. Kept(begun)
      BY <1>1, <2>3, <2>6, KeptAs DEF fb
    <3> QED
      BY <2>2, <2>6, <3>1, ReturnKeeps
  <2>7. CASE begun.state = 200
    <3>1. /\ IsParser(q) /\ q.fallback = <<>> /\ q.left = begun.left /\ q.state = begun.state
      BY <2>3, EmptySeq DEF IsParser, q
    <3>2. Kept(q)
      <4>1. 0 < MaxFallback
        BY <1>1, ParserAssumption
      <4> QED
        BY <2>3, <3>1, <4>1, NoHead DEF Kept
    <3>3. Go(q, Rest(n), to) /\ to \in {"heads", "body"} /\ (to = "heads" => q.left = NoBody)
      BY <2>2, <2>7, <3>1
    <3> HIDE DEF to
    <3> QED
      BY <2>5, <2>7, <3>1, <3>2, <3>3, GoKeeps
  <2> QED
    BY <2>6, <2>7
<1> QED
  BY <1>3, <1>4, <1>5, <1>6

(* A pass over the data itself.                                            *)
LEMMA HeadsKeeps ==
    ASSUME ParserInv, Heads
    PROVE  ParserInv' /\ Shortens
<1>1. /\ Bytes(data) /\ IsParser(parser) /\ Kept(parser) /\ parser.state = 200
      /\ phase = "heads" /\ parser.fallback = <<>>
      /\ data # <<>> => parser.left = NoBody
      /\ Len(data) \in Nat /\ MaxFallback \in Nat /\ 0 < MaxFallback
  BY SomeData, ParserAssumption DEF ParserInv, InCall, Kept, Heads
<1> DEFINE found == IF data = <<>> THEN More ELSE GetHeaders(Fenced(data))
           p == Requested(parser, found.headers)
<1>2. \/ HeadWaits(found) \/ HeadRefused(found)
      \/ \E begun \in {Begin(p, found.headers, Rest(found.consumed)), HandlerLeaves(p)} :
            HeadParsed(found, begun)
  BY DEF Heads
<1>3. CASE HeadWaits(found)
  <2> DEFINE q == [parser EXCEPT !.fallback = parser.fallback \o data]
             r == Refuse(parser, 431)
  <2>1. found.consumed = 0 /\ Return(IF Len(data) < MaxFallback THEN q ELSE r)
    BY <1>3 DEF HeadWaits
  <2>2. parser.fallback \o data = data
    BY <1>1, EmptySeq, ConcatEmptySeq DEF Bytes
  <2>3. /\ IsParser(q) /\ q.fallback = data /\ q.left = parser.left
    BY <1>1, <2>2 DEF IsParser, Bytes
  <2>4. /\ IsParser(r) /\ r.fallback = <<>> /\ r.left = parser.left
    BY <1>1 DEF Refuse, IsParser
  <2>5. GetHeaders(Fenced(data)).consumed = 0
    <3>1. CASE data = <<>>
      BY <3>1, NoHead
    <3>2. CASE data # <<>>
      BY <2>1, <3>2
    <3> QED
      BY <3>1, <3>2
  <2> HIDE DEF q, r
  <2>6. CASE Len(data) < MaxFallback
    <3>1. Kept(q)
      BY <1>1, <2>3, <2>5, <2>6, ResultTypes DEF Kept
    <3> QED
      BY <2>1, <2>6, <3>1, ReturnKeeps
  <2>7. CASE ~(Len(data) < MaxFallback)
    <3>1. Kept(r)
      BY <1>1, <2>4 DEF Kept
    <3> QED
      BY <2>1, <2>7, <3>1, ReturnKeeps
  <2> QED
    BY <2>6, <2>7
<1>4. CASE HeadRefused(found)
  <2> DEFINE code == IF found.err # 0 THEN found.err
                     ELSE IF found.consumed > MaxFallback THEN 431 ELSE 400
             r == Refuse(parser, code)
  <2>1. Return(r)
    BY <1>4 DEF HeadRefused
  <2> HIDE DEF code
  <2>3. /\ IsParser(r) /\ r.fallback = parser.fallback /\ r.left = parser.left
    BY <1>1, RefuseIs
  <2> HIDE DEF r
  <2>4. Kept(r)
    BY <1>1, <2>3 DEF Kept
  <2> QED
    BY <2>1, <2>4, ReturnKeeps
<1>5. ASSUME NEW begun \in {Begin(p, found.headers, Rest(found.consumed)), HandlerLeaves(p)},
             HeadParsed(found, begun)
      PROVE  ParserInv' /\ Shortens
  <2> DEFINE k == found.consumed
             hs == found.headers
             m == Emittable(hs, Rest(k))
  <2>1. /\ k \in 1..MaxFallback /\ ~BadHeaders(hs)
        /\ IF begun.state # 200 THEN Return(begun)
           ELSE IF IsChunked(begun.left) THEN Go(begun, Rest(k), "body")
           ELSE Go(begun, Rest(k + m), "heads")
    BY <1>5 DEF HeadParsed
  <2>2. data # <<>> /\ k # 0
    BY <2>1, ResultTypes
  <2>3. k \in 0..Len(data)
    <3>1. found = GetHeaders(Fenced(data))
      BY <2>2
    <3>2. k \in Nat /\ k <= Len(data)
      BY <1>1, <2>2, <3>1, HeadIs
    <3> HIDE DEF k
    <3> QED
      BY <1>1, <3>2
  <2>4. /\ IsParser(p) /\ p.fallback = <<>> /\ p.left = NoBody /\ p.state = 200
    BY <1>1, <2>2, RequestedIs
  <2>5. begun \in {Begin(p, hs, Rest(k)), HandlerLeaves(p)}
    BY <1>5
  <2> HIDE DEF found, k, p, hs
  <2>6. Bytes(Rest(k)) /\ Len(Rest(k)) = Len(data) - k
    BY <1>1, <2>3, PieceIs
  <2>7. /\ IsParser(begun) /\ begun.fallback = <<>> /\ ~begun.left.hasSize
        /\ begun.state = 200 \/ begun.left = NoBody
        /\ begun.state = 200 /\ ~IsChunked(begun.left) =>
              /\ m \in 0..Len(Rest(k))
              /\ begun.left = NoBody \/ m = Len(Rest(k))
    <3>1. CASE begun = Begin(p, hs, Rest(k))
      <4>1. ~(HasBody(hs, "t") /\ HasBody(hs, "l"))
        BY <2>1 DEF BadHeaders
      <4> DEFINE rest == Rest(k)
      <4>2. Bytes(rest) /\ begun = Begin(p, hs, rest)
        BY <2>6, <3>1
      <4> HIDE DEF rest
      <4>3. /\ IsParser(begun) /\ begun.fallback = p.fallback /\ ~begun.left.hasSize
            /\ begun.state = 200 \/ begun.left = NoBody
            /\ begun.state = 200 /\ ~IsChunked(begun.left) =>
                  /\ Emittable(hs, rest) \in 0..Len(rest)
                  /\ begun.left = NoBody \/ Emittable(hs, rest) = Len(rest)
        BY <2>4, <4>1, <4>2, BeginIs
      <4> QED
        BY <2>4, <4>3 DEF rest
    <3>2. CASE begun = HandlerLeaves(p)
      <4>1. /\ IsParser(begun) /\ begun.fallback = p.fallback /\ begun.left = p.left
            /\ begun.state = 101
        BY <2>4, <3>2 DEF HandlerLeaves, IsParser
      <4> QED
        BY <2>4, <4>1, ResultTypes
    <3> QED
      BY <2>5, <3>1, <3>2
  <2>8. Kept(begun)
    BY <1>1, <2>7, NoHead DEF Kept
  <2> HIDE DEF m
  <2>9. CASE begun.state # 200
    BY <2>1, <2>8, <2>9, ReturnKeeps
  <2>10. CASE begun.state = 200 /\ IsChunked(begun.left)
    <3>1. Go(begun, Rest(k), "body")
      BY <2>1, <2>10
    <3> QED
      BY <2>2, <2>3, <2>7, <2>8, <2>10, <3>1, GoKeeps
  <2>11. CASE begun.state = 200 /\ ~IsChunked(begun.left)
    <3> DEFINE n == k + m
    <3>1. Go(begun, Rest(n), "heads")
      BY <2>1, <2>11
    <3>2. n \in 0..Len(data) /\ n # 0 /\ (begun.left = NoBody \/ n = Len(data))
      <4>1. /\ m \in 0..Len(data) - k
            /\ begun.left = NoBody \/ m = Len(data) - k
        BY <2>6, <2>7, <2>11
      <4> QED
        BY <1>1, <2>2, <2>3, <4>1
    <3> HIDE DEF n
    <3> QED
      BY <2>7, <2>8, <2>11, <3>1, <3>2, GoKeeps
  <2> QED
    BY <2>9, <2>10, <2>11
<1> QED
  BY <1>2, <1>3, <1>4, <1>5

-----------------------------------------------------------------------------
(* The theorems.                                                           *)

(* The invariant holds in the beginning.                                   *)
LEMMA ParserInvInit == Init => ParserInv
<1> SUFFICES ASSUME Init PROVE ParserInv
  OBVIOUS
<1>1. IsParser(parser) /\ parser.left = NoBody /\ parser.fallback = <<>>
  <2>1. <<>> \in Seq(Byte)
    BY NoHead DEF Bytes
  <2> QED
    BY <2>1, ResultTypes DEF Init, IsParser
<1>2. 0 < MaxFallback
  BY ParserAssumption
<1>3. Kept(parser)
  BY <1>1, <1>2, NoHead, ResultTypes DEF Kept
<1>4. InCall(parser, data, phase)
  BY NoHead DEF Init, InCall
<1> QED
  BY <1>3, <1>4 DEF Init, ParserInv

(* Every step keeps it, and every pass takes something from the data.      *)
LEMMA ParserInvNext ==
    ASSUME ParserInv, [Next]_vars
    PROVE  ParserInv' /\ [phase # "idle" => Shortens]_vars
<1>1. CASE UNCHANGED vars
  BY <1>1 DEF vars, ParserInv
<1>2. ASSUME NEW n \in 1..Len(stream.wire), Receive(n)
      PROVE  ParserInv' /\ (phase # "idle" => Shortens)
  BY <1>2, ReceiveKeeps
<1>3. CASE Body
  BY <1>3, BodyKeeps
<1>4. CASE ChunksDone
  BY <1>4, ChunksDoneKeeps
<1>5. CASE DropTrailer
  BY <1>5, DropTrailerKeeps
<1>6. CASE ChunkSize
  BY <1>6, ChunkSizeKeeps
<1>7. CASE Chunk
  BY <1>7, ChunkKeeps
<1>8. CASE Fallback
  BY <1>8, FallbackKeeps
<1>9. CASE Heads
  BY <1>9, HeadsKeeps
<1>10. CASE Terminated
  BY <1>1, <1>10 DEF Terminated
<1> QED
  BY <1>1, <1>2, <1>3, <1>4, <1>5, <1>6, <1>7, <1>8, <1>9, <1>10 DEF Next

(* The inductive invariant holds of what consumePostPadded keeps from call *)
(* to call, and of where it is in one.                                     *)
THEOREM ParserInvariant == Spec => []ParserInv
<1>1. ParserInv /\ [Next]_vars => ParserInv'
  BY ParserInvNext
<1> QED
  BY ParserInvInit, <1>1, PTL DEF Spec

(* The fallback of HttpParser holds no complete head, is shorter than its  *)
(* limit, and is empty while a body is on its way.                         *)
THEOREM FallbackStaysIncomplete == Spec => []FallbackIncomplete
<1>1. ParserInv => FallbackIncomplete
  BY DEF ParserInv, Kept, FallbackIncomplete
<1> QED
  BY <1>1, ParserInvariant, PTL

(* Every call of consumePostPadded returns: a pass of its loops consumes   *)
(* some of the data or is the last of its loop.  A head that is found in   *)
(* the fallback consumes bytes of the new data.                            *)
THEOREM CallsReturn == Spec => CallReturns
<1>1. ParserInv /\ [Next]_vars => [phase # "idle" => Shortens]_vars
  BY ParserInvNext
<1>2. [phase # "idle" => Shortens]_vars =>
        [phase # "idle" =>
            \/ phase' = "idle" \/ Len(data') < Len(data)
            \/ phase = "body" /\ phase' = "heads"]_vars
  BY DEF Shortens
<1> QED
  BY <1>1, <1>2, ParserInvariant, PTL DEF Spec, CallReturns

=============================================================================
