----------------------------- MODULE QueryParser ----------------------------
(***************************************************************************)
(* getDecodedQueryValue (src/src/QueryParser.h): a value of the query,      *)
(* decoded where it lies in the request.  Bytes are their codes, below 128. *)
(***************************************************************************)
EXTENDS Integers, SequencesExt

AMPERSAND == 38
EQUALS == 61
PERCENT == 37
PLUS == 43
SPACE == 32

\* The position of the first byte b of s from p on, or behind its end.
FindByte(s, b, p) == Min({i \in p..Len(s) : s[i] = b} \cup {Len(s) + 1})

Bit5Cleared(n) == n - 32 * ((n \div 32) % 2)

\* Mutant: small letters are not folded to capital ones.
HexDigitCapital(b) == IF b - 48 > 9 THEN b - 48 - 7 ELSE b - 48

HexDigit(b) == IF b - 48 > 9 THEN Bit5Cleared(b - 48) - 7 ELSE b - 48

\* The value from its byte i on: whether it could be decoded, and as far as it could.
DecodeFrom(v, i) ==
    LET decode[k \in Nat] ==
            IF k > Len(v) \/ v[k] = 0 THEN [ok |-> TRUE, bytes |-> <<>>]
            ELSE IF v[k] = PERCENT
            THEN IF k + 2 > Len(v) THEN [ok |-> FALSE, bytes |-> <<>>]
                 ELSE LET rest == decode[k + 3]
                          byte == (HexDigit(v[k + 1]) * 16 + HexDigit(v[k + 2])) % 256
                      IN [rest EXCEPT !.bytes = <<byte>> \o @]
            ELSE LET rest == decode[k + 1]
                 IN [rest EXCEPT !.bytes = <<IF v[k] = PLUS THEN SPACE ELSE v[k]>> \o @]
    IN decode[i]

\* The bytes of the value's place in the request.  A null follows a shorter value.
WrittenBack(v, decoded) ==
    LET ended == decoded.ok /\ Len(decoded.bytes) < Len(v)
        n == Len(decoded.bytes) + (IF ended THEN 1 ELSE 0)
    IN decoded.bytes \o (IF ended THEN <<0>> ELSE <<>>) \o SubSeq(v, n + 1, Len(v))

NotFound(query) == [found |-> FALSE, value |-> <<>>, query |-> query]

\* The value at from to to-1 of the query.
DecodedAt(query, from, to) ==
    LET v == SubSeq(query, from, to - 1)
        decoded == DecodeFrom(v, 1)
        after == SubSeq(query, 1, from - 1) \o WrittenBack(v, decoded) \o SubSeq(query, to, Len(query))
    IN IF decoded.ok THEN [found |-> TRUE, value |-> decoded.bytes, query |-> after]
       ELSE NotFound(after)

\* A statement that starts as the key does and has no '=' ends the search.
GetDecodedQueryValue(key, query) ==
    LET search[p \in Nat] ==
            IF p > Len(query) THEN NotFound(query)
            ELSE LET end == FindByte(query, AMPERSAND, p + 1)
                     equality == FindByte(query, EQUALS, p + 1)
                 IN IF p + 1 < end /\ query[p + 1] = key[1]
                    THEN IF equality >= end THEN NotFound(query)
                         ELSE IF SubSeq(query, p + 1, equality - 1) = key
                         THEN DecodedAt(query, equality + 1, end)
                         ELSE search[end]
                    ELSE search[end]
    IN IF key = <<>> THEN NotFound(query) ELSE search[1]
=============================================================================
