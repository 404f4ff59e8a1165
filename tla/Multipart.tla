------------------------------ MODULE Multipart -----------------------------
(***************************************************************************)
(* The multipart parser (src/src/Multipart.h, src/src/MessageParser.h): the *)
(* boundary of a content type, the parts of a body with their headers, and  *)
(* the parameters of a header's line.  Bytes are their codes.  A content    *)
(* type is [multipart, rest]: whether it begins with "multipart/", and the  *)
(* bytes behind that.                                                       *)
(***************************************************************************)
EXTENDS Integers, SequencesExt

CONSTANTS MaxBoundary,  \* the longest boundary, in the code 70
          MaxHeaders    \* MAX_HEADERS, in the code 10

CR == 13
LF == 10
COLON == 58
SEMICOLON == 59
EQUAL == 61
QUOTE == 34
HYPHEN == 45

FirstOf(set, otherwise) == IF set = {} THEN otherwise ELSE Min(set)

\* Where the bytes of t are found in s from p on, or 0.
Find(s, t, p) ==
    FirstOf({i \in p..(Len(s) - Len(t) + 1) : SubSeq(s, i, i + Len(t) - 1) = t}, 0)

\* The constructor: the boundary with its two hyphens, or nothing.
PrependedBoundary(type) ==
    LET equal == FirstOf({i \in DOMAIN type.rest : type.rest[i] = EQUAL}, 0)
        boundary == SubSeq(type.rest, equal + 1, Len(type.rest))
    IN IF type.multipart /\ equal # 0 /\ Len(boundary) \in 1..MaxBoundary
       THEN <<HYPHEN, HYPHEN>> \o boundary ELSE <<>>

\* A byte | 32.
LowerCased(b) == IF (b \div 32) % 2 = 0 THEN b + 32 ELSE b

-----------------------------------------------------------------------------
(* getHeaders of MessageParser.h, on the n bytes of a part and what follows *)
(* in the body, the first of which has been made a CR.                      *)

KeyEnd(b, p) == Min({i \in p..Len(b) : b[i] = COLON \/ b[i] <= 32})
ValueStart(b, p) == Min({i \in p..Len(b) : ~((b[i] = COLON \/ b[i] < 33) /\ b[i] # CR)})
ValueEnd(b, p, n) == FirstOf({i \in p..n : b[i] = CR}, 0)

\* What is left of the part behind its headers, with the headers; 0 consumed is no part.
GetPartHeaders(b, n) ==
    LET invalid == [consumed |-> 0, headers |-> <<>>]
        read[p \in Nat, i \in 0..MaxHeaders] ==
            IF i = MaxHeaders THEN invalid
            ELSE LET q == KeyEnd(b, p)
                     v == ValueStart(b, q + 1)
                     c == ValueEnd(b, v, n)
                 IN IF b[q] = CR
                    THEN IF q # n + 1 /\ b[q + 1] = LF THEN [invalid EXCEPT !.consumed = q + 1] ELSE invalid
                    ELSE IF c = 0 \/ b[c + 1] # LF THEN invalid
                    ELSE LET rest == read[c + 2, i + 1]
                             key == [k \in 1..(q - p) |-> LowerCased(b[p + k - 1])]
                         IN IF rest.consumed = 0 THEN invalid
                            ELSE [rest EXCEPT !.headers =
                                      <<[key |-> key, value |-> SubSeq(b, v, c - 1)]>> \o @]
    IN read[1, 0]

-----------------------------------------------------------------------------
(* getNextPart.  A parser is [boundary, body, at, first]: remainingBody is  *)
(* what is behind the first `at` bytes of the body.                         *)

MultipartParser(type, body) ==
    [boundary |-> PrependedBoundary(type), body |-> body, at |-> 0, first |-> TRUE]

NoPart(mp) == [some |-> FALSE, headers |-> <<>>, content |-> <<>>, parser |-> mp]

Stripped(part) == SubSeq(part, 3, Len(part) - 2)

\* Mutant: nothing is written behind the part, and what stops the reading of its headers
\* is farther behind, at the latest the padding of the receive buffer.
PartBeforeUnpadded(mp, after, end) ==
    LET part == SubSeq(mp.body, mp.at + 1, end - 1)
        stripped == Stripped(part)
        n == Len(stripped)
        parsed == GetPartHeaders(SubSeq(mp.body, mp.at + 3, Len(mp.body)) \o <<CR, CR>>, n)
    IN IF Len(part) < 4 \/ parsed.consumed = 0 THEN NoPart(after)
       ELSE [some |-> TRUE, headers |-> parsed.headers, parser |-> after,
             content |-> SubSeq(stripped, parsed.consumed + 1, n)]

\* The part that ends before position end, of the parser that has gone on behind it.
\* The byte behind it is made a CR in the body.
PartBefore(mp, after, end) ==
    LET part == SubSeq(mp.body, mp.at + 1, end - 1)
        stripped == Stripped(part)
        n == Len(stripped)
        padded == [after EXCEPT !.body[mp.at + 2 + n + 1] = CR]
        parsed == GetPartHeaders(SubSeq(padded.body, mp.at + 3, Len(mp.body)), n)
    IN IF Len(part) < 4 THEN NoPart(after)
       ELSE IF parsed.consumed = 0 THEN NoPart(padded)
       ELSE [some |-> TRUE, headers |-> parsed.headers, parser |-> padded,
             content |-> SubSeq(stripped, parsed.consumed + 1, n)]

\* Behind the first boundary, and anything before it.
Started(mp, found) == [mp EXCEPT !.first = FALSE, !.at = found + Len(mp.boundary) - 1]

NextPartOf(mp) ==
    LET end == Find(mp.body, mp.boundary, mp.at + 1)
    IN IF end = 0 THEN NoPart(mp)
       ELSE PartBefore(mp, [mp EXCEPT !.at = end + Len(mp.boundary) - 1], end)

GetNextPart(mp) ==
    LET found == Find(mp.body, mp.boundary, mp.at + 1)
    IN IF Len(mp.body) - mp.at < Len(mp.boundary) THEN NoPart(mp)
       ELSE IF ~mp.first THEN NextPartOf(mp)
       ELSE IF found = 0 THEN NoPart(mp)
       ELSE NextPartOf(Started(mp, found))

-----------------------------------------------------------------------------
(* ParameterParser, on what remains of the line.                           *)

IsSpace(b) == b = 32 \/ b \in 9..13

SkipSpace(line) ==
    SubSeq(line, FirstOf({i \in DOMAIN line : ~IsSpace(line[i])}, Len(line) + 1), Len(line))

Token(text, rest) == [text |-> text, rest |-> rest]

QuotedToken(line) ==
    LET close == FirstOf({i \in 2..Len(line) : line[i] = QUOTE}, 0)
    IN IF close = 0 THEN Token(<<>>, <<>>)
       ELSE Token(SubSeq(line, 2, close - 1), SubSeq(line, close + 1, Len(line)))

PlainToken(line) ==
    LET end == FirstOf({i \in DOMAIN line : line[i] \in {SEMICOLON, EQUAL} \/ IsSpace(line[i])},
                       Len(line) + 1)
    IN Token(SubSeq(line, 1, end - 1), SubSeq(line, end, Len(line)))

GetToken(remaining) ==
    LET line == SkipSpace(remaining)
    IN IF line = <<>> THEN Token(<<>>, <<>>)
       ELSE IF line[1] \in {SEMICOLON, EQUAL} THEN Token(<<line[1]>>, Tail(line))
       ELSE IF line[1] = QUOTE THEN QuotedToken(line)
       ELSE PlainToken(line)

GetKeyValue(remaining) ==
    LET key == GetToken(remaining)
        op == GetToken(key.rest)
        value == GetToken(op.rest)
    IN IF op.text = <<>> \/ op.text[1] = SEMICOLON
       THEN [key |-> key.text, value |-> <<>>, rest |-> op.rest]
       ELSE [key |-> key.text, value |-> value.text, rest |-> GetToken(value.rest).rest]
=============================================================================
