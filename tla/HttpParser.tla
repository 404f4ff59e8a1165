------------------------------ MODULE HttpParser ------------------------------
(***************************************************************************)
(* HttpParser.h, ChunkedEncoding.h, ProxyParser.h and BloomFilter.h for    *)
(* one connection.  A peer sends some requests; uSockets delivers their    *)
(* bytes in pieces cut anywhere, and every piece is one call of            *)
(* consumePostPadded.  A call takes one step per pass of its loops; `data` *)
(* is what it has left and `phase` the loop it is in.                      *)
(*                                                                         *)
(* A byte is one of a few that the parser tells apart.  "V" stands for the *)
(* text HTTP/1.1, and a field name is one byte: "h" host, "l" content-     *)
(* length, "t" transfer-encoding, "n" any other.                           *)
(***************************************************************************)
EXTENDS Integers, Sequences, SequencesExt, FiniteSetsExt

CONSTANTS
    Streams,       \* what the peer may send, and what it means
    MaxFallback,   \* MAX_FALLBACK_SIZE
    MaxHeaders,    \* UWS_HTTP_MAX_HEADERS_COUNT
    MaxDigits,     \* digits of a content-length (18)
    MaxHexDigits,  \* hexadecimal digits before STATE_SIZE_OVERFLOW (14)
    WithProxy,     \* UWS_WITH_PROXY
    ProxyHeader,   \* bytes in the header of a PROXY frame (16)
    MaxProxy,      \* sizeof(proxy_addr), which is as much as may follow it
    HashBits       \* the bits of the Bloom filter for every name

ASSUME ParserAssumption ==
    /\ MaxFallback \in Nat \ {0} /\ MaxHeaders \in Nat \ {0, 1}
    /\ MaxDigits \in Nat \ {0} /\ MaxHexDigits \in Nat \ {0}
    /\ WithProxy \in BOOLEAN /\ ProxyHeader \in Nat /\ ProxyHeader > 4
    /\ MaxProxy \in Nat
    /\ \A s \in Streams : s.wire \in Seq(STRING)

VARIABLES stream, arrived, data, phase, parser
vars == <<stream, arrived, data, phase, parser>>

Names == {"h", "l", "t", "n"}   \* the bytes a field name is made of
HexDigits == <<"0", "1", "2", "3", "4", "5", "6", "7", "8", "9", "a", "b", "c", "d", "e", "f">>
Digits == [d \in Range(SubSeq(HexDigits, 1, 10)) |-> CHOOSE v \in 0..9 : HexDigits[v + 1] = d]
Low == {"SP", "CR", "LF", "TAB", "BAD"}
Version == <<"SP", "V", "CR", "LF">>

(* "g" and "@" pass for 16.                                                *)
HexValue(b) ==
    CASE b \in Range(HexDigits) -> CHOOSE v \in 0..15 : HexDigits[v + 1] = b
      [] b \in {"g", "@"} -> 16
      [] OTHER -> 99

(* The two bytes behind the data by which a scan ends.                     *)
Fenced(d) == d \o <<"CR", "a">>

(* Where a scan from p ends: at the first of some bytes, or behind them.   *)
ScanTo(buf, p, stops) ==
    Min({q \in p..Len(buf) : buf[q] \in stops} \union {Len(buf) + 1})
ScanPast(buf, p, skips) ==
    Min({q \in p..Len(buf) : buf[q] \notin skips} \union {Len(buf) + 1})

-----------------------------------------------------------------------------
(* getHeaders.  `end` is the place of the fence.  A result has the bytes   *)
(* consumed (0: try again with more, or an error) and the fields found.    *)

More == [consumed |-> 0, err |-> 0, headers |-> <<>>]
Fail(code) == [consumed |-> 0, err |-> code, headers |-> <<>>]

(* ProxyParser::parse: how many bytes to skip, -1 when it is not done, now *)
(* or ever.  Of a frame "Q" completes the signature; then come the version *)
(* and the length of the addresses behind the header.                      *)
ProxyOffset(buf, end) ==
    LET length == end - 1
    IN  CASE ~WithProxy -> 0
          [] WithProxy /\ length < 4 -> -1
          [] WithProxy /\ length >= 4 /\ SubSeq(buf, 1, 4) # <<"CR", "LF", "CR", "LF">> -> 0
          [] OTHER ->
                IF \/ length < ProxyHeader
                   \/ buf[5] # "Q" \/ buf[6] # "2"
                   \/ length < ProxyHeader + HexValue(buf[7])
                   \/ MaxProxy < HexValue(buf[7])
                THEN -1 ELSE ProxyHeader + HexValue(buf[7])

(* consumeRequestLine: where the fields begin, 0 for more, -1 for an error. *)
AfterTarget(buf, end, b) ==
    IF b + Len(Version) >= end
    THEN IF IsPrefix(SubSeq(buf, b, end - 1), Version) THEN 0 ELSE -1
    ELSE IF SubSeq(buf, b, b + Len(Version) - 1) = Version THEN b + Len(Version)
    ELSE IF buf[b] = "CR" THEN 0 ELSE -1

AfterMethod(buf, end, a) ==
    IF a + 1 = end THEN 0
    ELSE IF buf[a] = "SP" /\ buf[a + 1] = "/"
    THEN AfterTarget(buf, end, ScanTo(buf, a + 1, Low))
    ELSE IF buf[a] = "CR" THEN 0 ELSE -1

ConsumeRequestLine(buf, end, p) == AfterMethod(buf, end, ScanTo(buf, p, Low))

Trimmed(v) ==
    LET kept == {i \in DOMAIN v : v[i] \notin Low}
    IN  IF kept = {} THEN <<>> ELSE SubSeq(v, Min(kept), Max(kept))

(* The fields of a complete head: each line from `line` to the last.       *)
FieldAt(buf, p) ==
    LET colon == ScanTo(buf, p, {":"})
    IN  [key |-> SubSeq(buf, p, colon - 1),
         value |-> Trimmed(SubSeq(buf, colon + 1, ScanTo(buf, p, {"CR"}) - 1))]
Fields(buf, line, consumed) ==
    LET starts == {p \in line..consumed - 2 : p = line \/ SubSeq(buf, p - 2, p - 1) = <<"CR", "LF">>}
        places == SetToSortSeq(starts, <)
    IN  [i \in DOMAIN places |-> FieldAt(buf, places[i])]

(* The fields a loop over them sees: it ends at one with an empty name.    *)
Visible(hs) ==
    LET empty == {i \in DOMAIN hs : hs[i].key = <<>>}
    IN  IF empty = {} THEN hs ELSE SubSeq(hs, 1, Min(empty) - 1)

\* Mutant: an end of the head in two pieces is an error.
AfterFieldStrict(buf, end, line, r, rest) ==
    IF buf[r + 1] # "LF" THEN More
    ELSE IF buf[r + 2] # "CR" THEN rest
    ELSE IF buf[r + 3] = "LF"
    THEN [consumed |-> r + 3, err |-> 0, headers |-> Visible(Fields(buf, line, r + 3))]
    ELSE Fail(400)

(* Behind the value that ends at r: the next field, or the end.            *)
AfterField(buf, end, line, r, rest) ==
    IF buf[r + 1] # "LF" THEN More
    ELSE IF buf[r + 2] # "CR" THEN rest
    ELSE IF buf[r + 3] = "LF"
    THEN [consumed |-> r + 3, err |-> 0, headers |-> Visible(Fields(buf, line, r + 3))]
    ELSE IF r + 3 < end THEN Fail(400) ELSE More

(* The fields from p on, in as many passes of the loop as are left.        *)
GetFields(buf, end, line) ==
    LET NameEnd(p) == ScanPast(buf, p, Names)
        ValueEnd(p) == ScanTo(buf, NameEnd(p), {"CR", "LF", "BAD"})
        fields[left \in 0..MaxHeaders - 2] == [p \in 1..end |->
            IF left = 0 THEN Fail(431)
            ELSE IF buf[NameEnd(p)] # ":" THEN IF NameEnd(p) = end THEN More ELSE Fail(400)
            ELSE IF buf[ValueEnd(p)] # "CR" THEN Fail(400)
            ELSE AfterField(buf, end, line, ValueEnd(p), fields[left - 1][ValueEnd(p) + 2])]
    IN  IF line = 0 THEN More ELSE IF line < 0 THEN Fail(505) ELSE fields[MaxHeaders - 2][line]

GetHeaders(buf) ==
    LET end == Len(buf) - 1
        offset == ProxyOffset(buf, end)
    IN  IF offset < 0 THEN More
        ELSE GetFields(buf, end, ConsumeRequestLine(buf, end, offset + 1))

-----------------------------------------------------------------------------
(* BloomFilter and HttpRequest::getHeader.                                 *)

Filter(hs) == UNION {HashBits[hs[i].key[1]] : i \in DOMAIN hs}
MightHave(hs, name) == HashBits[name] \subseteq Filter(hs)

(* The value of the first field with the name, "none" when there is none.  *)
GetHeader(hs, name) ==
    LET found == {i \in DOMAIN hs : hs[i].key = <<name>>}
    IN  IF MightHave(hs, name) /\ found # {} THEN hs[Min(found)].value ELSE <<"none">>

HasBody(hs, name) == GetHeader(hs, name) \notin {<<>>, <<"none">>}

(* A second host, no host, or two ways to give the length of the body.     *)
BadHeaders(hs) ==
    \/ \E i \in DOMAIN hs : hs[i].key = <<"h">> /\ MightHave(SubSeq(hs, 1, i - 1), "h")
    \/ GetHeader(hs, "h") = <<"none">>
    \/ HasBody(hs, "t") /\ HasBody(hs, "l")

(* toUnsignedInteger, -1 for UINT64_MAX.                                   *)
ToUnsignedInteger(v) ==
    LET n[i \in 0..MaxDigits] == IF i = 0 THEN 0 ELSE n[i - 1] * 10 + Digits[v[i]]
    IN  IF v \in BoundedSeq(DOMAIN Digits, MaxDigits) THEN n[Len(v)] ELSE -1

-----------------------------------------------------------------------------
(* The state of the body, remainingStreamingBytes: its two upper bits and  *)
(* its size.  Data handed to the application is kept byte by byte.         *)

NoBody == [chunked |-> FALSE, hasSize |-> FALSE, size |-> 0]
ChunkedBody == [NoBody EXCEPT !.chunked = TRUE]
IsChunked(left) == left.chunked \/ left.hasSize
DecChunkSize(p, by) == [p EXCEPT !.left.size = @ - by]

Emit(p, bytes, fin) ==
    [p EXCEPT !.events = @ \o [i \in DOMAIN bytes |-> <<"byte", bytes[i]>>]
                           \o IF fin THEN <<<<"end">>>> ELSE <<>>]

Refuse(p, code) == [p EXCEPT !.state = code]

(* A piece of a body of known length.                                      *)
LengthPiece(p, d) ==
    LET n == Min({p.left.size, Len(d)})
    IN  [Emit(p, SubSeq(d, 1, n), n = p.left.size) EXCEPT !.left.size = @ - n]

(* consumeHexNumber.                                                       *)
HexStep(size, b) ==
    IF size < 0 \/ HexValue(b) > 16 \/ size >= 16 ^ MaxHexDigits THEN -1
    ELSE size * 16 + HexValue(b)

ConsumeHexNumber(size, digits) ==
    LET n[i \in 0..Len(digits)] == IF i = 0 THEN size ELSE HexStep(n[i - 1], digits[i])
    IN  n[Len(digits)]

-----------------------------------------------------------------------------
(* consumePostPadded.                                                      *)

Init ==
    /\ stream \in Streams
    /\ arrived = 0 /\ data = <<>> /\ phase = "idle"
    /\ parser = [fallback |-> <<>>, left |-> NoBody, state |-> 200, events |-> <<>>]

Receive(n) ==
    /\ phase = "idle" /\ parser.state = 200
    /\ arrived + n <= Len(stream.wire)
    /\ arrived' = arrived + n
    /\ data' = SubSeq(stream.wire, arrived + 1, arrived + n)
    /\ phase' = IF parser.left # NoBody THEN "body"
                ELSE IF parser.fallback # <<>> THEN "fallback" ELSE "heads"
    /\ UNCHANGED <<stream, parser>>

Return(p) == parser' = p /\ data' = <<>> /\ phase' = "idle" /\ UNCHANGED <<stream, arrived>>
Go(p, rest, to) == parser' = p /\ data' = rest /\ phase' = to /\ UNCHANGED <<stream, arrived>>
Rest(n) == SubSeq(data, n + 1, Len(data))

(* The application's handler upgrades or closes: parsing ends.             *)
HandlerLeaves(p) == [p EXCEPT !.state = 101]

(* More of a body of known length, and what follows it unless the data     *)
(* handler leaves.                                                         *)
Body ==
    /\ phase = "body" /\ ~IsChunked(parser.left)
    /\ \/ Return(HandlerLeaves(LengthPiece(parser, data)))
       \/ IF parser.left.size >= Len(data) THEN Return(LengthPiece(parser, data))
          ELSE Go(LengthPiece(parser, data), Rest(parser.left.size), "heads")

(* getNextChunk: nothing is left to consume.  What the data handler        *)
(* returns is not looked at here, nor where a body begins (Begin).         *)
InChunks == phase = "body" /\ IsChunked(parser.left)
Trailing == ~parser.left.chunked /\ parser.left.hasSize

ChunksDone == InChunks /\ data = <<>> /\ Go(parser, data, "heads")

(* The two bytes behind the last chunk are dropped; then the parser stops. *)
DropTrailer ==
    /\ InChunks /\ data # <<>> /\ Trailing
    /\ LET n == Min({parser.left.size, Len(data)})
       IN  IF n = parser.left.size THEN Go([parser EXCEPT !.left = NoBody], Rest(n), "heads")
           ELSE Go(DecChunkSize(parser, n), Rest(n), "body")

(* The size of a chunk is known, and counts the two bytes behind it.       *)
Sized(p, size) ==
    IF size = 0 THEN [Emit(p, <<>>, TRUE) EXCEPT !.left = [NoBody EXCEPT !.hasSize = TRUE, !.size = 2]]
    ELSE [p EXCEPT !.left = [chunked |-> TRUE, hasSize |-> TRUE, size |-> size + 2]]

(* The digits at hand; the size is known behind the next line feed.        *)
ChunkSize ==
    /\ InChunks /\ data # <<>> /\ ~parser.left.hasSize
    /\ LET digits == ScanTo(Append(data, "LF"), 1, Low) - 1
           line == ScanTo(Append(data, "LF"), digits + 1, {"LF"})
           size == ConsumeHexNumber(parser.left.size, SubSeq(data, 1, digits))
       IN  IF size < 0 THEN Return(Refuse(parser, 400))
           ELSE IF line > Len(data)
           THEN Go([parser EXCEPT !.left.size = size, !.left.chunked = TRUE], <<>>, "body")
           ELSE Go(Sized(parser, size), Rest(line), "body")

(* What the application gets of a piece: not the two bytes behind a chunk. *)
ChunkPiece(p, d) == Emit(p, SubSeq(d, 1, Min({Len(d), p.left.size - 2})), FALSE)

\* Mutant: a piece of a chunk is not removed from the data.
ChunkNotRemoved ==
    /\ InChunks /\ data # <<>> /\ ~Trailing /\ parser.left.hasSize
    /\ IF Len(data) >= parser.left.size
       THEN Go([ChunkPiece(parser, SubSeq(data, 1, parser.left.size)) EXCEPT !.left = ChunkedBody],
               Rest(parser.left.size), "body")
       ELSE Go(DecChunkSize(ChunkPiece(parser, data), Len(data)), data, "body")

Chunk ==
    /\ InChunks /\ data # <<>> /\ ~Trailing /\ parser.left.hasSize
    /\ IF Len(data) >= parser.left.size
       THEN Go([ChunkPiece(parser, SubSeq(data, 1, parser.left.size)) EXCEPT !.left = ChunkedBody],
               Rest(parser.left.size), "body")
       ELSE Go(DecChunkSize(ChunkPiece(parser, data), Len(data)), <<>>, "body")

(* fenceAndConsumePostPadded behind getHeaders: the request event, then    *)
(* the body begins.                                                        *)
Requested(p, hs) == [p EXCEPT !.events = Append(@, <<"request", hs>>)]

WithLength(p, hs) == [p EXCEPT !.left.size = ToUnsignedInteger(GetHeader(hs, "l"))]

(* The body of a head that was found in the fallback is not looked at yet. *)
BeginMinimally(p, hs) ==
    IF HasBody(hs, "t") THEN [p EXCEPT !.left = ChunkedBody]
    ELSE IF HasBody(hs, "l")
    THEN IF ToUnsignedInteger(GetHeader(hs, "l")) < 0 THEN Refuse(p, 400) ELSE WithLength(p, hs)
    ELSE Emit(p, <<>>, TRUE)

(* How much of the rest belongs to a body of known length.                 *)
Emittable(hs, rest) ==
    IF HasBody(hs, "l") THEN Min({ToUnsignedInteger(GetHeader(hs, "l")), Len(rest)}) ELSE 0

Begin(p, hs, rest) ==
    IF HasBody(hs, "l") /\ ~HasBody(hs, "t") /\ ToUnsignedInteger(GetHeader(hs, "l")) >= 0
    THEN LengthPiece(WithLength(p, hs), rest)
    ELSE BeginMinimally(p, hs)

(* The head goes on in the fallback: as much is copied as fits.            *)
Copied == parser.fallback \o SubSeq(data, 1, Min({MaxFallback - Len(parser.fallback), Len(data)}))

FallbackWaits(found) ==
    /\ found.consumed = 0 /\ found.err = 0
    /\ Return(IF Len(Copied) = MaxFallback THEN Refuse(parser, 431)
              ELSE [parser EXCEPT !.fallback = Copied])

FallbackRefused(found) ==
    /\ \/ found.err # 0
       \/ found.consumed > 0 /\ BadHeaders(found.headers)
    /\ Return(Refuse(parser, IF found.err # 0 THEN found.err ELSE 400))

\* Mutant: the fallback is not cleared.
FallbackParsedKept(found, begun) ==
    /\ found.consumed > 0 /\ ~BadHeaders(found.headers)
    /\ IF begun.state # 200 THEN Return(begun)
       ELSE Go(begun, Rest(found.consumed - Len(parser.fallback)),
               IF begun.left # NoBody THEN "body" ELSE "heads")

FallbackParsed(found, begun) ==
    /\ found.consumed > 0 /\ ~BadHeaders(found.headers)
    /\ IF begun.state # 200 THEN Return(begun)
       ELSE Go([begun EXCEPT !.fallback = <<>>], Rest(found.consumed - Len(parser.fallback)),
               IF begun.left # NoBody THEN "body" ELSE "heads")

(* The handler of the request may upgrade or close the connection.         *)
Fallback ==
    /\ phase = "fallback"
    /\ \E buf \in {Fenced(Copied)} : \E found \in {GetHeaders(buf)} :
        \/ FallbackWaits(found) \/ FallbackRefused(found)
        \/ \E p \in {Requested(parser, found.headers)} :
            \E begun \in {BeginMinimally(p, found.headers), HandlerLeaves(p)} :
                FallbackParsed(found, begun)

(* The head of a request in the data itself.                               *)
HeadWaits(found) ==
    /\ found.consumed = 0 /\ found.err = 0
    /\ Return(IF Len(data) < MaxFallback THEN [parser EXCEPT !.fallback = @ \o data]
              ELSE Refuse(parser, 431))

HeadRefused(found) ==
    /\ \/ found.err # 0 \/ found.consumed > MaxFallback
       \/ found.consumed > 0 /\ BadHeaders(found.headers)
    /\ Return(Refuse(parser, IF found.err # 0 THEN found.err
                             ELSE IF found.consumed > MaxFallback THEN 431 ELSE 400))

HeadParsed(found, begun) ==
    /\ found.consumed \in 1..MaxFallback /\ ~BadHeaders(found.headers)
    /\ IF begun.state # 200 THEN Return(begun)
       ELSE IF IsChunked(begun.left) THEN Go(begun, Rest(found.consumed), "body")
       ELSE Go(begun, Rest(found.consumed + Emittable(found.headers, Rest(found.consumed))), "heads")

Heads ==
    /\ phase = "heads"
    /\ \E buf \in {Fenced(data)} : \E found \in {IF data = <<>> THEN More ELSE GetHeaders(buf)} :
        \/ HeadWaits(found) \/ HeadRefused(found)
        \/ \E p \in {Requested(parser, found.headers)} :
            \E begun \in {Begin(p, found.headers, Rest(found.consumed)), HandlerLeaves(p)} :
                HeadParsed(found, begun)

(* Nothing is left to receive, or the connection is closed or upgraded.    *)
Terminated ==
    /\ phase = "idle"
    /\ arrived = Len(stream.wire) \/ parser.state # 200
    /\ UNCHANGED vars

Next ==
    \/ \E n \in 1..Len(stream.wire) : Receive(n)
    \/ Body \/ ChunksDone \/ DropTrailer \/ ChunkSize \/ Chunk
    \/ Fallback \/ Heads
    \/ Terminated

Spec == Init /\ [][Next]_vars
-------------------------------------------------------------------------------
(* Properties.                                                             *)

(* However the requests are cut, the application is handed the same        *)
(* requests, the same bytes of their bodies and one end for each, in       *)
(* order, and what is malformed is refused with the same error.            *)
RequestsIntact ==
    /\ IsPrefix(parser.events, stream.events)
    /\ /\ phase = "idle" /\ parser.state # 101
       /\ arrived = Len(stream.wire) \/ parser.state # 200
       => parser.events = stream.events /\ parser.state = stream.verdict

(* The fallback holds a head that is not complete, shorter than the limit, *)
(* and nothing else: a head found in it ends behind what was there before, *)
(* so that "consumed everything in fallback buffer" holds and the number   *)
(* of bytes consumed of the new data is never negative; and while a body   *)
(* is on its way the fallback is empty.                                    *)
FallbackIncomplete ==
    /\ Len(parser.fallback) < MaxFallback
    /\ parser.left # NoBody => parser.fallback = <<>>
    /\ \A buf \in {Fenced(parser.fallback)} : GetHeaders(buf).consumed = 0

(* Every call returns: each pass of a loop consumes something, or is the   *)
(* last one.  (That some pass is possible is the check for deadlock.)      *)
CallReturns ==
    [][phase # "idle" =>
        \/ phase' = "idle" \/ Len(data') < Len(data)
        \/ phase = "body" /\ phase' = "heads"]_vars
===============================================================================
