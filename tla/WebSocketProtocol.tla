--------------------------- MODULE WebSocketProtocol ---------------------------
(***************************************************************************)
(* The frame parser of WebSocketProtocol.h and the handling of fragments   *)
(* in WebSocketContext.h, for one connection of a server.  The peer sends  *)
(* a stream of frames; uSockets delivers its bytes in pieces cut anywhere, *)
(* and every piece is one call of consume.  The loop of consume takes one  *)
(* step per iteration; `src` is what the call has left to parse.           *)
(*                                                                         *)
(* A byte on the wire is known by its frame and its place in it, so that a *)
(* parser that lost its place, or unmasks with the wrong byte of the mask, *)
(* is seen to do so.  Payload bytes are numbers, for the UTF-8 check.      *)
(***************************************************************************)
EXTENDS Integers, Sequences, SequencesExt

CONSTANTS
    Streams,       \* what the peer may send: sequences of frames
    HeaderSize,    \* SHORT, MEDIUM and LONG_MESSAGE_HEADER
    MaxPayload,    \* maxPayloadLength
    MaxShort,      \* longest payload a short header can announce (125)
    Negotiated,    \* whether permessage-deflate was agreed on
    InflateBuffer  \* LARGE_BUFFER_SIZE

Sizes == {"short", "medium", "long"}

ASSUME SizeAssumption ==
    /\ HeaderSize \in [Sizes -> Nat \ {0}]
    /\ HeaderSize["short"] < HeaderSize["medium"]
    /\ HeaderSize["medium"] < HeaderSize["long"]
    /\ MaxPayload \in Nat /\ MaxShort \in Nat
    /\ Negotiated \in BOOLEAN
    /\ InflateBuffer \in Nat \ {0}

(* What the header of a frame says, and its payload unmasked.              *)
Byte == 0..255
Frames == [op : 0..15, fin : BOOLEAN, rsv1 : BOOLEAN, rsv23 : BOOLEAN,
           size : Sizes, payload : Seq(Byte)]

ASSUME StreamAssumption ==
    /\ Streams \subseteq Seq(Frames)
    /\ \A fs \in Streams : \A n \in DOMAIN fs :
        fs[n].size = "short" => Len(fs[n].payload) <= MaxShort

VARIABLES
    stream,        \* the frames of this connection
    arrived,       \* how many bytes of them have been received
    src,           \* rest of the data of the call of consume under way
    busy,          \* a call of consume is under way
    conn           \* WebSocketState and WebSocketData, and the events emitted

vars == <<stream, arrived, src, busy, conn>>

CONTINUATION == 0
TEXT == 1
BINARY == 2
CLOSE == 8
PING == 9
PONG == 10

-----------------------------------------------------------------------------
(* The wire.                                                               *)

WireLength(f) == HeaderSize[f.size] + Len(f.payload)

(* The bytes of frame n, and of the whole stream.                          *)
Wire(fs, n) == [i \in 1..WireLength(fs[n]) |-> [frame |-> n, at |-> i]]
WholeWire(fs) == FlattenSeq([n \in DOMAIN fs |-> Wire(fs, n)])

(* Bytes in a mask.                                                        *)
MaskSize == 4

(* Stands for a byte that was unmasked with the wrong byte of the mask.    *)
Garbled == -1

(* unmaskInplace, unmaskImprecise: byte j of the piece with mask[j mod 4]. *)
Unmask(bytes, mask) ==
    [j \in DOMAIN bytes |->
        LET f == stream[bytes[j].frame]
            place == bytes[j].at - HeaderSize[f.size]
        IN  IF /\ place \in DOMAIN f.payload
               /\ mask[(j - 1) % MaskSize] = (place - 1) % MaskSize
            THEN f.payload[place] ELSE Garbled]

FreshMask == [i \in 0..MaskSize - 1 |-> i]

\* Mutant: rotates in the other direction.
RotateBack(mask, offset) == [i \in 0..MaskSize - 1 |-> mask[(i + offset) % MaskSize]]

RotateMask(mask, offset) == [i \in 0..MaskSize - 1 |-> mask[(i - offset) % MaskSize]]

-----------------------------------------------------------------------------
(* isValidUtf8: the byte-by-byte path; the path of 16 bytes skips ASCII.   *)

(* How long the character at i is, 0 when it is not one.                   *)
Utf8Length(s, i) ==
    LET Tail80(k) == i + k <= Len(s) /\ s[i + k] \in 128..191
    IN  IF s[i] < 128 THEN 1
        ELSE IF s[i] \in 192..223 /\ Tail80(1) /\ s[i] \notin {192, 193} THEN 2
        ELSE IF /\ s[i] \in 224..239 /\ Tail80(1) /\ Tail80(2)
                /\ ~(s[i] = 224 /\ s[i + 1] \in 128..159)
                /\ ~(s[i] = 237 /\ s[i + 1] \in 160..191) THEN 3
        ELSE IF /\ s[i] \in 240..247 /\ Tail80(1) /\ Tail80(2) /\ Tail80(3)
                /\ ~(s[i] = 240 /\ s[i + 1] \in 128..143)
                /\ ~(s[i] = 244 /\ s[i + 1] > 143) /\ s[i] <= 244 THEN 4
        ELSE 0

IsValidUtf8(s) ==
    LET valid[i \in 1..Len(s) + 4] ==
            i > Len(s) \/ LET n == Utf8Length(s, i) IN n > 0 /\ valid[i + n]
    IN  valid[1]

(* parseClosePayload; the code is two bytes in network order.              *)
ParseClosePayload(p) ==
    IF Len(p) < 2 THEN [code |-> 1005, message |-> <<>>]
    ELSE LET code == p[1] * 256 + p[2]
             message == SubSeq(p, 3, Len(p))
         IN  IF \/ code < 1000 \/ code > 4999
                \/ code > 1011 /\ code < 4000
                \/ code \in 1004..1006
                \/ ~IsValidUtf8(message)
             THEN [code |-> 1006, message |-> <<>>]
             ELSE [code |-> code, message |-> message]

FormatClosePayload(code, message) ==
    IF code \in {0, 1005, 1006} THEN <<>>
    ELSE <<code \div 256, code % 256>> \o message

-----------------------------------------------------------------------------
(* InflationStream::inflate.  What zlib makes of the data is external: two *)
(* bytes for each.  The output is taken a buffer at a time.                *)

Corrupt == 255
Expand(data) == data \o data

(* dynamicInflationBuffer after the loop that has taken `taken` of n bytes. *)
InflateLoop(n) ==
    LET loop[taken \in 0..n] ==
            IF n - taken < InflateBuffer THEN taken
            ELSE IF taken + InflateBuffer > MaxPayload THEN taken + InflateBuffer
            ELSE loop[taken + InflateBuffer]
    IN  loop[0]

(* Whether there is a result, and the result.                              *)
Inflate(data) ==
    IF \/ Corrupt \in Range(data)
       \/ InflateLoop(Len(Expand(data))) > MaxPayload
       \/ Len(Expand(data)) > MaxPayload
    THEN <<FALSE, <<>>>> ELSE <<TRUE, Expand(data)>>

-----------------------------------------------------------------------------
(* The callbacks of the parser.  Each takes the connection c and gives it  *)
(* as it is afterwards; it is broken when its state is no longer "open".   *)
(* `app` is what the handlers of the application do, which are all there:  *)
(* they return, or one ends or closes the connection ("left").             *)
(* `replies` is what send and end were called with.                        *)

Reactions == {"open", "left"}

ForceClose(c) == [c EXCEPT !.state = "closed"]

(* The test of rsv1 in consume, with setCompressed.                        *)
SetCompressed(c, f) ==
    IF ~f.rsv1 THEN c
    ELSE IF c.compression = "enabled" THEN [c EXCEPT !.compression = "compressed"]
    ELSE ForceClose(c)

\* Mutant: off by one.
RefuseLarger(n) == MaxPayload + 1 < n

RefusePayloadLength(n) == MaxPayload < n

(* The UTF-8 check and the message event.                                  *)
EmitMessage(c, data, op, app) ==
    IF op = TEXT /\ ~IsValidUtf8(data) THEN ForceClose(c)
    ELSE [c EXCEPT !.events = Append(@, [op |-> op, data |-> data]), !.state = app]

(* A complete message, inflated first when its frame was compressed.       *)
HandleMessage(c, data, op, app) ==
    IF c.compression # "compressed" THEN EmitMessage(c, data, op, app)
    ELSE LET inflated == Inflate(data)
             c1 == [c EXCEPT !.compression = "enabled"]
         IN  IF inflated[1] THEN EmitMessage(c1, inflated[2], op, app)
             ELSE ForceClose(c1)

(* A complete control frame.  A ping is answered before its handler runs;  *)
(* where the limit refuses the pong, the dropped handler may close first,  *)
(* and the ping handler is called all the same: `app` is what the two have *)
(* done when the second returns.                                           *)
HandleControl(c, data, op, app) ==
    IF op = CLOSE
    THEN LET cf == ParseClosePayload(data)
         IN  [c EXCEPT !.state = "ended",
                       !.replies = Append(@, [op |-> CLOSE,
                           data |-> FormatClosePayload(cf.code, cf.message)])]
    ELSE LET c1 == IF op = PING
                   THEN [c EXCEPT !.replies = Append(@, [op |-> PONG, data |-> data])] ELSE c
         IN  [c1 EXCEPT !.events = Append(@, [op |-> op, data |-> data]), !.state = app]

(* What is cleared behind an event, unless its handler broke.              *)
ClearFragment(c) ==
    IF c.state = "open" THEN [c EXCEPT !.fragment = <<>>] ELSE c
DropTip(c) ==
    IF c.state = "open"
    THEN [c EXCEPT !.fragment = SubSeq(@, 1, Len(@) - c.tip), !.tip = 0] ELSE c

Appended(c, data) == [c EXCEPT !.fragment = @ \o data]
AppendedTip(c, data) == [Appended(c, data) EXCEPT !.tip = @ + Len(data)]
Tip(c) == SubSeq(c.fragment, Len(c.fragment) - c.tip + 1, Len(c.fragment))

HandleFragment(c, data, remaining, op, fin, app) ==
    LET done == remaining = 0 /\ fin
    IN  IF op < 3 THEN
            IF done /\ c.fragment = <<>> THEN HandleMessage(c, data, op, app)
            ELSE IF RefusePayloadLength(Len(data) + Len(c.fragment)) THEN ForceClose(c)
            ELSE IF done
            THEN ClearFragment(HandleMessage(Appended(c, data), c.fragment \o data, op, app))
            ELSE Appended(c, data)
        ELSE IF done /\ c.tip = 0 THEN HandleControl(c, data, op, app)
        ELSE IF done
        THEN LET c1 == AppendedTip(c, data)
             IN  DropTip(HandleControl(c1, Tip(c1), op, app))
        ELSE AppendedTip(c, data)

-----------------------------------------------------------------------------
(* consume.                                                                *)

Init ==
    /\ stream \in Streams
    /\ arrived = 0 /\ src = <<>> /\ busy = FALSE
    /\ conn = [wantsHead |-> TRUE, spill |-> <<>>, opStack |-> <<>>, lastFin |-> TRUE,
               remaining |-> 0, mask |-> FreshMask, fragment |-> <<>>, tip |-> 0,
               compression |-> IF Negotiated THEN "enabled" ELSE "disabled",
               state |-> "open", events |-> <<>>, replies |-> <<>>]

(* on_data: n bytes arrive, behind what was spilled.  A connection that is *)
(* shutting down reads on, and ignores it.                                 *)
Receive(n) ==
    /\ ~busy /\ conn.state = "open"
    /\ arrived + n <= Len(WholeWire(stream))
    /\ arrived' = arrived + n
    /\ src' = conn.spill \o SubSeq(WholeWire(stream), arrived + 1, arrived + n)
    /\ busy' = TRUE
    /\ UNCHANGED <<stream, conn>>

(* The call of consume returns, having made c of the connection.           *)
Return(c) == conn' = c /\ src' = <<>> /\ busy' = FALSE /\ UNCHANGED <<stream, arrived>>

(* The loop of consume goes on behind n bytes.                             *)
Continue(c, n) ==
    /\ conn' = c /\ src' = SubSeq(src, n + 1, Len(src))
    /\ UNCHANGED <<stream, arrived, busy>>

(* The frame whose header is at src; the header itself may be incomplete.  *)
Frame == stream[src[1].frame]

AtHead == busy /\ conn.wantsHead
HasHead == AtHead /\ Len(src) >= HeaderSize["short"] /\ src[1].at = 1

BadHead(f) ==
    \/ f.rsv23 \/ f.op \in 3..7 \/ f.op > 10
    \/ f.op > 2 /\ (~f.fin \/ f.size # "short")

(* What is left is shorter than a short header.                            *)
Spill ==
    /\ AtHead /\ Len(src) < HeaderSize["short"]
    /\ Return(IF src = <<>> THEN conn ELSE [conn EXCEPT !.spill = src])

RefuseHead ==
    /\ HasHead
    /\ LET c == SetCompressed(conn, Frame)
       IN  /\ c.state # "open" \/ BadHead(Frame)
           /\ Return(ForceClose(c))

(* The header is good as far as the short one goes, and is c by now.       *)
GoodHead(c) == HasHead /\ c.state = "open" /\ ~BadHead(Frame)

(* A longer header has not arrived in full.                                *)
SpillHead ==
    LET c == SetCompressed(conn, Frame)
    IN  /\ HasHead /\ GoodHead(c)
        /\ Len(src) < HeaderSize[Frame.size]
        /\ Return([c EXCEPT !.spill = src])

(* The checks of consumeMessage on the order of frames.                    *)
OutOfOrder(c, f) ==
    IF f.op # CONTINUATION THEN Len(c.opStack) = 2 \/ (~c.lastFin /\ f.op < 2)
    ELSE c.opStack = <<>>

(* The operation is pushed and the fin bit kept.                           *)
Pushed(c, f) ==
    [c EXCEPT !.opStack = IF f.op # CONTINUATION THEN Append(@, f.op) ELSE @,
              !.lastFin = f.fin]

Top(c) == c.opStack[Len(c.opStack)]

(* opStack--, behind a fragment that did not break.                        *)
Popped(c, fin) ==
    IF c.state = "open" /\ fin THEN [c EXCEPT !.opStack = Front(@)] ELSE c

HeadComplete(c) == GoodHead(c) /\ Len(src) >= HeaderSize[Frame.size]

\* Mutant: consume goes on behind the frame it refused.
RefuseMessageGoOn ==
    LET c == SetCompressed(conn, Frame)
    IN  /\ HasHead /\ HeadComplete(c)
        /\ OutOfOrder(c, Frame) \/ RefusePayloadLength(Len(Frame.payload))
        /\ Continue(ForceClose(c), WireLength(Frame))

RefuseMessage ==
    LET c == SetCompressed(conn, Frame)
    IN  /\ HasHead /\ HeadComplete(c)
        /\ OutOfOrder(c, Frame) \/ RefusePayloadLength(Len(Frame.payload))
        /\ Return(ForceClose(IF OutOfOrder(c, Frame) THEN c ELSE Pushed(c, Frame)))

(* consumeMessage of a frame that is there in full.                        *)
AfterWhole(c, f, app) ==
    Popped(HandleFragment(c, Unmask(SubSeq(src, HeaderSize[f.size] + 1, WireLength(f)), FreshMask),
                          0, Top(c), f.fin, app), f.fin)

ConsumeWhole(app) ==
    LET c == SetCompressed(conn, Frame)
        after == AfterWhole(Pushed(c, Frame), Frame, app)
    IN  /\ HasHead /\ HeadComplete(c)
        /\ ~OutOfOrder(c, Frame) /\ ~RefusePayloadLength(Len(Frame.payload))
        /\ WireLength(Frame) <= Len(src)
        /\ IF after.state # "open" THEN Return(after)
           ELSE Continue([after EXCEPT !.spill = <<>>], WireLength(Frame))

(* consumeMessage of the first part of a frame.                            *)
AfterPart(c, f, app) ==
    LET taken == Len(src) - HeaderSize[f.size]
        remaining == WireLength(f) - Len(src)
    IN  HandleFragment(
            [c EXCEPT !.spill = <<>>, !.wantsHead = FALSE, !.remaining = remaining,
                      !.mask = RotateMask(FreshMask, MaskSize - (taken % MaskSize))],
            Unmask(SubSeq(src, HeaderSize[f.size] + 1, Len(src)), FreshMask),
            remaining, Top(c), f.fin, app)

ConsumePart ==
    LET c == SetCompressed(conn, Frame)
    IN  /\ HasHead /\ HeadComplete(c)
        /\ ~OutOfOrder(c, Frame) /\ ~RefusePayloadLength(Len(Frame.payload))
        /\ WireLength(Frame) > Len(src)
        /\ Return(AfterPart(Pushed(c, Frame), Frame, "open"))

(* consumeContinuation: the rest of the frame, or more of it.              *)
ContinueWhole(app) ==
    LET n == conn.remaining
        after == Popped(HandleFragment(conn, Unmask(SubSeq(src, 1, n), conn.mask),
                                       0, Top(conn), conn.lastFin, app), conn.lastFin)
    IN  /\ busy /\ ~conn.wantsHead /\ n <= Len(src)
        /\ IF after.state # "open" THEN Return(after)
           ELSE Continue([after EXCEPT !.wantsHead = TRUE], n)

ContinuePart ==
    LET left == conn.remaining - Len(src)
        after == HandleFragment([conn EXCEPT !.remaining = left], Unmask(src, conn.mask),
                                left, Top(conn), conn.lastFin, "open")
    IN  /\ busy /\ ~conn.wantsHead /\ conn.remaining > Len(src)
        /\ Return(IF after.state # "open" THEN after
                  ELSE [after EXCEPT !.mask =
                            RotateMask(@, MaskSize - (Len(src) % MaskSize))])

Next ==
    \/ \E n \in 1..Len(WholeWire(stream)) : Receive(n)
    \/ Spill \/ RefuseHead \/ SpillHead \/ RefuseMessage \/ ConsumePart \/ ContinuePart
    \/ \E app \in Reactions : ConsumeWhole(app) \/ ContinueWhole(app)

Spec == Init /\ [][Next]_vars

-----------------------------------------------------------------------------
(* What the stream means, frame by frame and whatever the pieces.          *)

(* UTF-8 by an automaton: how many more bytes the character needs, and the *)
(* range the next one is in.                                               *)
Utf8Start == [ok |-> TRUE, need |-> 0, lo |-> 128, hi |-> 191]
Utf8Step(u, b) ==
    CASE u.ok /\ u.need > 0 /\ b \in u.lo..u.hi -> [u EXCEPT !.need = @ - 1, !.lo = 128, !.hi = 191]
      [] u.ok /\ u.need = 0 /\ b \in 0..127 -> u
      [] u.ok /\ u.need = 0 /\ b \in 194..244 ->
            [ok |-> TRUE, need |-> IF b < 224 THEN 1 ELSE IF b < 240 THEN 2 ELSE 3,
             lo |-> IF b = 224 THEN 160 ELSE IF b = 240 THEN 144 ELSE 128,
             hi |-> IF b = 237 THEN 159 ELSE IF b = 244 THEN 143 ELSE 191]
      [] OTHER -> [u EXCEPT !.ok = FALSE]
WellFormed(s) ==
    LET u[i \in 0..Len(s)] == IF i = 0 THEN Utf8Start ELSE Utf8Step(u[i - 1], s[i])
    IN  u[Len(s)].ok /\ u[Len(s)].need = 0

(* A close frame may carry nothing, or a code a peer may send and a text.  *)
LegalClose(p) ==
    /\ Len(p) >= 2
    /\ p[1] * 256 + p[2] \in (1000..1003) \union (1007..1011) \union (4000..4999)
    /\ WellFormed(SubSeq(p, 3, Len(p)))

Refused(m) == [m EXCEPT !.verdict = "closed"]

Message(m, op, data) ==
    IF op = TEXT /\ ~WellFormed(data) THEN Refused(m)
    ELSE [m EXCEPT !.events = Append(@, [op |-> op, data |-> data]),
                   !.op = CONTINUATION, !.data = <<>>, !.compressed = FALSE]

(* A frame that may not come behind those that m stands for.               *)
OpOf(m, f) == IF f.op = CONTINUATION THEN m.op ELSE f.op
Illegal(m, f) ==
    \/ BadHead(f)
    \/ f.rsv1 /\ ~Negotiated
    \/ OpOf(m, f) = CONTINUATION
    \/ Len(f.payload) > MaxPayload
    \/ f.op \in {TEXT, BINARY} /\ m.op # CONTINUATION

Meant(m, f) ==
    LET op == OpOf(m, f)
        data == m.data \o f.payload
        compressed == m.compressed \/ f.rsv1
    IN  IF m.verdict # "open" THEN m
        ELSE IF Illegal(m, f) THEN Refused(m)
        ELSE IF op = CLOSE
        THEN [m EXCEPT !.verdict = "ended",
                       !.replies = Append(@, [op |-> CLOSE,
                           data |-> IF LegalClose(f.payload) THEN f.payload ELSE <<>>])]
        ELSE IF op > 2
        THEN [m EXCEPT !.events = Append(@, [op |-> op, data |-> f.payload]),
                       !.replies = IF op = PING THEN Append(@, [op |-> PONG, data |-> f.payload])
                                   ELSE @]
        ELSE IF Len(data) > MaxPayload THEN Refused(m)
        ELSE IF ~f.fin THEN [m EXCEPT !.op = op, !.data = data, !.compressed = compressed]
        ELSE IF ~compressed THEN Message(m, op, data)
        ELSE IF Corrupt \in Range(data) \/ 2 * Len(data) > MaxPayload THEN Refused(m)
        ELSE Message(m, op, Expand(data))

(* What the first n frames stand for, for each n, and what all of them do. *)
NothingYet == [op |-> CONTINUATION, data |-> <<>>, compressed |-> FALSE,
               verdict |-> "open", events |-> <<>>, replies |-> <<>>]
Meanings(fs) ==
    LET m[n \in 0..Len(fs)] == IF n = 0 THEN NothingYet ELSE Meant(m[n - 1], fs[n])
    IN  m
Meaning(fs) == Meanings(fs)[Len(fs)]

(* A peer that starts a message inside another one is noticed only when    *)
(* the new message is text right behind the unfinished frame.              *)
Plain(fs) ==
    \A n \in 2..Len(fs) :
        LET m == Meanings(fs)[n - 1]
        IN  m.verdict = "open" /\ m.op # CONTINUATION /\ fs[n].op \in {TEXT, BINARY}
                => fs[n].op = TEXT /\ fs[n - 1].op < 3

-----------------------------------------------------------------------------
(* Properties.                                                             *)

(* However the stream is cut, consume makes of it the events, the replies  *)
(* and the outcome its frames stand for: none lost, split, merged, out of  *)
(* order or unmasked wrongly.                                              *)
StreamParsed ==
    LET m == Meaning(stream)
    IN  /\ IsPrefix(conn.events, m.events) /\ IsPrefix(conn.replies, m.replies)
        /\ \/ conn.state \in {"closed", "ended"}
           \/ conn.state = "open" /\ ~busy /\ arrived = Len(WholeWire(stream))
           => /\ conn.events = m.events /\ conn.replies = m.replies
              /\ conn.state = m.verdict

(* A connection that agreed on compression is closed only for a stream     *)
(* that its frames make illegal ("If we have negotiated compression, set   *)
(* this frame compressed", WebSocketContext.h:43).                         *)
CompressedAccepted == conn.state = "closed" => Meaning(stream).verdict = "closed"

(* What is buffered for one connection is bounded however many fragments   *)
(* and control frames arrive: one message of the allowed size and one      *)
(* control frame.                                                          *)
BufferBounded == Len(conn.fragment) - conn.tip <= MaxPayload /\ conn.tip <= MaxShort

(* Once consume has closed the connection, answered a close or had its     *)
(* handler leave, nothing more is emitted or sent.                         *)
SilentOnceBroken ==
    [][conn.state # "open" => conn' = conn /\ ~busy']_vars
=============================================================================
