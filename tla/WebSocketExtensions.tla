------------------------ MODULE WebSocketExtensions ------------------------
(***************************************************************************)
(* The negotiation of permessage-deflate (src/src/WebSocketExtensions.h)    *)
(* and of the compressor and decompressor a WebSocket gets from it          *)
(* (src/src/HttpResponse.h, upgrade), and what it then makes of the messages *)
(* it sends (src/src/PerMessageDeflate.h and WebSocket.h).                  *)
(*                                                                          *)
(* The client's offer is the sequence of its tokens [tok, val]: getToken    *)
(* hashes a word to a number the parser knows, or to one it does not, and   *)
(* reads digits as a number ("number", with val).  Window sizes are in      *)
(* bits, and 0 is no context takeover.                                      *)
(***************************************************************************)
EXTENDS Integers, SequencesExt, Bitwise

CONSTANT DEFLATE_OUTPUT_CHUNK  \* what zlib is given to write into, in one call

ASSUME ChunkAssumption == DEFLATE_OUTPUT_CHUNK \in Nat /\ DEFLATE_OUTPUT_CHUNK >= 6

DISABLED == 0
SHARED_COMPRESSOR == 1
SHARED_DECOMPRESSOR == 256
DEDICATED_COMPRESSOR_3KB == 9 * 16 + 1
DEDICATED_COMPRESSOR == 15 * 16 + 8

\* What the parser has collected; target is the field lastInteger points to.
NoOffer == [deflate |-> FALSE, webkit |-> FALSE, noTakeover |-> FALSE, bits |-> 0,
            serverNoTakeover |-> FALSE, clientNoTakeover |-> FALSE,
            serverBits |-> 0, clientBits |-> 0, target |-> "", stopped |-> FALSE]

Introduces(token) == token.tok \in {"permessage-deflate", "x-webkit-deflate-frame"}

\* A number that is 0 is the end of the offer to the parser.
Ends(token) == token.tok = "number" /\ token.val = 0

ReadToken(ep, token) ==
    CASE ep.stopped -> ep
      [] Introduces(token) \/ Ends(token) -> [ep EXCEPT !.stopped = TRUE]
      [] token.tok = "no_context_takeover" -> [ep EXCEPT !.noTakeover = TRUE]
      [] token.tok = "server_no_context_takeover" -> [ep EXCEPT !.serverNoTakeover = TRUE]
      [] token.tok = "client_no_context_takeover" -> [ep EXCEPT !.clientNoTakeover = TRUE]
      [] token.tok = "max_window_bits" -> [ep EXCEPT !.bits = 1, !.target = "bits"]
      [] token.tok = "server_max_window_bits" -> [ep EXCEPT !.serverBits = 1, !.target = "serverBits"]
      [] token.tok = "client_max_window_bits" -> [ep EXCEPT !.clientBits = 1, !.target = "clientBits"]
      [] token.tok = "number" /\ ep.target # "" -> [ep EXCEPT ![ep.target] = token.val]
      [] OTHER -> ep

ExtensionsParser(offer) ==
    LET first == SelectInSeq(offer, LAMBDA t : Introduces(t) \/ Ends(t))
    IN IF first = 0 \/ Ends(offer[first]) THEN NoOffer
       ELSE FoldLeft(ReadToken,
                     [NoOffer EXCEPT !.deflate = offer[first].tok = "permessage-deflate",
                                     !.webkit = offer[first].tok = "x-webkit-deflate-frame"],
                     SubSeq(offer, first + 1, Len(offer)))

\* An agreement: the windows of the two directions, and what the response says of
\* them (a number of bits, 0 for no context takeover, 15 where it says nothing).
Refused == [ok |-> FALSE, compress |-> 0, inflate |-> 0, serverSaid |-> 15, clientSaid |-> 15]

Agreed(compress, inflate, serverSaid, clientSaid) ==
    [ok |-> TRUE, compress |-> compress, inflate |-> inflate,
     serverSaid |-> serverSaid, clientSaid |-> clientSaid]

NegotiateWebkit(ep, wantedCompress, wantedInflate) ==
    LET limited == ep.bits # 0 /\ ep.bits < wantedCompress
        compress == IF ep.noTakeover THEN 0 ELSE IF limited THEN ep.bits ELSE wantedCompress
    IN IF (ep.noTakeover /\ wantedCompress # 0) \/ (limited /\ ep.bits = 8) THEN Refused
       ELSE Agreed(compress, wantedInflate, 15, wantedInflate)

\* Mutant: the inflater has the size wanted, whatever the client asked for.
ClientWindowWanted(ep, wanted) == wanted

ClientWindow(ep, wanted) ==
    LET window == IF ep.clientNoTakeover THEN 0
                  ELSE IF ep.clientBits \notin {0, 1} THEN Min({ep.clientBits, wanted}) ELSE wanted
    IN IF window < 15 /\ ep.clientBits = 0 THEN 0 ELSE window

\* A demand of no context takeover for the server is not met; zlib's smallest
\* window is 9 bits.
ServerWindow(ep, wanted) ==
    LET asked == Min({ep.serverBits, wanted})
    IN IF ep.serverNoTakeover \/ ep.serverBits = 0 THEN wanted
       ELSE IF asked = 8 THEN 9 ELSE asked

NegotiateDeflate(ep, wantedCompress, wantedInflate) ==
    LET compress == ServerWindow(ep, wantedCompress)
        inflate == ClientWindow(ep, wantedInflate)
    IN Agreed(compress, inflate, compress, inflate)

InRange(window) == window = 0 \/ window \in 8..15

NegotiateCompression(wantedCompress, wantedInflate, offer) ==
    LET ep == ExtensionsParser(offer)
        got == CASE ep.webkit -> NegotiateWebkit(ep, wantedCompress, wantedInflate)
                 [] ep.deflate -> NegotiateDeflate(ep, wantedCompress, wantedInflate)
                 [] OTHER -> Refused
    IN IF InRange(got.compress) /\ InRange(got.inflate) THEN got ELSE Refused

\* upgrade(): the options of the socket, from those of its context and the offer.
CompressorBits(options) == (options % 256) \div 16
DecompressorBits(options) == (options \div 256) % 16

WantedInflate(options) == IF DecompressorBits(options) = 1 THEN 0 ELSE DecompressorBits(options)

DedicatedCompressor(window, options) ==
    IF options & DEDICATED_COMPRESSOR_3KB # 0 THEN DEDICATED_COMPRESSOR_3KB
    ELSE window * 16 + (window - 7)

Upgrade(options, offer) ==
    LET got == IF offer = <<>> \/ options = DISABLED THEN Refused
               ELSE NegotiateCompression(CompressorBits(options), WantedInflate(options), offer)
        compressor == IF got.compress = 0 THEN SHARED_COMPRESSOR
                      ELSE DedicatedCompressor(got.compress, options)
        decompressor == IF got.inflate = 0 THEN SHARED_DECOMPRESSOR ELSE got.inflate * 256
    IN [agreed |-> got,
        options |-> IF got.ok THEN compressor + decompressor ELSE DISABLED]
-----------------------------------------------------------------------------
(* A message that is sent whole: [length, zlib, opCode, how, receiving].    *)
(* zlib is the number of bytes zlib makes of it, the 4 of the flush at the  *)
(* end included; how is "plain", "compress" or "prepared"; receiving is     *)
(* whether fragments of a compressed message are arriving meanwhile.  Of a  *)
(* stream counts what it has deflated since it was last reset, its history. *)

DeflationStream(options) == [window |-> CompressorBits(options), history |-> <<>>]

\* The loop's, made by the first ws() with compression, or by prepareMessage.
LoopStream == DeflationStream(DEDICATED_COMPRESSOR)

\* The calls of zlib that fill the chunk go to dynamicDeflationBuffer.  The flush's
\* 4 bytes are left off the end of what was collected, or else of the one chunk.
Deflated(message) ==
    LET last == message.zlib % DEFLATE_OUTPUT_CHUNK
        dynamic == message.zlib - last
    IN IF dynamic # 0 THEN dynamic + last - 4 ELSE last - 4

Deflate(stream, message, reset) ==
    [stream EXCEPT !.history = IF reset THEN <<>> ELSE Append(@, message)]

\* WebSocketData: a stream of its own unless the compressor is the shared one.
Socket(upgrade) ==
    LET own == upgrade.options % 256 # SHARED_COMPRESSOR
    IN [enabled |-> upgrade.agreed.ok, own |-> own,
        stream |-> IF own THEN DeflationStream(upgrade.options) ELSE LoopStream,
        frames |-> <<>>]

\* A frame: whether it says that it is compressed, and what its payload is.
Frame(message, compressed, payload, size, stream) ==
    [message |-> message, compressed |-> compressed, payload |-> payload, size |-> size,
     window |-> stream.window, history |-> stream.history]

\* compressionStatus is COMPRESSED_FRAME from the first fragment to the last one.
HasNegotiatedCompression(socket, message) == socket.enabled /\ ~message.receiving

PrepareMessage(message) == Frame(message, TRUE, "deflated", Deflated(message), LoopStream)

\* send with the compress hint, which is corrected.
Compresses(socket, message) ==
    message.length > 0 /\ message.opCode < 3 /\ HasNegotiatedCompression(socket, message)

SendCompressed(socket, message) ==
    [socket EXCEPT !.frames = Append(@, Frame(message, TRUE, "deflated", Deflated(message), socket.stream)),
                   !.stream = Deflate(@, message, ~socket.own)]

SendPlain(socket, message) ==
    [socket EXCEPT !.frames = Append(@, Frame(message, FALSE, "raw", message.length, socket.stream))]

\* Deflated by the loop's stream, whichever the socket has.
SendPrepared(socket, message) ==
    IF HasNegotiatedCompression(socket, message) /\ PrepareMessage(message).size < message.length
    THEN [socket EXCEPT !.frames =
              Append(@, [PrepareMessage(message) EXCEPT !.compressed = Compresses(socket, message)])]
    ELSE SendPlain(socket, message)

SendMessage(socket, message) ==
    CASE message.how = "prepared" -> SendPrepared(socket, message)
      [] message.how = "compress" /\ Compresses(socket, message) -> SendCompressed(socket, message)
      [] OTHER -> SendPlain(socket, message)

FramesOf(upgrade, messages) == FoldLeft(SendMessage, Socket(upgrade), messages).frames
=============================================================================
