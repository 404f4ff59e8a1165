----------------------------- MODULE HttpResponse -----------------------------
(***************************************************************************)
(* The state of the HTTP connections of one loop, and the calls that the   *)
(* application makes on an HttpResponse, over the write side of            *)
(* AsyncSocket.  The handlers that make up the rest of the specification   *)
(* are in HttpContext.                                                     *)
(*                                                                         *)
(* The bytes of a response are tokens [r, k, i]: the number of its request *)
(* on the connection, what it is, and a number: the position of a byte of  *)
(* the body, or the announced length ("length" stands for the end of the   *)
(* head, also where there is no Content-Length).  The several writes that  *)
(* make up a head (status, headers, length), and those of a chunk, are one *)
(* write.                                                                  *)
(***************************************************************************)
EXTENDS AsyncSocket

CONSTANTS
    Bodies,       \* lengths of response bodies
    Rooms,        \* what the kernel may take in one step
    Throughput,   \* HTTP_RECEIVE_THROUGHPUT_BYTES * HTTP_IDLE_TIMEOUT_S
    MaxRequests,  \* bound of the model on the requests of a connection
    MaxDepth,     \* bound of the model on nested handlers and blocks
    MaxTokens,    \* bound of the model on the tokens of a connection
    Usage         \* what peers and application do besides the usual

(* "pipeline": the peer does not wait for a response before it sends the   *)
(* next request.  "malformed": it sends what the parser refuses.  "head":  *)
(* the application calls endWithoutBody with a length.  "early": it        *)
(* responds while it waits for the rest of the request's body.  "late": it *)
(* attaches a data handler after the request's body has arrived.           *)
(* "closing": it closes the connection from its data handler.  "split": a  *)
(* head with Content-Length: 0 arrives in two pieces.  "lateclose": the    *)
(* application first asks to close when the head has been written.         *)
ASSUME UsageAssumption ==
    Usage \subseteq {"pipeline", "malformed", "head", "early", "late",
                    "closing", "split", "lateclose"}
ASSUME HttpAssumption == /\ Bodies \subseteq Nat
                         /\ Rooms \subseteq Nat
                         /\ Throughput \in Nat
                         /\ MaxRequests \in Nat
                         /\ MaxDepth \in Nat
                         /\ MaxTokens \in Nat

VARIABLES
    io,       \* the record of AsyncSocket
    res,      \* HttpResponseData of every socket, and its timer
    stack,    \* handlers, parser callbacks and blocks, innermost last
    request,  \* history: number of requests given to the application
    made,     \* history: the tokens the application was told are on their way
    done,     \* history: the requests whose response is complete
    aborted,  \* history: the requests whose onAborted was called
    goodbye   \* history: sockets with a complete response that is the last

vars == <<io, res, stack, request, made, done, aborted, goodbye>>

(* `pending`, `status`, `chunked`, `ended` and `close` are the bits of     *)
(* HttpResponseData::state; `total` is the length the application has      *)
(* announced; a handler is the request that attached it, or 0; `body` is   *)
(* the kind of body the parser is inside of, remainingStreamingBytes.      *)
Fresh == [pending |-> FALSE, status |-> FALSE, chunked |-> FALSE,
          ended |-> FALSE, close |-> FALSE, offset |-> 0, total |-> 0,
          onWritable |-> 0, onAborted |-> 0, inStream |-> 0,
          received |-> 0, timer |-> FALSE, paused |-> FALSE,
          body |-> "none", open |-> FALSE]

Connected(s) == res[s].open /\ s \notin io.closed

Atop(kind) == stack # <<>> /\ stack[Len(stack)].kind = kind
Top == stack[Len(stack)]
Pop == SubSeq(stack, 1, Len(stack) - 1)
Push(kind, s, r, fin) == Append(stack, [kind |-> kind, s |-> s, r |-> r, fin |-> fin])

(* The application runs: in a handler of its own, or between events, but   *)
(* not while the parser does.  Its response is "alive and accessible until *)
(* either its onAborted callback emits, or you've responded".              *)
Usable(s) == ~Atop("data") /\ Connected(s) /\ res[s].pending

Init ==
    /\ io = InitIO
    /\ res = [s \in Sockets |-> Fresh]
    /\ stack = <<>>
    /\ request = [s \in Sockets |-> 0]
    /\ made = [s \in Sockets |-> <<>>]
    /\ done = [s \in Sockets |-> {}]
    /\ aborted = [s \in Sockets |-> {}]
    /\ goodbye = {}

-----------------------------------------------------------------------------
(* us_socket_close and the close handler it calls at once.                 *)
ClosedIO(o, s) == [Clear(o, s) EXCEPT !.closed = @ \cup {s}]

CloseSocket(s) ==
    /\ io' = ClosedIO(io, s)
    /\ aborted' = IF s \notin io.closed /\ res[s].onAborted # 0
                  THEN [aborted EXCEPT ![s] = @ \cup {res[s].onAborted}]
                  ELSE aborted

(* A complete response that is the last one: FIN and close, once nothing   *)
(* is buffered.                                                            *)
MustClose(o, r, s) ==
    r.close /\ ~r.pending /\ TotalLength(o, s) = 0 /\ s \notin o.closed

CloseIfLast(o, r, s) ==
    IF MustClose(o, r, s) THEN ClosedIO(Shutdown(o, s), s) ELSE o

\* Mutant: the handlers outlive the response.
MarkDoneKeepHandlers(r) == [r EXCEPT !.pending = FALSE]

MarkDone(r) == [r EXCEPT !.pending = FALSE, !.onAborted = 0, !.onWritable = 0]

-----------------------------------------------------------------------------
(* Writing a response.                                                     *)

Token(s, k, i) == [r |-> request[s], k |-> k, i |-> i]
Status(s) == IF res[s].status THEN <<>> ELSE <<Token(s, "status", 0)>>
Body(s, n) == [j \in 1..n |-> Token(s, "data", res[s].offset + j)]

(* Connection: close                                                       *)
Farewell(s, close) ==
    IF close /\ ~res[s].close THEN <<Token(s, "header", 0)>> ELSE <<>>

WriteSome(o, s, src, room, optionally) ==
    IF src = <<>> THEN Result(o, 0, FALSE) ELSE Write(o, s, src, room, optionally)

(* A head, then data, of which the kernel takes `room` together.           *)
WriteBoth(s, head, data, room, optionally) ==
    LET Then(h) ==
            WriteSome(h.io, s, data, room - (Len(h.io.sent[s]) - Len(io.sent[s])),
                      optionally)
    IN  Then(WriteSome(io, s, head, room, FALSE))

Makes(s, tokens) ==
    /\ Len(made[s]) + Len(tokens) <= MaxTokens
    /\ made' = [made EXCEPT ![s] = @ \o tokens]

(* writeStatus and writeHeader: one header stands for several.             *)
WriteHeader(s, room) ==
    LET head == Status(s) \o <<Token(s, "header", 0)>>
    IN  /\ Usable(s)
        /\ ~res[s].status
        /\ Makes(s, head)
        /\ io' = WriteSome(io, s, head, room, FALSE).io
        /\ res' = [res EXCEPT ![s].status = TRUE]
        /\ UNCHANGED <<stack, request, done, aborted, goodbye>>

(* write: a chunk                                                          *)
WriteChunk(s, room) ==
    LET head == Status(s) \o (IF res[s].chunked THEN <<>>
                              ELSE <<Token(s, "chunked", 0)>>)
        chunk == <<Token(s, "chunk", 0)>>
        w == WriteBoth(s, head, chunk, room, FALSE)
    IN  /\ Usable(s)
        /\ ~res[s].ended
        /\ Makes(s, head \o chunk)
        /\ io' = w.io
        /\ res' = [res EXCEPT ![s].status = TRUE, ![s].chunked = TRUE,
                              ![s].timer = @ \/ w.failed]
        /\ UNCHANGED <<stack, request, done, aborted, goodbye>>

(* What internalEnd does to the tokens, the socket and HttpResponseData.   *)
(* Chunked: a last chunk, never optional.                                  *)
EndChunked(s, n, total, optionally, close, room) ==
    LET tokens == Status(s)
                  \o Farewell(s, close)
                  \o (IF n > 0 THEN <<Token(s, "chunk", 0)>> ELSE <<>>)
                  \o <<Token(s, "last", 0)>>
        w == WriteSome(io, s, tokens, room, FALSE)
    IN  [io |-> w.io,
         made |-> tokens,
         res |-> [MarkDone(res[s]) EXCEPT !.status = TRUE, !.timer = TRUE,
                                          !.close = @ \/ close]]

(* With a length: head on the first call, then as much of the data as can  *)
(* be written, or all of it.                                               *)
\* Mutant: only a failure starts the timer.
EndWithLengthNoTimer(s, n, total, optionally, close, room) ==
    LET head == Status(s)
                \o Farewell(s, close)
                \o (IF res[s].ended THEN <<>> ELSE <<Token(s, "length", total)>>)
        data == Body(s, n)
        Ended(w) ==
            LET offset == res[s].offset + w.written
                success == n = 0 \/ (w.written = n /\ ~w.failed)
                after == [res[s] EXCEPT !.status = TRUE, !.ended = TRUE,
                            !.close = @ \/ close, !.offset = offset, !.total = total,
                            !.timer = @ \/ ~success]
            IN  [io |-> w.io,
                 made |-> head \o (IF optionally THEN SubSeq(data, 1, w.written)
                                   ELSE data),
                 res |-> IF offset = total \/ n = 0 THEN MarkDone(after) ELSE after]
    IN  Ended(WriteBoth(s, head, data, room, optionally))

EndWithLength(s, n, total, optionally, close, room) ==
    LET head == Status(s)
                \o Farewell(s, close)
                \o (IF res[s].ended THEN <<>> ELSE <<Token(s, "length", total)>>)
        data == Body(s, n)
        Ended(w) ==
            LET offset == res[s].offset + w.written
                success == n = 0 \/ (w.written = n /\ ~w.failed)
                after == [res[s] EXCEPT !.status = TRUE, !.ended = TRUE,
                            !.close = @ \/ close, !.offset = offset, !.total = total,
                            !.timer = @ \/ ~success \/ offset = total]
            IN  [io |-> w.io,
                 made |-> head \o (IF optionally THEN SubSeq(data, 1, w.written)
                                   ELSE data),
                 res |-> IF offset = total \/ n = 0 THEN MarkDone(after) ELSE after]
    IN  Ended(WriteBoth(s, head, data, room, optionally))

\* Mutant: a corked response is closed before it is uncorked.
ConcludeCorked(s, e) ==
    /\ Makes(s, e.made)
    /\ io' = CloseIfLast(e.io, e.res, s)
    /\ res' = [res EXCEPT ![s] = e.res]
    /\ done' = IF e.res.pending THEN done
               ELSE [done EXCEPT ![s] = @ \cup {request[s]}]
    /\ goodbye' = IF ~e.res.pending /\ e.res.close
                  THEN goodbye \cup {s} ELSE goodbye
    /\ UNCHANGED <<stack, request, aborted>>

(* The end of internalEnd: when the response is complete, it is the last   *)
(* one and the socket is not corked, the connection is closed.             *)
Conclude(s, e) ==
    /\ Makes(s, e.made)
    /\ io' = IF IsCorked(e.io, s) THEN e.io ELSE CloseIfLast(e.io, e.res, s)
    /\ res' = [res EXCEPT ![s] = e.res]
    /\ done' = IF e.res.pending THEN done
               ELSE [done EXCEPT ![s] = @ \cup {request[s]}]
    /\ goodbye' = IF ~e.res.pending /\ e.res.close
                  THEN goodbye \cup {s} ELSE goodbye
    /\ UNCHANGED <<stack, request, aborted>>

InternalEnd(s, n, total, optionally, close, room) ==
    /\ Usable(s)
    /\ Conclude(s, IF res[s].chunked
                   THEN EndChunked(s, n, total, optionally, close, room)
                   ELSE EndWithLength(s, n, total, optionally, close, room))

(* What the application does unless `Usage` says otherwise.                *)
InData(s) == \E j \in 1..Len(stack) : stack[j].kind = "stream" /\ stack[j].s = s
LastPiece(s) ==
    \E j \in 1..Len(stack) : stack[j].kind = "stream" /\ stack[j].s = s /\ stack[j].fin
EndAllowed(s, close) ==
    /\ res[s].inStream # 0 => "early" \in Usage \/ LastPiece(s)
    /\ InData(s) /\ (close \/ res[s].close) => "closing" \in Usage
    /\ close /\ ~res[s].close /\ (res[s].chunked \/ res[s].ended) =>
            "lateclose" \in Usage

(* end, endWithoutBody and tryEnd.  tryEnd is given the data from the      *)
(* offset on; end is not mixed with it.                                    *)
End(s, n, close, room) ==
    /\ EndAllowed(s, close)
    /\ ~res[s].ended
    /\ InternalEnd(s, n, n, FALSE, close, room)

EndWithoutBody(s, total, close, room) ==
    /\ EndAllowed(s, close)
    /\ ~res[s].ended
    /\ "head" \in Usage \/ total = 0
    /\ InternalEnd(s, 0, total, FALSE, close, room)

TryEnd(s, n, total, close, room) ==
    /\ EndAllowed(s, close)
    /\ n > 0
    /\ res[s].offset + n <= total
    /\ res[s].ended => total = res[s].total
    /\ InternalEnd(s, n, total, TRUE, close, room)

(* onAborted, onWritable, onData, pause, resume, close                     *)
AttachAborted(s) ==
    /\ Usable(s)
    /\ res' = [res EXCEPT ![s].onAborted = request[s]]
    /\ UNCHANGED <<io, stack, request, made, done, aborted, goodbye>>

AttachWritable(s) ==
    /\ Usable(s)
    /\ res' = [res EXCEPT ![s].onWritable = request[s]]
    /\ UNCHANGED <<io, stack, request, made, done, aborted, goodbye>>

AttachData(s) ==
    /\ Usable(s)
    /\ "late" \in Usage \/ (Atop("handler") /\ Top.s = s)
    /\ res' = [res EXCEPT ![s].inStream = request[s], ![s].received = 0]
    /\ UNCHANGED <<io, stack, request, made, done, aborted, goodbye>>

Pause(s) ==
    /\ Usable(s)
    /\ res' = [res EXCEPT ![s].timer = FALSE, ![s].paused = TRUE]
    /\ UNCHANGED <<io, stack, request, made, done, aborted, goodbye>>

Resume(s) ==
    /\ Usable(s)
    /\ res' = [res EXCEPT ![s].timer = TRUE, ![s].paused = FALSE]
    /\ UNCHANGED <<io, stack, request, made, done, aborted, goodbye>>

Close(s) ==
    /\ Usable(s)
    /\ InData(s) => "closing" \in Usage
    /\ CloseSocket(s)
    /\ UNCHANGED <<res, stack, request, made, done, goodbye>>

(* cork; `fin` of its frame says whether it corks.                         *)
CorkBegin(s) ==
    LET corks == ~IsCorked(io, s) /\ CanCork(io)
    IN  /\ Usable(s)
        /\ Len(stack) < MaxDepth
        /\ io' = IF corks THEN Cork(io, s) ELSE io
        /\ stack' = Push("block", s, 0, corks)
        /\ UNCHANGED <<res, request, made, done, aborted, goodbye>>

(* Its return, when it has corked and nobody has uncorked since: uncork    *)
(* whoever is corked, time out on failure, close after a last response.    *)
CorkEnd(room) ==
    LET s == Top.s
        r == Uncork(io, io.corked, <<>>, room, FALSE)
    IN  /\ Atop("block")
        /\ stack' = Pop
        /\ IF Top.fin /\ ~CanCork(io)
           THEN /\ io' = IF IsCorked(io, s) THEN CloseIfLast(r.io, res[s], s) ELSE r.io
                /\ res' = [res EXCEPT ![s].timer = @ \/ (IsCorked(io, s) /\ r.failed)]
           ELSE UNCHANGED <<io, res>>
        /\ UNCHANGED <<request, made, done, aborted, goodbye>>

=============================================================================
