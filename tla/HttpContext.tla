------------------------------ MODULE HttpContext ------------------------------
(***************************************************************************)
(* HTTP connections on one loop: the handlers that HttpContext installs    *)
(* (open, data, writable, end, timeout), the two callbacks that its data   *)
(* handler gives to the parser, and the application's calls of             *)
(* HttpResponse.                                                           *)
(*                                                                         *)
(* A handler that calls the application is two steps, between which the    *)
(* application may make any calls; `stack` holds the handlers, parser      *)
(* callbacks and cork blocks under way.  What the parser finds in the data *)
(* (requests, pieces of a body, an error) is chosen freely, but the parser *)
(* goes on after a callback exactly when HttpParser does.                  *)
(***************************************************************************)
EXTENDS HttpResponse

(* The frame of the data handler: `at` is "parse", "empty" when the parser *)
(* has yet to emit the empty last piece, "owed" when it has yet to emit    *)
(* what it has of a body with a length, "out" when the data is used up,    *)
(* "stop" when the parser returned nullptr.  `first` until the first       *)
(* callback of this data.                                                  *)
DataFrame(s) == [kind |-> "data", s |-> s, r |-> 0, fin |-> FALSE,
                 at |-> "parse", first |-> TRUE]
Parsing(s, at) == Atop("data") /\ Top.s = s /\ Top.at = at

Goto(at) == [stack EXCEPT ![Len(stack)].at = at, ![Len(stack)].first = FALSE]

(* us_socket_context_on_open                                               *)
OnOpen(s) ==
    /\ stack = <<>>
    /\ ~res[s].open
    /\ res' = [res EXCEPT ![s] = [Fresh EXCEPT !.open = TRUE, !.timer = TRUE]]
    /\ UNCHANGED <<io, stack, request, made, done, aborted, goodbye>>

(* The data handler, up to the parser.                                     *)
OnData(s) ==
    /\ stack = <<>>
    /\ Connected(s)
    /\ ~res[s].paused
    /\ io' = Cork(io, s)
    /\ stack' = <<DataFrame(s)>>
    /\ UNCHANGED <<res, request, made, done, aborted, goodbye>>

(* The parser has a request: a peer that does not pipeline has the         *)
(* response of the last one.                                               *)
Arrives(s) ==
    /\ Parsing(s, "parse")
    /\ res[s].body = "none"
    /\ \/ "pipeline" \in Usage
       \/ Top.first /\ ~res[s].pending /\ io.sent[s] = made[s]

(* The request callback when the last response is not complete.            *)
RequestRefused(s) ==
    /\ Arrives(s)
    /\ res[s].pending
    /\ CloseSocket(s)
    /\ res' = [res EXCEPT ![s].timer = FALSE, ![s].offset = 0]
    /\ stack' = Goto("stop")
    /\ UNCHANGED <<request, made, done, goodbye>>

BodyKinds == {"none", "length", "chunked", "zero"}

(* What the request callback does to HttpResponseData.                     *)
Requested(r, close, body) ==
    [r EXCEPT !.timer = FALSE, !.offset = 0, !.total = 0, !.pending = TRUE,
              !.status = FALSE, !.chunked = FALSE, !.ended = FALSE,
              !.close = close,
              !.body = IF body = "zero" THEN "none" ELSE body]

(* The frame of the application's request handler; `fin` says whether the  *)
(* parser emits an empty last piece after it.  It does not for a head with *)
(* Content-Length: 0 that it has parsed from the fallback buffer ("zero"). *)
HandlerFrame(s, body) == [kind |-> "handler", s |-> s, r |-> request[s] + 1,
                          fin |-> body = "none"]

(* The request callback, up to the application's handler.                  *)
\* Mutant: the callback does not look whether a response is pending.
RequestAlways(s, close, body) ==
    /\ Arrives(s)
    /\ request[s] < MaxRequests
    /\ request' = [request EXCEPT ![s] = @ + 1]
    /\ res' = [res EXCEPT ![s] = Requested(res[s], close, body)]
    /\ body = "zero" => "split" \in Usage /\ Top.first
    /\ stack' = Append(Goto("parse"), HandlerFrame(s, body))
    /\ UNCHANGED <<io, made, done, aborted, goodbye>>

Request(s, close, body) ==
    /\ Arrives(s)
    /\ ~res[s].pending
    /\ request[s] < MaxRequests
    /\ request' = [request EXCEPT ![s] = @ + 1]
    /\ res' = [res EXCEPT ![s] = Requested(res[s], close, body)]
    /\ body = "zero" => "split" \in Usage /\ Top.first
    /\ stack' = Append(Goto("parse"), HandlerFrame(s, body))
    /\ UNCHANGED <<io, made, done, aborted, goodbye>>

(* The same when no route matches.                                         *)
RequestUnrouted(s, close) ==
    /\ Arrives(s)
    /\ ~res[s].pending
    /\ CloseSocket(s)
    /\ res' = [res EXCEPT ![s] = Requested(res[s], close, "none")]
    /\ stack' = Goto("stop")
    /\ UNCHANGED <<request, made, done, goodbye>>

(* The rest of the request callback.  A handler that neither responds nor  *)
(* attaches onAborted is ill-use and ends the process.                     *)
\* Mutant: the parser is not told that the handler closed the socket.
HandlerReturnGoOn ==
    LET s == Top.s
        r == res[s]
        next == IF Top.fin THEN "empty"
                ELSE IF r.body = "length" THEN "owed" ELSE "parse"
    IN  /\ Atop("handler")
        /\ s \in io.closed \/ ~r.pending \/ r.onAborted # 0
        /\ res' = [res EXCEPT ![s].timer =
                     @ \/ (s \notin io.closed /\ r.pending /\ r.inStream # 0)]
        /\ stack' = [Pop EXCEPT ![Len(Pop)].at = next]
        /\ UNCHANGED <<io, request, made, done, aborted, goodbye>>

HandlerReturn ==
    LET s == Top.s
        r == res[s]
        next == IF s \in io.closed THEN "stop"
                ELSE IF Top.fin THEN "empty"
                ELSE IF r.body = "length" THEN "owed" ELSE "parse"
    IN  /\ Atop("handler")
        /\ s \in io.closed \/ ~r.pending \/ r.onAborted # 0
        /\ res' = [res EXCEPT ![s].timer =
                     @ \/ (s \notin io.closed /\ r.pending /\ r.inStream # 0)]
        /\ stack' = [Pop EXCEPT ![Len(Pop)].at = next]
        /\ UNCHANGED <<io, request, made, done, aborted, goodbye>>

(* The parser has a piece of the body, or nothing where there is no body.  *)
(* Only with a length, and only when the piece does not come together with *)
(* the head, does the parser heed what the callback returns.  A piece with *)
(* a length that is not the last uses up the data.                         *)
Piece(s, fin, heeded) ==
    \/ Parsing(s, "empty") /\ fin /\ ~heeded
    \/ Parsing(s, "parse") /\ res[s].body = "chunked" /\ ~heeded
    \/ Parsing(s, "parse") /\ res[s].body = "length" /\ heeded
    \/ Parsing(s, "owed")

AfterPiece(s, fin) ==
    IF ~fin /\ res[s].body = "length" THEN "out" ELSE "parse"

(* The data callback without a data handler.                               *)
PieceIgnored(s, fin) ==
    /\ \E heeded \in BOOLEAN : Piece(s, fin, heeded)
    /\ res[s].inStream = 0 \/ s \in io.closed
    /\ res' = [res EXCEPT ![s].body = IF fin THEN "none" ELSE @]
    /\ stack' = Goto(AfterPiece(s, fin))
    /\ UNCHANGED <<io, request, made, done, aborted, goodbye>>

(* The data callback, up to the data handler.  The timer is off for a last *)
(* piece; it is restarted only when enough was received since it was.      *)
PieceReceived(s, fin, n, heeded) ==
    LET enough == res[s].received + n >= Throughput
    IN  /\ Piece(s, fin, heeded)
        /\ res[s].inStream # 0
        /\ res' = [res EXCEPT
                     ![s].timer = ~fin /\ (@ \/ enough),
                     ![s].received = IF fin THEN @ ELSE IF enough THEN 0 ELSE @ + n,
                     ![s].body = IF fin THEN "none" ELSE @]
        /\ stack' = Append(Goto(AfterPiece(s, fin)),
                           [kind |-> "stream", s |-> s, r |-> res[s].inStream,
                            fin |-> fin, heeded |-> heeded])
        /\ UNCHANGED <<io, request, made, done, aborted, goodbye>>

(* The rest of the data callback.                                          *)
\* Mutant: the data handler outlives the body.
StreamReturnKeep ==
    LET s == Top.s
        closed == s \in io.closed
    IN  /\ Atop("stream")
        /\ res' = [res EXCEPT ![s].inStream = @]
        /\ stack' = IF closed /\ Top.heeded
                    THEN [Pop EXCEPT ![Len(Pop)].at = "stop"] ELSE Pop
        /\ UNCHANGED <<io, request, made, done, aborted, goodbye>>

StreamReturn ==
    LET s == Top.s
        closed == s \in io.closed
    IN  /\ Atop("stream")
        /\ res' = [res EXCEPT ![s].inStream = IF Top.fin /\ ~closed THEN 0 ELSE @]
        /\ stack' = IF closed /\ Top.heeded
                    THEN [Pop EXCEPT ![Len(Pop)].at = "stop"] ELSE Pop
        /\ UNCHANGED <<io, request, made, done, aborted, goodbye>>

(* The parser refuses the data: an error response, past the cork buffer    *)
(* and the backpressure, and the connection is closed.                     *)
Malformed(s, room) ==
    LET n == Takes(io, s, room, 1)
        error == [r |-> request[s] + 1, k |-> "error", i |-> 0]
        o == KernelWrite(io, s, SubSeq(<<error>>, 1, n))
    IN  /\ Parsing(s, "parse")
        /\ "malformed" \in Usage
        /\ io' = ClosedIO(Shutdown(o, s), s)
        /\ aborted' = IF s \notin io.closed /\ res[s].onAborted # 0
                      THEN [aborted EXCEPT ![s] = @ \cup {res[s].onAborted}]
                      ELSE aborted
        /\ stack' = Goto("stop")
        /\ UNCHANGED <<res, request, made, done, goodbye>>

(* The rest of the data handler: uncork, time out on failure, close after  *)
(* a last response.                                                        *)
\* Mutant: the data handler leaves a last response open.
DataReturnOpen(room) ==
    LET s == Top.s
        r == Uncork(io, s, <<>>, room, FALSE)
    IN  /\ Atop("data")
        /\ Top.at \notin {"empty", "owed"}
        /\ io' = r.io
        /\ res' = [res EXCEPT ![s].timer = @ \/ r.failed]
        /\ stack' = <<>>
        /\ UNCHANGED <<request, made, done, aborted, goodbye>>

\* Mutant: a socket that was closed in the parser is not uncorked.
DataReturnCorked(room) ==
    LET s == Top.s
        r == Uncork(io, s, <<>>, room, FALSE)
    IN  /\ Atop("data")
        /\ Top.at \notin {"empty", "owed"}
        /\ IF Top.at = "stop" THEN io' = io /\ res' = res
           ELSE /\ io' = CloseIfLast(r.io, res[s], s)
                /\ res' = [res EXCEPT ![s].timer = @ \/ r.failed]
        /\ stack' = <<>>
        /\ UNCHANGED <<request, made, done, aborted, goodbye>>

DataReturn(room) ==
    LET s == Top.s
        r == Uncork(io, s, <<>>, room, FALSE)
    IN  /\ Atop("data")
        /\ Top.at \notin {"empty", "owed"}
        /\ IF Top.at = "stop" THEN io' = r.io /\ res' = res
           ELSE /\ io' = CloseIfLast(r.io, res[s], s)
                /\ res' = [res EXCEPT ![s].timer = @ \/ r.failed]
        /\ stack' = <<>>
        /\ UNCHANGED <<request, made, done, aborted, goodbye>>

(* The writable handler with an onWritable of the application, which is    *)
(* given back on return unless the response was completed meanwhile.       *)
OnWritable(s) ==
    /\ stack = <<>>
    /\ Connected(s)
    /\ res[s].onWritable # 0
    /\ res' = [res EXCEPT ![s].timer = FALSE]
    /\ stack' = Push("writable", s, res[s].onWritable, FALSE)
    /\ UNCHANGED <<io, request, made, done, aborted, goodbye>>

WritableReturn ==
    /\ Atop("writable")
    /\ stack' = Pop
    /\ UNCHANGED <<io, res, request, made, done, aborted, goodbye>>

(* Without one: drain, close after a last response, restart the timer.     *)
OnWritableDrain(s, room) ==
    LET r == Write(io, s, <<>>, room, TRUE)
    IN  /\ stack = <<>>
        /\ Connected(s)
        /\ res[s].onWritable = 0
        /\ io' = CloseIfLast(r.io, res[s], s)
        /\ res' = [res EXCEPT ![s].timer = TRUE]
        /\ UNCHANGED <<stack, request, made, done, aborted, goodbye>>

(* The end handler (FIN of the peer or a reset), and the timeout handler.  *)
OnEnd(s) ==
    /\ stack = <<>>
    /\ Connected(s)
    /\ CloseSocket(s)
    /\ UNCHANGED <<res, stack, request, made, done, goodbye>>

OnTimeout(s) ==
    /\ stack = <<>>
    /\ Connected(s)
    /\ res[s].timer
    /\ CloseSocket(s)
    /\ UNCHANGED <<res, stack, request, made, done, goodbye>>

-----------------------------------------------------------------------------
Handlers ==
    \/ \E s \in Sockets : OnOpen(s) \/ OnData(s) \/ RequestRefused(s)
    \/ \E s \in Sockets, close \in BOOLEAN, body \in BodyKinds :
            Request(s, close, body)
    \/ \E s \in Sockets, close \in BOOLEAN : RequestUnrouted(s, close)
    \/ HandlerReturn
    \/ \E s \in Sockets, fin \in BOOLEAN : PieceIgnored(s, fin)
    \/ \E s \in Sockets, n \in 0..1, fin, heeded \in BOOLEAN :
            PieceReceived(s, fin, n, heeded)
    \/ StreamReturn
    \/ \E s \in Sockets, room \in Rooms : Malformed(s, room)
    \/ \E room \in Rooms : DataReturn(room)
    \/ \E s \in Sockets : OnWritable(s)
    \/ WritableReturn
    \/ \E s \in Sockets, room \in Rooms : OnWritableDrain(s, room)
    \/ \E s \in Sockets : OnEnd(s)
    \/ \E s \in Sockets : OnTimeout(s)

Application ==
    \/ \E s \in Sockets, room \in Rooms : WriteHeader(s, room)
    \/ \E s \in Sockets, room \in Rooms : WriteChunk(s, room)
    \/ \E s \in Sockets, n \in Bodies, close \in BOOLEAN, room \in Rooms :
            End(s, n, close, room)
    \/ \E s \in Sockets, n \in Bodies, close \in BOOLEAN, room \in Rooms :
            EndWithoutBody(s, n, close, room)
    \/ \E s \in Sockets, n, total \in Bodies, close \in BOOLEAN, room \in Rooms :
            TryEnd(s, n, total, close, room)
    \/ \E s \in Sockets : AttachAborted(s)
    \/ \E s \in Sockets : AttachWritable(s)
    \/ \E s \in Sockets : AttachData(s)
    \/ \E s \in Sockets : Pause(s)
    \/ \E s \in Sockets : Resume(s)
    \/ \E s \in Sockets : Close(s)
    \/ \E s \in Sockets : CorkBegin(s)
    \/ \E room \in Rooms : CorkEnd(room)

Next == Handlers \/ Application

Spec == Init /\ [][Next]_vars

-----------------------------------------------------------------------------
(* Properties.                                                             *)

(* "res.end guarantees sending" (READMORE.md:86): what the application was *)
(* told is on its way reaches the peer of an open connection, in order and *)
(* once, whatever is corked, buffered or drained in between.               *)
ResponseIntact ==
    \A s \in Sockets :
        Connected(s) =>
            (io.sent[s] \o Data(io, s)) \o (IF IsCorked(io, s) THEN io.cork ELSE <<>>)
                = made[s]

(* A connection that is shut down after a last response was sent all of    *)
(* it, cork buffer and backpressure included.  (An error response shuts    *)
(* the connection down without that.)                                      *)
LastResponseSent ==
    "malformed" \notin Usage =>
        \A s \in io.fin : io.sent[s] = made[s]

(* The places of the response to request r in what the peer gets.         *)
Own(tokens, r) == {j \in DOMAIN tokens : tokens[j].r = r}

(* All in one piece: one status first, headers, and what ends the head;    *)
(* then chunks and one last chunk, or one length and that many bytes of    *)
(* the body in order, or none of them.                                     *)
WellFormed(tokens, r) ==
    \E first, mid, last \in DOMAIN tokens :
        /\ Own(tokens, r) = first..last
        /\ first < mid /\ mid <= last
        /\ tokens[first].k = "status"
        /\ \A j \in first + 1..mid - 1 : tokens[j].k = "header"
        /\ \/ /\ tokens[mid].k = "chunked" /\ mid < last /\ tokens[last].k = "last"
              /\ \A j \in mid + 1..last - 1 : tokens[j].k = "chunk"
           \/ /\ tokens[mid].k = "length" /\ last - mid \in {0, tokens[mid].i}
              /\ \A j \in mid + 1..last :
                    tokens[j].k = "data" /\ tokens[j].i = j - mid

(* "Otherwise requests can get mixed up on the same connection"            *)
(* (HttpContext.h:154): responses come in the order of the requests, and   *)
(* each is well formed and complete when the application is told it is.    *)
ResponsesNotMixed ==
    \A s \in Sockets :
        /\ \A j \in 1..Len(made[s]) - 1 : made[s][j].r <= made[s][j + 1].r
        /\ \A r \in done[s] : WellFormed(made[s], r)
        /\ \A r \in 1..request[s] : r < request[s] => r \in done[s]

(* A response is alive until it is complete or onAborted is called: never  *)
(* both, and one of them for every handler attached.                       *)
OneOutcome ==
    \A s \in Sockets :
        /\ done[s] \cap aborted[s] = {}
        /\ s \in io.closed /\ res[s].onAborted # 0 => res[s].onAborted \in aborted[s]
        /\ Connected(s) => aborted[s] = {}

(* "Any connected socket should timeout until it has a request"            *)
(* (HttpContext.h:73): a connection that waits for a request, or drains    *)
(* its last response, does not do so for ever.                             *)
IdleTimesOut ==
    stack = <<>> =>
        \A s \in Sockets : Connected(s) /\ ~res[s].pending => res[s].timer

(* "we want to close the connection when drained" (HttpResponse.h:103):    *)
(* after a last response.                                                  *)
ClosesWhenDrained ==
    stack = <<>> =>
        \A s \in goodbye : TotalLength(io, s) = 0 => s \in io.closed

(* "reset data handler to ensure following requests on the same socket     *)
(* won't trigger any previously registered behavior" (HttpContext.h:250).  *)
DataToOwnHandler ==
    \A j \in 1..Len(stack) :
        stack[j].kind \in {"stream", "writable"} => stack[j].r = request[stack[j].s]

(* "We always get an empty chunk even if there is no data"                 *)
(* (HttpContext.h:220): a data handler does not wait for a body that is    *)
(* over.                                                                   *)
NoHandlerForgotten ==
    stack = <<>> =>
        \A s \in Sockets :
            Connected(s) /\ res[s].inStream # 0 => res[s].body # "none"

(* Whatever the order of the reads and of the handlers' calls, the data    *)
(* and writable handlers that run are those of the request in progress,    *)
(* and none is left behind when its body is over.                          *)
HandlersInTurn == DataToOwnHandler /\ NoHandlerForgotten

(* "Was the socket closed?", "We absolutely have to terminate parsing if   *)
(* shutdown" (HttpContext.h:245): no handler of the application is called  *)
(* for a connection that is closed.                                        *)
NothingAfterClose ==
    [][Len(stack') > Len(stack) /\ stack'[Len(stack')].kind \in {"handler", "stream"}
        => stack'[Len(stack')].s \notin io.closed]_vars

(* Between events nobody holds the cork buffer, and it is empty.           *)
CorkReleased == stack = <<>> => CanCork(io) /\ io.cork = <<>>

=============================================================================
