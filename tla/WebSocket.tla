------------------------------- MODULE WebSocket -------------------------------
(***************************************************************************)
(* The life of WebSockets on one loop, from the upgrade to the close: the  *)
(* handlers that WebSocketContext installs (data, writable, end, timeout,  *)
(* long timeout, close), the data handler of HttpContext around an upgrade *)
(* and the calls the application makes from inside them (upgrade, send,    *)
(* end, close, cork, publish), over the write side of AsyncSocket.         *)
(*                                                                         *)
(* A handler that corks is two steps, between which the application may    *)
(* make any calls on any socket; `stack` holds the handlers, cork blocks   *)
(* and drains of published messages under way.  Nothing else interleaves:  *)
(* it is one thread.  Handlers that only call the application last (drain  *)
(* handler, pings, pongs) need no second step.  The bytes of a socket are  *)
(* numbered; a published message, a close frame and a ping are one byte.   *)
(*                                                                         *)
(* Usage names the calls, legal for the API, that break what the code      *)
(* promises; a run says which of them its application makes:               *)
(*   "long"     a long send on the socket whose open handler runs inside   *)
(*              the HTTP parser                                            *)
(*   "publish"  a message is published to that socket                      *)
(*   "upgrade"  a handler inside the HTTP parser upgrades another response *)
(*   "end"      end() on a socket inside a block that corks it             *)
(*   "dropped"  calls in a dropped handler that a drain runs               *)
(***************************************************************************)
EXTENDS AsyncSocket

CONSTANTS
    MaxBackpressure,     \* maxBackpressure, 0 for no limit
    ResetOnSend,         \* resetIdleTimeoutOnSend
    SendPings,           \* sockets of routes with sendPingsAutomatically
    IdleTimeout,         \* idleTimeout of the route of every socket
    Sizes,               \* lengths of the frames the application sends
    Usage,               \* which of the calls above are made
    MaxBytes,            \* bound of the model on the bytes of one socket
    MaxDepth             \* bound of the model on handlers and cork blocks

ASSUME ConfigAssumption == /\ MaxBackpressure \in Nat
                           /\ ResetOnSend \in BOOLEAN
                           /\ SendPings \subseteq Sockets
                           /\ Sizes \subseteq Nat \ {0}
                           /\ Usage \subseteq {"long", "publish", "upgrade", "end", "dropped"}
                           /\ MaxBytes \in Nat \ {0}
                           /\ MaxDepth \in Nat \ {0}

(* App::ws ends the process on any other idleTimeout.                      *)
ASSUME IdleAssumption == IdleTimeout \in [Sockets -> {0} \cup 8..960]

VARIABLES
    io,            \* the record of AsyncSocket
    upgraded,      \* sockets that are WebSockets
    slot,          \* HttpContextData::upgradedWebSocket
    shuttingDown,  \* WebSocketData::isShuttingDown
    timedOut,      \* WebSocketData::hasTimedOut
    timer,         \* what armed the timeout: see Armed
    subscribed,    \* sockets with a Subscriber
    queued,        \* how many published messages wait for a drain
    needsUncork,   \* the captured variable of the topic tree's callback
    stack,         \* handlers, blocks and drains under way, innermost last
    accepted,      \* history: bytes that send, end and pings did not refuse
    refused,       \* history: sockets whose close frame was refused
    closeEvents    \* history: how often the close handler was called

vars == <<io, upgraded, slot, shuttingDown, timedOut, timer, subscribed,
          queued, needsUncork, stack, accepted, refused, closeEvents>>

Room == 0..MaxBytes
Frame(s, n) == [i \in 1..n |-> accepted[s] + i]

(* What is under way: an HTTP data handler ("http"), a WebSocket data      *)
(* handler ("data"), a cork block of a WebSocket ("block") or of a         *)
(* response ("response"), a drain, a drain in its dropped handler, a send  *)
(* and an end() that wait for a drain.  `uncork`: whether it corked s;     *)
(* `left`: messages still to drain, or the length of the frame to send.    *)
On(kind, s, uncork, left) ==
    [kind |-> kind, s |-> s, uncork |-> uncork, left |-> left]

Top == stack[Len(stack)]
Atop(kind) == stack # <<>> /\ Top.kind = kind
Pop == SubSeq(stack, 1, Len(stack) - 1)

(* The application runs: in a handler or block, or in a callback that      *)
(* keeps nothing across it (a timer, a deferred call, a drain handler).    *)
Calling == {"http", "data", "block", "response"} \cup ({"dropped"} \cap Usage)
Handling == stack # <<>> => Top.kind \in Calling

(* Calls on a socket that a drain, a send or an end() is busy with are     *)
(* left to "dropped" of other sockets.                                     *)
Busy(s) == \E i \in 1..Len(stack) :
               stack[i].s = s /\ stack[i].kind \in {"drain", "dropped", "send", "end"}
Live == {s \in upgraded \ (io.closed \cup shuttingDown) : ~Busy(s)}

(* HttpContextData::isParsingHttp, and whose request is parsed.            *)
Parsing == stack # <<>> /\ stack[1].kind = "http"
Parsed(s) == Parsing /\ stack[1].s = s

Init ==
    /\ io = InitIO
    /\ upgraded = {}
    /\ slot = Nil
    /\ shuttingDown = {}
    /\ timedOut = {}
    /\ timer = [s \in Sockets |-> "first"]
    /\ subscribed = {}
    /\ queued = [s \in Sockets |-> 0]
    /\ needsUncork = FALSE
    /\ stack = <<>>
    /\ accepted = [s \in Sockets |-> 0]
    /\ refused = {}
    /\ closeEvents = [s \in Sockets |-> 0]

-----------------------------------------------------------------------------
(* The idle timeout has two components, unsigned shorts; 0 disables the    *)
(* timer.  The first is armed by activity ("first") and by a drain of an   *)
(* ended socket ("rearmed"), the second by a ping and by end() ("second"). *)

Margin(idleTimeout) ==
    CASE idleTimeout >= 32 -> 16
      [] idleTimeout \in 16..31 -> 8
      [] idleTimeout < 16 -> 4

First(s) ==
    (65536 + IdleTimeout[s] - IF s \in SendPings THEN Margin(IdleTimeout[s]) ELSE 0)
        % 65536

Armed(s) == timer[s] = "second" \/ First(s) # 0

(* resetIdleTimeoutOnSend                                                  *)
ResetTimer(s, status) ==
    LET reset == ResetOnSend /\ status = "SUCCESS"
    IN  /\ timer' = IF reset THEN [timer EXCEPT ![s] = "first"] ELSE timer
        /\ timedOut' = IF reset THEN timedOut \ {s} ELSE timedOut

-----------------------------------------------------------------------------
(* WebSocket::send.  `special` says whether the message qualifies for the  *)
(* path of long sends but for its length (no compression, no TLS).         *)

LongSend(o, s, frame, room) ==
    LET n == Takes(o, s, room, Len(frame))
        after == KernelWrite(o, s, SubSeq(frame, 1, n))
    IN  IF n = Len(frame) THEN [io |-> after, status |-> "SUCCESS"]
        ELSE [io |-> UncorkWithoutSending(
                        AppendRaw(after, s, SubSeq(frame, n + 1, Len(frame))), s),
              status |-> "BACKPRESSURE"]

BufferedSend(o, s, frame, room) ==
    LET b == GetSendBuffer(o, s, frame)
        w == CASE b.attribute = "NEEDS_NOTHING" -> Result(b.io, 0, FALSE)
               [] b.attribute = "NEEDS_DRAIN" -> Write(b.io, s, <<>>, room, FALSE)
               [] b.attribute = "NEEDS_UNCORK" -> Uncork(b.io, s, <<>>, room, FALSE)
    IN  [io |-> w.io, status |-> IF w.failed THEN "BACKPRESSURE" ELSE "SUCCESS"]

OverLimit(s) == MaxBackpressure > 0 /\ MaxBackpressure < TotalLength(io, s)

SendResult(s, frame, room, special) ==
    IF OverLimit(s) THEN [io |-> io, status |-> "DROPPED"]
    ELSE IF /\ special /\ Len(frame) >= CorkSize
            /\ TotalLength(io, s) = 0 /\ io.cork = <<>>
    THEN LongSend(io, s, frame, room)
    ELSE BufferedSend(io, s, frame, room)

Accepts(s, n, status) ==
    accepted' = IF status = "DROPPED" THEN accepted
                ELSE [accepted EXCEPT ![s] = @ + n]

(* A message to a subscriber that has published messages waiting lets them *)
(* go first, unless it is dropped.                                         *)
DrainsFirst(s) == queued[s] > 0 /\ ~OverLimit(s)

(* Application sends, publishBig, and the PONG that answers a PING.  A     *)
(* dropped send with closeOnBackpressureLimit shuts the read side down,    *)
(* after which uSockets reports the end of the peer's data: OnEnd, always  *)
(* possible.                                                               *)
Send(s, n, room, special) ==
    LET r == SendResult(s, Frame(s, n), room, special)
    IN  /\ Handling
        /\ s \in Live
        /\ ~DrainsFirst(s)
        /\ special => s \notin subscribed
        /\ special /\ Parsed(s) => "long" \in Usage
        /\ accepted[s] + queued[s] + n <= MaxBytes
        /\ io' = r.io
        /\ Accepts(s, n, r.status)
        /\ ResetTimer(s, r.status)
        /\ UNCHANGED <<upgraded, slot, shuttingDown, subscribed, queued,
                       needsUncork, stack, refused, closeEvents>>

(* topicTree->drain(subscriber): the messages are taken, and the callback  *)
(* corks on the first of them if nobody is corked.  `below` is what waits  *)
(* for the drain to end.                                                   *)
DrainBegins(s, below) ==
    /\ io' = IF CanCork(io) THEN Cork(io, s) ELSE io
    /\ needsUncork' = (needsUncork \/ CanCork(io))
    /\ queued' = [queued EXCEPT ![s] = 0]
    /\ stack' = stack \o below \o <<On("drain", s, CanCork(io), queued[s])>>

SendDrains(s, n) ==
    /\ Handling
    /\ s \in Live
    /\ DrainsFirst(s)
    /\ accepted[s] + queued[s] + n <= MaxBytes
    /\ DrainBegins(s, <<On("send", s, FALSE, n)>>)
    /\ UNCHANGED <<upgraded, slot, shuttingDown, timedOut, timer, subscribed,
                   accepted, refused, closeEvents>>

(* The rest of send() after the drain.                                     *)
SendRest(room) ==
    LET s == Top.s
        r == BufferedSend(io, s, Frame(s, Top.left), room)
    IN  /\ Atop("send")
        /\ io' = r.io
        /\ Accepts(s, Top.left, r.status)
        /\ ResetTimer(s, r.status)
        /\ stack' = Pop
        /\ UNCHANGED <<upgraded, slot, shuttingDown, subscribed, queued,
                       needsUncork, refused, closeEvents>>

-----------------------------------------------------------------------------
(* Published messages.                                                     *)

(* Subscribing makes a Subscriber, which stays until end() or the close.   *)
Subscribe(s) ==
    /\ Handling
    /\ s \in Live \ subscribed
    /\ subscribed' = subscribed \cup {s}
    /\ UNCHANGED <<io, upgraded, slot, shuttingDown, timedOut, timer, queued,
                   needsUncork, stack, accepted, refused, closeEvents>>

(* A message is published to s.                                            *)
Publish(s) ==
    /\ Handling
    /\ s \in Live \cap subscribed
    /\ Parsed(s) => "publish" \in Usage
    /\ accepted[s] + queued[s] + 1 <= MaxBytes
    /\ queued' = [queued EXCEPT ![s] = @ + 1]
    /\ UNCHANGED <<io, upgraded, slot, shuttingDown, timedOut, timer,
                   subscribed, needsUncork, stack, accepted, refused, closeEvents>>

(* The loop's pre and post handlers drain every subscriber, and so does a  *)
(* publish on its way when its tables are full, in whatever handler.       *)
Drain(s) ==
    /\ Handling
    /\ s \in Live
    /\ queued[s] > 0
    /\ DrainBegins(s, <<>>)
    /\ UNCHANGED <<upgraded, slot, shuttingDown, timedOut, timer, subscribed,
                   accepted, refused, closeEvents>>

(* One message: a dropped one calls the dropped handler and ends the drain.*)
DrainMessage(room) ==
    LET s == Top.s
        r == SendResult(s, Frame(s, 1), room, FALSE)
    IN  /\ Atop("drain")
        /\ Top.left > 0
        /\ io' = r.io
        /\ Accepts(s, 1, r.status)
        /\ ResetTimer(s, r.status)
        /\ stack' = Append(Pop, IF r.status = "DROPPED" THEN [Top EXCEPT !.kind = "dropped"]
                                ELSE [Top EXCEPT !.left = @ - 1])
        /\ UNCHANGED <<upgraded, slot, shuttingDown, subscribed, queued,
                       needsUncork, refused, closeEvents>>

(* The last message uncorks whoever corked, and leaves needsUncork set.    *)
DrainEnd(room) ==
    /\ Atop("drain")
    /\ Top.left = 0
    /\ io' = IF needsUncork THEN Uncork(io, Top.s, <<>>, room, FALSE).io ELSE io
    /\ stack' = Pop
    /\ UNCHANGED <<upgraded, slot, shuttingDown, timedOut, timer, subscribed,
                   queued, needsUncork, accepted, refused, closeEvents>>

DroppedReturn(room) ==
    /\ Atop("dropped")
    /\ io' = IF needsUncork THEN Uncork(io, Top.s, <<>>, room, FALSE).io ELSE io
    /\ needsUncork' = FALSE
    /\ stack' = Pop
    /\ UNCHANGED <<upgraded, slot, shuttingDown, timedOut, timer, subscribed,
                   queued, accepted, refused, closeEvents>>

-----------------------------------------------------------------------------
(* WebSocket::end, by the application, by a close frame of the peer or by  *)
(* the long timeout: a close frame of one byte, then FIN when we are not   *)
(* corked and the SendStatus is not BACKPRESSURE, which is 0.  The         *)
(* subscriber is freed and the close event emitted.                        *)
\* Mutant: FIN although we are corked.
EndSentCorkedFin(s, r) ==
    LET fin == r.status # "BACKPRESSURE"
    IN  /\ io' = IF fin THEN Shutdown(r.io, s) ELSE r.io
        /\ Accepts(s, 1, r.status)
        /\ timer' = [timer EXCEPT ![s] = "second"]
        /\ timedOut' = IF ResetOnSend /\ r.status = "SUCCESS"
                       THEN timedOut \ {s} ELSE timedOut
        /\ subscribed' = subscribed \ {s}
        /\ queued' = [queued EXCEPT ![s] = 0]
        /\ refused' = IF r.status = "DROPPED" THEN refused \cup {s} ELSE refused
        /\ closeEvents' = [closeEvents EXCEPT ![s] = @ + 1]

\* Mutant: end() arms no timeout of its own.
EndSentNoTimeout(s, r) ==
    LET fin == ~IsCorked(r.io, s) /\ r.status # "BACKPRESSURE"
    IN  /\ io' = IF fin THEN Shutdown(r.io, s) ELSE r.io
        /\ Accepts(s, 1, r.status)
        /\ ResetTimer(s, r.status)
        /\ subscribed' = subscribed \ {s}
        /\ queued' = [queued EXCEPT ![s] = 0]
        /\ refused' = IF r.status = "DROPPED" THEN refused \cup {s} ELSE refused
        /\ closeEvents' = [closeEvents EXCEPT ![s] = @ + 1]

EndSent(s, r) ==
    LET fin == ~IsCorked(r.io, s) /\ r.status # "BACKPRESSURE"
    IN  /\ io' = IF fin THEN Shutdown(r.io, s) ELSE r.io
        /\ Accepts(s, 1, r.status)
        /\ timer' = [timer EXCEPT ![s] = "second"]
        /\ timedOut' = IF ResetOnSend /\ r.status = "SUCCESS"
                       THEN timedOut \ {s} ELSE timedOut
        /\ subscribed' = subscribed \ {s}
        /\ queued' = [queued EXCEPT ![s] = 0]
        /\ refused' = IF r.status = "DROPPED" THEN refused \cup {s} ELSE refused
        /\ closeEvents' = [closeEvents EXCEPT ![s] = @ + 1]

(* s is in a block that corked it and will uncork it.                      *)
InBlock(s) == \E i \in 1..Len(stack) :
                  /\ stack[i].kind \in {"block", "response"}
                  /\ stack[i].s = s /\ stack[i].uncork

MayEnd(s) ==
    /\ Handling
    /\ s \in Live
    /\ InBlock(s) => "end" \in Usage
    /\ accepted[s] + queued[s] + 1 <= MaxBytes

End(s, room) ==
    /\ MayEnd(s)
    /\ ~DrainsFirst(s)
    /\ shuttingDown' = shuttingDown \cup {s}
    /\ EndSent(s, SendResult(s, Frame(s, 1), room, FALSE))
    /\ UNCHANGED <<upgraded, slot, needsUncork, stack>>

EndDrains(s) ==
    /\ MayEnd(s)
    /\ DrainsFirst(s)
    /\ shuttingDown' = shuttingDown \cup {s}
    /\ DrainBegins(s, <<On("end", s, FALSE, 1)>>)
    /\ UNCHANGED <<upgraded, slot, timedOut, timer, subscribed, accepted,
                   refused, closeEvents>>

(* The rest of end() after the drain.                                      *)
EndRest(room) ==
    /\ Atop("end")
    /\ EndSent(Top.s, BufferedSend(io, Top.s, Frame(Top.s, 1), room))
    /\ stack' = Pop
    /\ UNCHANGED <<upgraded, slot, shuttingDown, needsUncork>>

(* us_socket_close and the close handler it calls at once: the close event *)
(* and the end of the subscriber unless end() has done that, and the       *)
(* WebSocketData is destructed.                                            *)
\* Mutant: the close event is emitted whether or not end() did.
CloseSocketAlways(s) ==
    /\ io' = [Clear(io, s) EXCEPT !.closed = @ \cup {s}]
    /\ timer' = [timer EXCEPT ![s] = "first"]
    /\ timedOut' = timedOut \ {s}
    /\ subscribed' = subscribed \ {s}
    /\ queued' = [queued EXCEPT ![s] = 0]
    /\ closeEvents' = [closeEvents EXCEPT ![s] = @ + 1]

CloseSocket(s) ==
    /\ io' = [Clear(io, s) EXCEPT !.closed = @ \cup {s}]
    /\ timer' = [timer EXCEPT ![s] = "first"]
    /\ timedOut' = timedOut \ {s}
    /\ subscribed' = subscribed \ {s}
    /\ queued' = [queued EXCEPT ![s] = 0]
    /\ closeEvents' = IF s \in shuttingDown THEN closeEvents
                      ELSE [closeEvents EXCEPT ![s] = @ + 1]

(* WebSocket::close, and forceClose on a protocol error.                   *)
Close(s) ==
    /\ Handling
    /\ s \in Live
    /\ CloseSocket(s)
    /\ UNCHANGED <<upgraded, slot, shuttingDown, needsUncork, stack, accepted,
                   refused>>

-----------------------------------------------------------------------------
(* WebSocket::cork and HttpResponse::cork around application calls.        *)
CorkBegin(s) ==
    /\ Handling
    /\ s \in Live \cup (Sockets \ upgraded)
    /\ Len(stack) < MaxDepth
    /\ io' = IF CanCork(io) THEN Cork(io, s) ELSE io
    /\ stack' = Append(stack, On(IF s \in upgraded THEN "block" ELSE "response",
                                 s, CanCork(io), 0))
    /\ UNCHANGED <<upgraded, slot, shuttingDown, timedOut, timer, subscribed,
                   queued, needsUncork, accepted, refused, closeEvents>>

(* The block of a response, which may be a WebSocket by now, uncorks       *)
(* whoever is corked.                                                      *)
CorkEnd(room) ==
    LET s == IF Top.kind = "response" THEN io.corked ELSE Top.s
    IN  /\ Atop("block") \/ Atop("response")
        /\ io' = IF Top.uncork /\ ~CanCork(io)
                 THEN Uncork(io, s, <<>>, room, FALSE).io ELSE io
        /\ stack' = Pop
        /\ UNCHANGED <<upgraded, slot, shuttingDown, timedOut, timer, subscribed,
                       queued, needsUncork, accepted, refused, closeEvents>>

-----------------------------------------------------------------------------
(* The data handler of HttpContext, up to the request handler.             *)
OnHttpData(s) ==
    /\ stack = <<>>
    /\ s \in Sockets \ upgraded
    /\ io' = Cork(io, s)
    /\ stack' = <<On("http", s, TRUE, 0)>>
    /\ UNCHANGED <<upgraded, slot, shuttingDown, timedOut, timer, subscribed,
                   queued, needsUncork, accepted, refused, closeEvents>>

(* HttpResponse::upgrade, in the request handler or later from any         *)
(* callback: a response of one byte; the parser is told of the new socket, *)
(* whichever response it is inside it.  The open handler comes last.       *)
Upgrade(s, room) ==
    /\ Handling
    /\ s \in Sockets \ upgraded
    /\ Parsing /\ ~Parsed(s) => "upgrade" \in Usage
    /\ upgraded' = upgraded \cup {s}
    /\ io' = Write(io, s, Frame(s, 1), room, FALSE).io
    /\ slot' = IF Parsing THEN s ELSE slot
    /\ accepted' = [accepted EXCEPT ![s] = 1]
    /\ UNCHANGED <<shuttingDown, timedOut, timer, subscribed, queued,
                   needsUncork, stack, refused, closeEvents>>

(* The rest of the data handler of HttpContext: without an upgrade it      *)
(* uncorks the socket it parsed, else the one in the slot.                 *)
HttpReturn(room) ==
    LET s == IF slot = Nil THEN Top.s ELSE slot
        r == Uncork(io, s, <<>>, room, FALSE)
    IN  /\ Atop("http")
        /\ io' = IF slot # Nil /\ ~r.failed /\ s \in shuttingDown
                 THEN Shutdown(r.io, s) ELSE r.io
        /\ slot' = Nil
        /\ stack' = Pop
        /\ UNCHANGED <<upgraded, shuttingDown, timedOut, timer, subscribed,
                       queued, needsUncork, accepted, refused, closeEvents>>

(* The data handler, up to and after the parser's callbacks.  Data for a   *)
(* socket in shutdown is ignored.                                          *)
OnData(s) ==
    /\ stack = <<>>
    /\ s \in Live
    /\ timer' = [timer EXCEPT ![s] = "first"]
    /\ timedOut' = timedOut \ {s}
    /\ io' = Cork(io, s)
    /\ stack' = <<On("data", s, TRUE, 0)>>
    /\ UNCHANGED <<upgraded, slot, shuttingDown, subscribed, queued,
                   needsUncork, accepted, refused, closeEvents>>

\* Mutant: the data handler leaves FIN to the writable handler.
DataReturnNoFin(room) ==
    /\ Atop("data")
    /\ io' = Uncork(io, Top.s, <<>>, room, FALSE).io
    /\ stack' = Pop
    /\ UNCHANGED <<upgraded, slot, shuttingDown, timedOut, timer, subscribed,
                   queued, needsUncork, accepted, refused, closeEvents>>

\* Mutant: the data handler does not uncork a socket that was closed.
DataReturnClosed(room) ==
    LET s == Top.s
        r == IF s \in io.closed THEN Result(io, 0, FALSE)
             ELSE Uncork(io, s, <<>>, room, FALSE)
    IN  /\ Atop("data")
        /\ io' = IF TotalLength(r.io, s) = 0 /\ s \in shuttingDown
                 THEN Shutdown(r.io, s) ELSE r.io
        /\ stack' = Pop
        /\ UNCHANGED <<upgraded, slot, shuttingDown, timedOut, timer, subscribed,
                       queued, needsUncork, accepted, refused, closeEvents>>

DataReturn(room) ==
    LET s == Top.s
        r == Uncork(io, s, <<>>, room, FALSE)
    IN  /\ Atop("data")
        /\ io' = IF TotalLength(r.io, s) = 0 /\ s \in shuttingDown
                 THEN Shutdown(r.io, s) ELSE r.io
        /\ stack' = Pop
        /\ UNCHANGED <<upgraded, slot, shuttingDown, timedOut, timer, subscribed,
                       queued, needsUncork, accepted, refused, closeEvents>>

(* The writable handler, up to the drain handler.                          *)
OnWritable(s, room) ==
    LET r == Write(io, s, <<>>, room, FALSE)
        before == TotalLength(io, s)
        drained == before = 0 \/ before > TotalLength(r.io, s)
        rearmed == IF s \in shuttingDown THEN "rearmed" ELSE "first"
    IN  /\ stack = <<>>
        /\ s \in upgraded \ (io.closed \cup io.fin)
        /\ io' = IF s \in shuttingDown /\ TotalLength(r.io, s) = 0
                 THEN Shutdown(r.io, s) ELSE r.io
        /\ timer' = IF drained THEN [timer EXCEPT ![s] = rearmed] ELSE timer
        /\ timedOut' = IF drained THEN timedOut \ {s} ELSE timedOut
        /\ UNCHANGED <<upgraded, slot, shuttingDown, subscribed, queued,
                       needsUncork, stack, accepted, refused, closeEvents>>

(* The end handler (FIN of the peer), or any close by the network.         *)
OnEnd(s) ==
    /\ stack = <<>>
    /\ s \in upgraded \ io.closed
    /\ CloseSocket(s)
    /\ UNCHANGED <<upgraded, slot, shuttingDown, needsUncork, stack, accepted,
                   refused>>

(* The timeout handler: a first timeout sends a ping of one byte and arms  *)
(* the short timer, unless we are in shutdown; otherwise close.            *)
Pings(s) == s \in SendPings /\ s \notin shuttingDown /\ s \notin timedOut

OnTimeoutPing(s, room) ==
    /\ stack = <<>>
    /\ s \in upgraded \ io.closed
    /\ Armed(s)
    /\ Pings(s)
    /\ accepted[s] + queued[s] + 1 <= MaxBytes
    /\ timedOut' = timedOut \cup {s}
    /\ timer' = [timer EXCEPT ![s] = "second"]
    /\ io' = Write(io, s, Frame(s, 1), room, FALSE).io
    /\ accepted' = [accepted EXCEPT ![s] = @ + 1]
    /\ UNCHANGED <<upgraded, slot, shuttingDown, subscribed, queued,
                   needsUncork, stack, refused, closeEvents>>

OnTimeoutClose(s) ==
    /\ stack = <<>>
    /\ s \in upgraded \ io.closed
    /\ Armed(s)
    /\ ~Pings(s)
    /\ CloseSocket(s)
    /\ UNCHANGED <<upgraded, slot, shuttingDown, needsUncork, stack, accepted,
                   refused>>

-----------------------------------------------------------------------------
Return ==
    \E room \in Room :
        \/ SendRest(room) \/ EndRest(room)
        \/ DrainMessage(room) \/ DrainEnd(room) \/ DroppedReturn(room)
        \/ CorkEnd(room) \/ HttpReturn(room) \/ DataReturn(room)

Next ==
    \/ Return
    \/ \E s \in Sockets, n \in Sizes, room \in Room, special \in BOOLEAN :
            Send(s, n, room, special)
    \/ \E s \in Sockets, n \in Sizes : SendDrains(s, n)
    \/ \E s \in Sockets : Subscribe(s)
    \/ \E s \in Sockets : Publish(s)
    \/ \E s \in Sockets : Drain(s)
    \/ \E s \in Sockets, room \in Room : End(s, room)
    \/ \E s \in Sockets : EndDrains(s)
    \/ \E s \in Sockets : Close(s)
    \/ \E s \in Sockets : CorkBegin(s)
    \/ \E s \in Sockets : OnHttpData(s)
    \/ \E s \in Sockets, room \in Room : Upgrade(s, room)
    \/ \E s \in Sockets : OnData(s)
    \/ \E s \in Sockets, room \in Room : OnWritable(s, room)
    \/ \E s \in Sockets : OnEnd(s)
    \/ \E s \in Sockets, room \in Room : OnTimeoutPing(s, room)
    \/ \E s \in Sockets : OnTimeoutClose(s)

Spec == Init /\ [][Next]_vars

(* Handlers return to the loop.  After end() a timer that is armed fires   *)
(* once the loop is free for it, unless drains put it off again and again. *)
Returns == []<>(stack = <<>>)

TimerFires(s) ==
    \/ []<><<\E room \in Room : OnWritable(s, room)>>_vars
    \/ SF_vars(s \in shuttingDown /\ OnTimeoutClose(s))

FairSpec == Spec /\ Returns /\ \A s \in Sockets : TimerFires(s)

-----------------------------------------------------------------------------
(* Properties.                                                             *)

Counted(n) == [i \in 1..n |-> i]

(* Its end() is under way.                                                 *)
Ending(s) == \E i \in 1..Len(stack) : stack[i].kind = "end" /\ stack[i].s = s

TypeOK ==
    /\ io.corked \in Sockets \cup {Nil}
    /\ Len(io.cork) <= CorkSize
    /\ io.fin \subseteq upgraded
    /\ io.closed \subseteq upgraded
    /\ upgraded \subseteq Sockets
    /\ slot \in upgraded \cup {Nil}
    /\ shuttingDown \subseteq upgraded
    /\ timedOut \subseteq upgraded
    /\ timer \in [Sockets -> {"first", "rearmed", "second"}]
    /\ subscribed \subseteq upgraded
    /\ queued \in [Sockets -> Nat]
    /\ needsUncork \in BOOLEAN
    /\ accepted \in [Sockets -> Nat]
    /\ \A i \in 1..Len(stack) : stack[i].s \in Sockets /\ stack[i].left \in Nat

(* However send, end, pings, drains of published messages and draining     *)
(* meet in the cork buffer, the backpressure and the kernel, the peer of   *)
(* an open socket sees exactly the bytes that were not refused, in order:  *)
(* nothing lost by a partial write, nothing twice, nothing overtaking.     *)
StreamIntact ==
    \A s \in upgraded \ io.closed :
        (io.sent[s] \o Data(io, s)) \o (IF IsCorked(io, s) THEN io.cork ELSE <<>>)
            = Counted(accepted[s])

(* Between loop iterations nobody holds the cork buffer (the loop's post   *)
(* callback ends the process otherwise), and data in it has an owner, so   *)
(* that whoever corks may do so (cork() ends the process otherwise).       *)
CorkReleased ==
    /\ stack = <<>> => CanCork(io)
    /\ CanCork(io) => \A s \in Sockets : CorkAllowed(io, s)

(* write() tests the backpressure by its length, send, the data handler    *)
(* and the writable handler by its total length, pending removal included: *)
(* the two are zero together, and never is 1/32 of it dead.                *)
BackpressureExact ==
    \A s \in Sockets :
        /\ TotalLength(io, s) = 0 <=> Length(io, s) = 0
        /\ io.removed[s] <= TotalLength(io, s) \div EraseDivisor

(* The close event is emitted exactly once per WebSocket: by end() or when *)
(* the socket closes, whichever is first, in whatever handler.             *)
CloseOnce ==
    \A s \in Sockets :
        closeEvents[s] = IF s \in io.closed \/ (s \in shuttingDown /\ ~Ending(s))
                         THEN 1 ELSE 0

(* "we just sent off everything, we need to FIN right here. In all other   *)
(* cases, we need to fin either if uncork was successful, or when drainage *)
(* is complete" (WebSocket.h:241): no FIN ahead of accepted bytes.         *)
FinAfterEverything ==
    \A s \in io.fin \ io.closed :
        /\ io.sent[s] = Counted(accepted[s])
        /\ s \notin refused

(* The other half of that comment: once no handler runs, only backpressure *)
(* holds FIN back.                                                         *)
FinNotForgotten ==
    \A s \in shuttingDown \ io.closed :
        stack = <<>> /\ TotalLength(io, s) = 0 => s \in io.fin

(* A WebSocket that has ended is closed in the end, whatever the peer and  *)
(* the kernel do: "to avoid long hanging sockets after end() on broken     *)
(* connections" (WebSocket.h:251).  The exception is a route without any   *)
(* idle timeout, where a partial drain disarms the timer that end() armed. *)
EndedIsClosed ==
    \A s \in Sockets :
        s \in shuttingDown
            ~> s \in io.closed \/ (First(s) = 0 /\ timer[s] = "rearmed")

=============================================================================
