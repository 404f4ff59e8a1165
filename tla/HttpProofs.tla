------------------------------ MODULE HttpProofs ------------------------------
(***************************************************************************)
(* Proofs about HttpContext and HttpResponse, on the lemmas about          *)
(* AsyncSocket: the inductive invariant of the handlers and of the cork    *)
(* buffer, and the properties of the runs, each under the uses of the      *)
(* connection for which it holds.                                          *)
(***************************************************************************)
EXTENDS HttpContext, AsyncSocketProofs

(* The types of the state.                                                 *)
Kinds == {"status", "header", "length", "data", "chunked", "chunk", "last"}
Tokens == [r : Nat, k : Kinds \cup {"error"}, i : Nat]

Conns ==
    [pending : BOOLEAN, status : BOOLEAN, chunked : BOOLEAN,
     ended : BOOLEAN, close : BOOLEAN, offset : Nat, total : Nat,
     onWritable : Nat, onAborted : Nat, inStream : Nat,
     received : Nat, timer : BOOLEAN, paused : BOOLEAN,
     body : BodyKinds, open : BOOLEAN]

DataFrames ==
    [kind : {"data"}, s : Sockets, r : Nat, fin : BOOLEAN,
     at : {"parse", "empty", "owed", "out", "stop"}, first : BOOLEAN]
StreamFrames ==
    [kind : {"stream"}, s : Sockets, r : Nat, fin : BOOLEAN, heeded : BOOLEAN]
CallFrames ==
    [kind : {"handler", "writable", "block"}, s : Sockets, r : Nat, fin : BOOLEAN]
Frames == DataFrames \cup StreamFrames \cup CallFrames

Types ==
    /\ IOInv(io, Tokens)
    /\ res \in [Sockets -> Conns]
    /\ stack \in Seq(Frames)
    /\ request \in [Sockets -> Nat]
    /\ made \in [Sockets -> Seq(Tokens)]
    /\ done \in [Sockets -> SUBSET Nat]
    /\ aborted \in [Sockets -> SUBSET Nat]
    /\ goodbye \subseteq Sockets

(* The handlers of uSockets are at the bottom of the stack, the callbacks  *)
(* of the parser right above the data handler, and blocks anywhere but     *)
(* there.  The parser stops for a closed connection only.                  *)
Shape ==
    /\ \A i \in 1..Len(stack) :
        /\ stack[i].kind \in {"data", "writable"} => i = 1
        /\ stack[i].kind \in {"handler", "stream"} =>
             i = 2 /\ stack[1].kind = "data" /\ stack[1].s = stack[2].s
    /\ Len(stack) > 1 /\ stack[1].kind = "data" =>
         stack[2].kind \in {"handler", "stream"} /\ ~stack[1].first
    /\ Len(stack) > 0 /\ stack[1].kind = "data" =>
         /\ stack[1].at = "stop" => stack[1].s \in io.closed
         /\ stack[1].at = "owed" => res[stack[1].s].body = "length"

(* Whoever holds the cork is the socket of the innermost handler or block  *)
(* that will release it.                                                   *)
Uncorks(f) == f.kind = "data" \/ (f.kind = "block" /\ f.fin)
Owner ==
    io.corked # Nil =>
        \E i \in 1..Len(stack) :
            /\ Uncorks(stack[i]) /\ stack[i].s = io.corked
            /\ \A j \in i + 1..Len(stack) : ~Uncorks(stack[j])

(* The handlers of a connection are those of the request in progress, and  *)
(* that one has no outcome yet.                                            *)
Sound(c, q, d, a, closed) ==
    /\ c.onAborted # 0 => c.pending /\ c.onAborted = q
    /\ c.onWritable # 0 => c.pending /\ c.onWritable = q
    /\ d \subseteq 0..q
    /\ ~closed => a = {}
    /\ ~closed /\ c.pending => q \notin d
    /\ closed /\ c.onAborted # 0 => c.onAborted \in a
    /\ d \cap a = {}

Outcome ==
    \A s \in Sockets :
        Sound(res[s], request[s], done[s], aborted[s], s \in io.closed)

Inv == Types /\ Shape /\ Owner /\ Outcome

-----------------------------------------------------------------------------
(* The calls of AsyncSocket, as the responses use them.                    *)

(* Nothing of another socket has changed, the cork it may have included.   *)
Aside(o, p, s) ==
    /\ IOInv(p, Tokens)
    /\ p.fin \subseteq o.fin \cup {s}
    /\ o.closed \subseteq p.closed /\ p.closed \subseteq o.closed \cup {s}
    /\ \A t \in Sockets \ {s} :
        /\ p.raw[t] = o.raw[t] /\ p.removed[t] = o.removed[t]
        /\ p.sent[t] = o.sent[t]
        /\ p.corked = t <=> o.corked = t
        /\ o.corked = t => p.cork = o.cork

(* A call for s: the cork is kept or given up.                             *)
Call(o, p, s) ==
    /\ IOInv(p, Tokens) /\ OnlyOf(o, p, s)
    /\ p.corked = o.corked \/ (o.corked = s /\ p.corked = Nil)
    /\ o.corked # s => p.cork = o.cork

(* A call leaves other sockets alone and closes nothing.                   *)
LEMMA CallAside ==
    ASSUME NEW o, NEW p, NEW s \in Sockets, Call(o, p, s)
    PROVE  Aside(o, p, s) /\ p.closed = o.closed /\ p.fin = o.fin
  BY SocketAssumption DEF Call, Aside, OnlyOf

(* Two calls for a socket are one.                                         *)
LEMMA CallAgain ==
    ASSUME NEW o, NEW p, NEW q, NEW s \in Sockets, Call(o, p, s), Call(p, q, s)
    PROVE  Call(o, q, s)
  BY SocketAssumption DEF Call, OnlyOf

(* What leaves a socket alone leaves its stream alone.                     *)
LEMMA AsideStream ==
    ASSUME NEW o, NEW s \in Sockets, NEW p, Aside(o, p, s),
           NEW t \in Sockets \ {s}
    PROVE  Stream(p, t) = Stream(o, t)
  BY DEF Aside, Stream, Pending, Data, IsCorked

(* src does not overfill the cork buffer, if it goes there.                *)
Fits(o, s, src) == o.corked = s => Len(o.cork) + Len(src) <= CorkSize

(* What fits the cork buffer, fits it in part.                             *)
LEMMA FitsPart ==
    ASSUME NEW o, NEW s, NEW src, NEW part, IOInv(o, Tokens), Fits(o, s, src),
           Len(src) \in Nat, Len(part) \in 0..Len(src)
    PROVE  Fits(o, s, part)
  <1> DEFINE a == Len(o.cork)
             b == Len(src)
             c == Len(part)
  <1>1. a \in Nat /\ b \in Nat /\ c \in 0..b /\ CorkSize \in Nat
    BY Components, CorkAssumption DEF IOInv, IOSafe
  <1>2. o.corked = s => a + b <= CorkSize
    BY DEF Fits
  <1> HIDE DEF a, b, c
  <1>3. o.corked = s => a + c <= CorkSize
    BY <1>1, <1>2
  <1> QED
    BY <1>3 DEF Fits, a, c

(* src, as far as it counts as written, is the end of the stream.          *)
Put(o, s, src, room, optionally, r) ==
    /\ Call(o, r.io, s)
    /\ r.written \in 0..Len(src)
    /\ Len(r.io.sent[s]) - Len(o.sent[s]) \in 0..room
    /\ s \notin o.closed => Stream(r.io, s) = Stream(o, s) \o SubSeq(src, 1, r.written)
    /\ ~optionally /\ Fits(o, s, src) =>
         /\ r.written = Len(src)
         /\ o.corked = s => Len(r.io.cork) <= Len(o.cork) + Len(src)

(* A write() of HttpResponse that may have nothing to write.               *)
LEMMA WriteSomeKeeps ==
    ASSUME NEW o, IOInv(o, Tokens), NEW s \in Sockets, NEW src \in Seq(Tokens),
           NEW room \in Nat, NEW optionally \in BOOLEAN
    PROVE  Put(o, s, src, room, optionally, WriteSome(o, s, src, room, optionally))
  <1> DEFINE w == Write(o, s, src, room, optionally)
             r == WriteSome(o, s, src, room, optionally)
  <1>1. /\ IOSafe(o, Tokens) /\ Len(o.sent[s]) \in Nat /\ Len(src) \in Nat
        /\ Stream(o, s) \in Seq(Tokens) /\ Len(o.cork) \in Nat
    BY Components, PendingType DEF IOInv, IOSafe
  <1>2. CASE src = <<>>
    <2>1. r.io = o /\ r.written = 0 /\ Len(src) = 0
      BY <1>2, EmptySeq DEF WriteSome, Result
    <2>2. SubSeq(src, 1, 0) = <<>>
      BY Prefixes
    <2>3. Stream(o, s) \o <<>> = Stream(o, s)
      BY <1>1, ConcatEmptySeq
    <2> HIDE DEF r
    <2> QED
      BY <1>1, <2>1, <2>2, <2>3 DEF Put, Call, OnlyOf, r
  <1>3. CASE src # <<>>
    <2>1. r = w
      BY <1>3 DEF WriteSome
    <2>2. Called(o, Tokens, s, src, room, w)
      BY WriteKeeps DEF Written
    <2>3. ~optionally /\ Fits(o, s, src) =>
            /\ w.written = Len(src)
            /\ o.corked = s => Len(w.io.cork) <= Len(o.cork) + Len(src)
      <3> SUFFICES ASSUME optionally = FALSE, Fits(o, s, src)
                   PROVE  /\ w.written = Len(src)
                          /\ o.corked = s => Len(w.io.cork) <= Len(o.cork) + Len(src)
        OBVIOUS
      <3> QED
        BY FitsWritten DEF Fits
    <2> HIDE DEF w, r
    <2> QED
      BY <2>1, <2>2, <2>3 DEF Called, Put, Call, r
  <1> QED
    BY <1>2, <1>3

(* A head and data: when they fit, nothing of what counts is lost.         *)
Both(s, head, data, optionally, w) ==
    /\ Call(io, w.io, s)
    /\ w.written \in 0..Len(data)
    /\ Fits(io, s, head) /\ (~optionally => Fits(io, s, head \o data)) =>
         /\ Stream(w.io, s) = Stream(io, s) \o (head \o SubSeq(data, 1, w.written))
         /\ ~optionally => w.written = Len(data)

(* The head and the body of a response, the body without its head          *)
(* optionally.                                                             *)
LEMMA WriteBothKeeps ==
    ASSUME IOInv(io, Tokens), NEW s \in Sockets, s \notin io.closed,
           NEW head \in Seq(Tokens), NEW data \in Seq(Tokens),
           NEW room \in Nat, NEW optionally \in BOOLEAN
    PROVE  Both(s, head, data, optionally, WriteBoth(s, head, data, room, optionally))
  <1> DEFINE h == WriteSome(io, s, head, room, FALSE)
             left == room - (Len(h.io.sent[s]) - Len(io.sent[s]))
             w == WriteSome(h.io, s, data, left, optionally)
             b == WriteBoth(s, head, data, room, optionally)
  <1>1. b = w
    BY DEF WriteBoth
  <1>2. Put(io, s, head, room, FALSE, h)
    BY WriteSomeKeeps
  <1> HIDE DEF h, b
  <1>3. /\ IOInv(h.io, Tokens) /\ s \notin h.io.closed
        /\ Len(h.io.sent[s]) \in Nat /\ Len(io.sent[s]) \in Nat
        /\ Stream(io, s) \in Seq(Tokens) /\ Stream(h.io, s) \in Seq(Tokens)
    <2>1. IOInv(h.io, Tokens) /\ h.io.closed = io.closed
      BY <1>2, CallAside DEF Put, Call
    <2> QED
      BY <2>1, Components, PendingType DEF IOInv, IOSafe
  <1>4. left \in Nat
    BY <1>2, <1>3 DEF Put
  <1>5. Put(h.io, s, data, left, optionally, w)
    BY <1>3, <1>4, WriteSomeKeeps
  <1> HIDE DEF w, left
  <1>6. Call(io, w.io, s) /\ w.written \in 0..Len(data)
    BY <1>2, <1>5, CallAgain DEF Put
  <1>7. ASSUME Fits(io, s, head), ~optionally => Fits(io, s, head \o data)
        PROVE  /\ Stream(w.io, s) = Stream(io, s) \o (head \o SubSeq(data, 1, w.written))
               /\ ~optionally => w.written = Len(data)
    <2>1. /\ Len(head) \in Nat /\ Len(data) \in Nat
          /\ Len(head \o data) = Len(head) + Len(data)
      BY LenProperties, ConcatProperties
    <2>2. h.written = Len(head) /\ (io.corked = s => Len(h.io.cork) <= Len(io.cork) + Len(head))
      BY <1>2, <1>7 DEF Put
    <2>3. Stream(h.io, s) = Stream(io, s) \o head
      <3>1. SubSeq(head, 1, Len(head)) = head
        BY Prefixes
      <3> QED
        BY <1>2, <2>2, <3>1 DEF Put
    <2>4. ~optionally => Fits(h.io, s, data)
      <3> SUFFICES ASSUME ~optionally, h.io.corked = s
                   PROVE  Len(h.io.cork) + Len(data) <= CorkSize
        BY DEF Fits
      <3>1. io.corked = s
        BY <1>2, SocketAssumption DEF Put, Call
      <3>2. Len(io.cork) + Len(head \o data) <= CorkSize
        BY <1>7, <3>1 DEF Fits
      <3> DEFINE a == Len(io.cork)
                 q == Len(h.io.cork)
                 c == Len(head)
                 d == Len(data)
      <3>3. /\ a \in Nat /\ q \in Nat /\ c \in Nat /\ d \in Nat /\ CorkSize \in Nat
            /\ a + (c + d) <= CorkSize /\ q <= a + c
        BY <1>3, <2>1, <2>2, <3>1, <3>2, Components, CorkAssumption DEF IOInv, IOSafe
      <3> HIDE DEF a, q, c, d
      <3>4. q + d <= CorkSize
        BY <3>3
      <3> QED
        BY <3>4 DEF q, d
    <2>5. ~optionally => w.written = Len(data)
      BY <1>5, <2>4 DEF Put
    <2>6. SubSeq(data, 1, w.written) \in Seq(Tokens)
      BY <1>6, <2>1, Cut
    <2>7. Stream(w.io, s) = (Stream(io, s) \o head) \o SubSeq(data, 1, w.written)
      BY <1>3, <1>5, <2>3 DEF Put
    <2> QED
      <3> DEFINE x == Stream(io, s)
                 z == SubSeq(data, 1, w.written)
      <3>1. x \in Seq(Tokens) /\ z \in Seq(Tokens)
        BY <1>3, <2>6
      <3> HIDE DEF x, z
      <3>2. (x \o head) \o z = x \o (head \o z)
        BY <3>1, ConcatAssociative, SMTT(30)
      <3>3. (Stream(io, s) \o head) \o SubSeq(data, 1, w.written)
              = Stream(io, s) \o (head \o SubSeq(data, 1, w.written))
        BY <3>2 DEF x, z
      <3> QED
        BY <2>5, <2>7, <3>3
  <1> QED
    <2>1. Both(s, head, data, optionally, w)
      BY <1>6, <1>7 DEF Both
    <2> QED
      BY <1>1, <2>1 DEF b


-----------------------------------------------------------------------------
(* Closing, uncorking and draining.                                        *)

Closes(o, p, s) ==
    /\ IOInv(p, Tokens)
    /\ p.closed = o.closed \cup {s}
    /\ p.corked = o.corked /\ p.cork = o.cork /\ p.sent = o.sent
    /\ \A t \in Sockets \ {s} : p.raw[t] = o.raw[t] /\ p.removed[t] = o.removed[t]

(* us_socket_close() of a socket.                                          *)
LEMMA ClosedKeeps ==
    ASSUME NEW o, IOInv(o, Tokens), NEW s \in Sockets
    PROVE  Closes(o, ClosedIO(o, s), s) /\ ClosedIO(o, s).fin = o.fin
  <1> DEFINE p == ClosedIO(o, s)
  <1>1. IOType(o, Tokens) /\ \A t \in Sockets : Exact(o, t)
    BY DEF IOInv, IOSafe
  <1>2. /\ IOType(p, Tokens) /\ p.closed = o.closed \cup {s} /\ p.fin = o.fin
        /\ p.corked = o.corked /\ p.cork = o.cork /\ p.sent = o.sent
        /\ \A t \in Sockets \ {s} : p.raw[t] = o.raw[t] /\ p.removed[t] = o.removed[t]
        /\ p.raw[s] = <<>> /\ p.removed[s] = 0
    BY <1>1, EmptySeq DEF ClosedIO, Clear, IOType
  <1> HIDE DEF p
  <1>3. Exact(p, s)
    BY <1>2, EmptySeq, CorkAssumption, DivNat DEF Exact
  <1>4. \A t \in Sockets \ {s} : Exact(p, t)
    BY <1>1, <1>2 DEF Exact
  <1>5. IOSafe(p, Tokens)
    BY <1>2, <1>3, <1>4 DEF IOInv, IOSafe
  <1>6. CorkOwned(p)
    BY <1>1, <1>2 DEF IOInv, CorkOwned, IOType
  <1> QED
    BY <1>2, <1>5, <1>6 DEF p, Closes, IOInv

(* FIN changes nothing else.                                               *)
LEMMA ShutdownKeeps ==
    ASSUME NEW o, IOInv(o, Tokens), NEW s \in Sockets
    PROVE  LET p == Shutdown(o, s)
           IN  /\ IOInv(p, Tokens)
               /\ p.raw = o.raw /\ p.removed = o.removed /\ p.sent = o.sent
               /\ p.corked = o.corked /\ p.cork = o.cork /\ p.closed = o.closed
               /\ p.fin = IF s \in o.closed THEN o.fin ELSE o.fin \cup {s}
  <1> DEFINE p == Shutdown(o, s)
  <1>1. IOType(o, Tokens)
    BY DEF IOInv, IOSafe
  <1>2. /\ IOType(p, Tokens) /\ p.raw = o.raw /\ p.removed = o.removed
        /\ p.sent = o.sent /\ p.corked = o.corked /\ p.cork = o.cork
        /\ p.closed = o.closed
        /\ p.fin = IF s \in o.closed THEN o.fin ELSE o.fin \cup {s}
    BY <1>1 DEF Shutdown, IOType
  <1> HIDE DEF p
  <1>3. IOInv(p, Tokens)
    BY <1>2 DEF IOInv, IOSafe, Exact, CorkOwned
  <1> QED
    BY <1>2, <1>3 DEF p

(* The connection is closed when its last response is complete and nothing *)
(* is left of it.                                                          *)
Last(o, c, s, p) ==
    \/ /\ p = o
       /\ s \notin o.closed /\ c.close /\ ~c.pending => o.raw[s] # <<>>
    \/ /\ Closes(o, p, s) /\ p.fin = o.fin \cup {s}
       /\ s \notin o.closed /\ o.raw[s] = <<>> /\ c.close /\ ~c.pending

(* The shutdown and close after a last response, when it is drained.       *)
LEMMA LastKeeps ==
    ASSUME NEW o, IOInv(o, Tokens), NEW s \in Sockets, NEW c
    PROVE  Last(o, c, s, CloseIfLast(o, c, s))
  <1> DEFINE p == Shutdown(o, s)
             q == ClosedIO(p, s)
  <1>1. TotalLength(o, s) = 0 <=> o.raw[s] = <<>>
    <2>1. o.raw[s] \in Seq(Tokens)
      BY Components DEF IOInv, IOSafe
    <2> QED
      BY <2>1, EmptySeq DEF TotalLength
  <1>2. CASE MustClose(o, c, s)
    <2>1. CloseIfLast(o, c, s) = q
      BY <1>2 DEF CloseIfLast
    <2>2. s \notin o.closed /\ o.raw[s] = <<>> /\ c.close /\ ~c.pending
      BY <1>1, <1>2 DEF MustClose
    <2>3. /\ IOInv(p, Tokens)
          /\ p.raw = o.raw /\ p.removed = o.removed /\ p.sent = o.sent
          /\ p.corked = o.corked /\ p.cork = o.cork /\ p.closed = o.closed
          /\ p.fin = o.fin \cup {s}
      BY <2>2, ShutdownKeeps
    <2> HIDE DEF p
    <2>4. Closes(p, q, s) /\ q.fin = p.fin
      BY <2>3, ClosedKeeps
    <2> HIDE DEF q
    <2>5. Closes(o, q, s)
      BY <2>3, <2>4 DEF Closes
    <2> QED
      BY <2>1, <2>2, <2>3, <2>4, <2>5 DEF Last
  <1>3. CASE ~MustClose(o, c, s)
    <2>1. CloseIfLast(o, c, s) = o
      BY <1>3 DEF CloseIfLast
    <2> QED
      BY <1>1, <1>3, <2>1 DEF Last, MustClose
  <1> QED
    BY <1>2, <1>3

(* Closing and what went before it are about the socket alone.             *)
LEMMA ClosesAside ==
    ASSUME NEW o, NEW p, NEW q, NEW s \in Sockets, Aside(o, p, s), Closes(p, q, s),
           q.fin \subseteq p.fin \cup {s}
    PROVE  Aside(o, q, s)
  BY DEF Aside, Closes

(* It leaves other sockets, the cork and what was sent alone.              *)
LEMMA LastAside ==
    ASSUME NEW o, NEW p, NEW q, NEW s \in Sockets, NEW c, Aside(o, p, s), Last(p, c, s, q)
    PROVE  Aside(o, q, s) /\ q.corked = p.corked /\ q.cork = p.cork /\ q.sent = p.sent
  BY ClosesAside DEF Last, Closes

(* An uncork without data of its own.                                      *)
Freed(o, s, r) ==
    /\ Call(o, r.io, s) /\ r.io.corked # s
    /\ s \notin o.closed => Stream(r.io, s) = Stream(o, s)
    /\ s \in o.closed => r.io.sent = o.sent

(* The uncork() at the end of a data handler or of a block.                *)
LEMMA FreedKeeps ==
    ASSUME NEW o, IOInv(o, Tokens), NEW s \in Sockets, NEW room \in Nat
    PROVE  Freed(o, s, Uncork(o, s, <<>>, room, FALSE))
  <1> DEFINE r == Uncork(o, s, <<>>, room, FALSE)
  <1>1. Uncorked(o, Tokens, s, r)
    BY UncorkDrains
  <1>2. s \in o.closed => r.io.sent = o.sent
    BY ClosedIgnored DEF IOInv, IOSafe
  <1> HIDE DEF r
  <1> SUFFICES Freed(o, s, r)
    BY DEF r
  <1>3. CASE o.corked = s
    BY <1>1, <1>2, <1>3, SocketAssumption DEF Uncorked, Drained, Freed, Call
  <1>4. CASE o.corked # s
    BY <1>1, <1>2, <1>4 DEF Uncorked, Freed, Call, OnlyOf
  <1> QED
    BY <1>3, <1>4

(* A write of nothing, to a socket that is not corked.                     *)
LEMMA DrainFrees ==
    ASSUME NEW o, IOInv(o, Tokens), NEW s \in Sockets, NEW room \in Nat,
           o.corked # s, s \notin o.closed
    PROVE  Freed(o, s, Write(o, s, <<>>, room, TRUE))
  <1> DEFINE r == Write(o, s, <<>>, room, TRUE)
  <1>1. Written(o, Tokens, s, <<>>, room, r)
    BY WriteKeeps, EmptySeq
  <1> HIDE DEF r
  <1>2. Drained(o, Tokens, s, r) /\ r.io.corked = o.corked
    BY <1>1, CalledDrains DEF Written
  <1> QED
    BY <1>2 DEF r, Drained, Freed, Call

(* Taking the cork.                                                        *)
LEMMA CorkKeeps ==
    ASSUME NEW o, IOInv(o, Tokens), NEW s \in Sockets, o.corked = Nil
    PROVE  LET p == Cork(o, s)
           IN  /\ Aside(o, p, s) /\ p.corked = s
               /\ Stream(p, s) = Stream(o, s)
               /\ p.sent = o.sent /\ p.raw = o.raw /\ p.fin = o.fin
               /\ p.closed = o.closed
  <1> DEFINE p == Cork(o, s)
  <1>1. /\ IOSafe(o, Tokens) /\ IOType(o, Tokens) /\ o.cork = <<>>
        /\ s # Nil /\ Len(o.cork) <= CorkSize
    BY SocketAssumption DEF IOInv, IOSafe, CorkOwned
  <1>2. /\ IOType(p, Tokens) /\ CorkOnly(o, p) /\ p.corked = s /\ p.cork = <<>>
    BY <1>1 DEF Cork, IOType, CorkOnly
  <1> HIDE DEF p
  <1>3. IOSafe(p, Tokens) /\ OnlyOf(o, p, s) /\ Pending(p, s) = Pending(o, s)
    BY <1>1, <1>2, CorkOnlyKeeps
  <1>4. IOInv(p, Tokens)
    BY <1>1, <1>2, <1>3 DEF IOInv, CorkOwned
  <1>5. Stream(p, s) = Stream(o, s)
    BY <1>1, <1>2, <1>3, StreamEnds
  <1>6. Aside(o, p, s)
    BY <1>1, <1>2, <1>3, <1>4, SocketAssumption DEF Aside, OnlyOf
  <1> QED
    BY <1>2, <1>5, <1>6 DEF p, CorkOnly

-----------------------------------------------------------------------------
(* The end of a response.                                                  *)

(* A sequence of one.                                                      *)
LEMMA Single ==
    ASSUME NEW S, NEW x \in S
    PROVE  <<x>> \in Seq(S) /\ Len(<<x>>) = 1 /\ <<x>>[1] = x
  OBVIOUS

(* The tokens of a response are tokens.                                    *)
LEMMA TokenTypes ==
    ASSUME Types, NEW s \in Sockets
    PROVE  /\ \A k \in Kinds, i \in Nat : <<Token(s, k, i)>> \in Seq(Tokens)
           /\ Status(s) \in Seq(Tokens)
           /\ \A close : Farewell(s, close) \in Seq(Tokens)
           /\ \A n \in Nat : Body(s, n) \in Seq(Tokens) /\ Len(Body(s, n)) = n
  <1>1. request[s] \in Nat /\ res[s] \in Conns
    BY DEF Types
  <1>2. \A k \in Kinds, i \in Nat : Token(s, k, i) \in Tokens
    BY <1>1 DEF Token, Tokens
  <1>3. \A k \in Kinds, i \in Nat : <<Token(s, k, i)>> \in Seq(Tokens)
    <2> SUFFICES ASSUME NEW k \in Kinds, NEW i \in Nat
                 PROVE  <<Token(s, k, i)>> \in Seq(Tokens)
      OBVIOUS
    <2> DEFINE t == Token(s, k, i)
    <2>1. t \in Tokens
      BY <1>2
    <2> HIDE DEF t
    <2>2. <<t>> \in Seq(Tokens)
      BY <2>1, Single
    <2> QED
      BY <2>2 DEF t
  <1>4. <<>> \in Seq(Tokens)
    BY EmptySeq
  <1>5. Status(s) \in Seq(Tokens) /\ \A close : Farewell(s, close) \in Seq(Tokens)
    <2>1. /\ <<Token(s, "status", 0)>> \in Seq(Tokens)
          /\ <<Token(s, "header", 0)>> \in Seq(Tokens)
      BY <1>3 DEF Kinds
    <2> QED
      BY <1>4, <2>1 DEF Status, Farewell
  <1>6. ASSUME NEW n \in Nat PROVE Body(s, n) \in Seq(Tokens) /\ Len(Body(s, n)) = n
    <2>1. res[s].offset \in Nat
      BY <1>1 DEF Conns
    <2>2. ASSUME NEW j \in 1..n
          PROVE  Token(s, "data", res[s].offset + j) \in Tokens
      <3>1. res[s].offset + j \in Nat
        BY <2>1
      <3> QED
        BY <1>2, <3>1 DEF Kinds
    <2> QED
      BY <2>2 DEF Body
  <1> QED
    BY <1>3, <1>5, <1>6

(* What remains of c when the response goes on or is complete as d.        *)
Goes(c, d, close) ==
    /\ d \in Conns
    /\ d.open = c.open /\ d.body = c.body /\ d.inStream = c.inStream
    /\ d.close = (c.close \/ close)
    /\ d.pending =>
         c.pending /\ d.onAborted = c.onAborted /\ d.onWritable = c.onWritable
    /\ ~d.pending => d.onAborted = 0 /\ d.onWritable = 0
    /\ ~d.ended => ~c.ended /\ d.offset = c.offset

(* A step of a response: its tokens are the end of the stream, if they fit *)
(* the cork buffer.  A complete response starts the timer, unless it ends  *)
(* before the length it has announced.                                     *)
Ended(s, n, total, close, e) ==
    /\ Call(io, e.io, s)
    /\ e.made \in Seq(Tokens)
    /\ Fits(io, s, e.made) =>
         Stream(e.io, s) = Stream(io, s) \o e.made
    /\ Goes(res[s], e.res, close)
    /\ ~e.res.pending /\ (n = 0 => total = res[s].offset) => e.res.timer

(* internalEnd() of a response with Transfer-Encoding: chunked.            *)
LEMMA EndChunkedKeeps ==
    ASSUME Types, NEW s \in Sockets, s \notin io.closed, res[s].pending,
           NEW n \in Nat, NEW total \in Nat, NEW optionally \in BOOLEAN,
           NEW close \in BOOLEAN, NEW room \in Nat
    PROVE  Ended(s, n, total, close, EndChunked(s, n, total, optionally, close, room))
  <1> DEFINE tokens == Status(s)
                       \o Farewell(s, close)
                       \o (IF n > 0 THEN <<Token(s, "chunk", 0)>> ELSE <<>>)
                       \o <<Token(s, "last", 0)>>
             w == WriteSome(io, s, tokens, room, FALSE)
             e == EndChunked(s, n, total, optionally, close, room)
             d == [MarkDone(res[s]) EXCEPT !.status = TRUE, !.timer = TRUE,
                                           !.close = @ \/ close]
  <1>1. e.io = w.io /\ e.made = tokens /\ e.res = d
    BY DEF EndChunked
  <1>2. tokens \in Seq(Tokens)
    <2>1. <<>> \in Seq(Tokens)
      BY EmptySeq
    <2>2. /\ <<Token(s, "chunk", 0)>> \in Seq(Tokens)
          /\ <<Token(s, "last", 0)>> \in Seq(Tokens)
          /\ Status(s) \in Seq(Tokens) /\ Farewell(s, close) \in Seq(Tokens)
      BY TokenTypes DEF Kinds
    <2> QED
      BY <2>1, <2>2
  <1> HIDE DEF tokens
  <1>3. IOInv(io, Tokens) /\ res[s] \in Conns
    BY DEF Types
  <1>4. Put(io, s, tokens, room, FALSE, w)
    BY <1>2, <1>3, WriteSomeKeeps
  <1>5. /\ d \in Conns /\ d.timer /\ ~d.pending
        /\ Goes(res[s], d, close)
    BY <1>3 DEF Conns, MarkDone, Goes
  <1> HIDE DEF w, d, e
  <1>6. ASSUME Fits(io, s, tokens)
        PROVE  Stream(w.io, s) = Stream(io, s) \o tokens
    <2>1. w.written = Len(tokens)
      BY <1>4, <1>6 DEF Put
    <2>2. SubSeq(tokens, 1, Len(tokens)) = tokens
      BY <1>2, Prefixes
    <2> QED
      BY <1>4, <2>1, <2>2 DEF Put
  <1>7. Ended(s, n, total, close, e)
    BY <1>1, <1>2, <1>4, <1>5, <1>6 DEF Ended, Put
  <1> QED
    BY <1>7 DEF e

(* internalEnd() of a response with a length.                              *)
LEMMA EndWithLengthKeeps ==
    ASSUME Types, NEW s \in Sockets, s \notin io.closed, res[s].pending,
           NEW n \in Nat, NEW total \in Nat, NEW optionally \in BOOLEAN,
           NEW close \in BOOLEAN, NEW room \in Nat
    PROVE  Ended(s, n, total, close, EndWithLength(s, n, total, optionally, close, room))
  <1> DEFINE head == Status(s)
                     \o Farewell(s, close)
                     \o (IF res[s].ended THEN <<>> ELSE <<Token(s, "length", total)>>)
             data == Body(s, n)
             w == WriteBoth(s, head, data, room, optionally)
             part == SubSeq(data, 1, w.written)
             offset == res[s].offset + w.written
             success == n = 0 \/ (w.written = n /\ ~w.failed)
             after == [res[s] EXCEPT !.status = TRUE, !.ended = TRUE,
                         !.close = @ \/ close, !.offset = offset, !.total = total,
                         !.timer = @ \/ ~success \/ offset = total]
             d == IF offset = total \/ n = 0 THEN MarkDone(after) ELSE after
             e == EndWithLength(s, n, total, optionally, close, room)
  <1>1. /\ e.io = w.io /\ e.res = d
        /\ e.made = head \o (IF optionally THEN part ELSE data)
    BY DEF EndWithLength
  <1>2. IOInv(io, Tokens) /\ res[s] \in Conns /\ res[s].offset \in Nat
    BY DEF Types, Conns
  <1>3. head \in Seq(Tokens) /\ data \in Seq(Tokens) /\ Len(data) = n
    <2>1. <<>> \in Seq(Tokens)
      BY EmptySeq
    <2>2. /\ <<Token(s, "length", total)>> \in Seq(Tokens)
          /\ Status(s) \in Seq(Tokens) /\ Farewell(s, close) \in Seq(Tokens)
          /\ data \in Seq(Tokens) /\ Len(data) = n
      BY TokenTypes DEF Kinds
    <2> HIDE DEF data
    <2> QED
      BY <2>1, <2>2
  <1> HIDE DEF head, data
  <1>4. Both(s, head, data, optionally, w)
    BY <1>2, <1>3, WriteBothKeeps
  <1> HIDE DEF w
  <1>5. /\ w.written \in 0..n /\ part \in Seq(Tokens) /\ Len(part) = w.written
        /\ w.written = n => part = data
    <2>1. w.written \in 0..Len(data)
      BY <1>4 DEF Both
    <2> QED
      BY <1>3, <2>1, Cut, Prefixes
  <1>6. offset \in Nat /\ (n = 0 => offset = res[s].offset)
    BY <1>2, <1>5
  <1> HIDE DEF part
  <1>7. /\ d \in Conns /\ Goes(res[s], d, close)
        /\ ~d.pending /\ (n = 0 => total = res[s].offset) => d.timer
    <2> HIDE DEF offset, success
    <2>1. /\ after \in Conns /\ after.pending = res[s].pending /\ after.ended
          /\ after.open = res[s].open /\ after.body = res[s].body
          /\ after.inStream = res[s].inStream /\ after.close = (res[s].close \/ close)
          /\ after.onAborted = res[s].onAborted /\ after.onWritable = res[s].onWritable
          /\ (offset = total => after.timer)
      BY <1>2, <1>6 DEF Conns
    <2> HIDE DEF after
    <2>2. CASE offset = total \/ n = 0
      <3>1. d = MarkDone(after)
        BY <2>2
      <3>2. /\ d \in Conns /\ ~d.pending /\ d.onAborted = 0 /\ d.onWritable = 0
            /\ d.open = after.open /\ d.body = after.body /\ d.inStream = after.inStream
            /\ d.close = after.close /\ d.ended = after.ended /\ d.timer = after.timer
        BY <2>1, <3>1 DEF Conns, MarkDone
      <3> HIDE DEF d
      <3> QED
        BY <1>6, <2>1, <2>2, <3>2 DEF Goes
    <2>3. CASE ~(offset = total \/ n = 0)
      <3>1. d = after
        BY <2>3
      <3> HIDE DEF d
      <3>2. Goes(res[s], d, close)
        BY <2>1, <3>1 DEF Goes
      <3> QED
        BY <2>1, <3>1, <3>2
    <2> QED
      BY <2>2, <2>3
  <1> HIDE DEF d, e, offset, success, after
  <1>8. e.made \in Seq(Tokens)
    BY <1>1, <1>3, <1>5
  <1>9. ASSUME Fits(io, s, e.made)
        PROVE  Stream(e.io, s) = Stream(io, s) \o e.made
    <2>1. CASE optionally
      <3>1. e.made = head \o part /\ Len(e.made) = Len(head) + Len(part)
        BY <1>1, <1>3, <1>5, <2>1, ConcatProperties
      <3>2. Fits(io, s, head)
        <4>1. Len(head) \in Nat /\ Len(part) \in Nat
          BY <1>3, <1>5, LenProperties
        <4>2. Len(e.made) \in Nat /\ Len(head) \in 0..Len(e.made)
          BY <3>1, <4>1
        <4> QED
          BY <1>2, <1>9, <4>2, FitsPart
      <3> QED
        BY <1>1, <1>4, <2>1, <3>1, <3>2 DEF Both, part
    <2>2. CASE ~optionally
      <3>1. e.made = head \o data /\ Len(e.made) = Len(head) + Len(data)
        BY <1>1, <1>3, <2>2, ConcatProperties
      <3>2. Fits(io, s, head)
        <4>1. Len(head) \in Nat /\ Len(data) \in Nat
          BY <1>3, LenProperties
        <4>2. Len(e.made) \in Nat /\ Len(head) \in 0..Len(e.made)
          BY <3>1, <4>1
        <4> QED
          BY <1>2, <1>9, <4>2, FitsPart
      <3>3. /\ Stream(w.io, s) = Stream(io, s) \o (head \o part)
            /\ w.written = n
        BY <1>3, <1>4, <1>9, <2>2, <3>1, <3>2 DEF Both, part
      <3> QED
        BY <1>1, <1>5, <3>1, <3>3
    <2> QED
      BY <2>1, <2>2
  <1> QED
    <2>1. Ended(s, n, total, close, e)
      BY <1>1, <1>4, <1>7, <1>8, <1>9 DEF Ended, Both
    <2> QED
      BY <2>1 DEF e

-----------------------------------------------------------------------------
(* The stack.                                                              *)

(* A step whose handlers' stack is as it should be.                        *)
Stacked == stack' \in Seq(Frames) /\ Shape' /\ Owner'

(* The shape of the stack where no handler comes or goes.                  *)
LEMMA StackStays ==
    ASSUME Inv, stack' = stack, io.closed \subseteq io'.closed,
           io'.corked \in {io.corked, Nil},
           \A t \in Sockets : res'[t].body = res[t].body
    PROVE  Stacked
  <1>1. stack \in Seq(Frames) /\ Shape /\ Owner
    BY DEF Inv, Types
  <1>2. Owner'
    BY <1>1 DEF Owner
  <1>3. Len(stack) > 0 /\ stack[1].kind = "data" => stack[1].s \in Sockets
    <2>1. Len(stack) > 0 => stack[1] \in Frames
      BY <1>1
    <2> QED
      BY <2>1 DEF Frames, DataFrames, StreamFrames, CallFrames
  <1>4. Shape'
    BY <1>1, <1>3 DEF Shape
  <1> QED
    BY <1>1, <1>2, <1>4 DEF Stacked

(* The shape of the stack with the data handler or the writable handler    *)
(* alone.                                                                  *)
LEMMA OneFrame ==
    ASSUME NEW f \in DataFrames \cup CallFrames, stack' = <<f>>,
           f.kind \in {"data", "writable"},
           f.kind = "data" => /\ f.at = "stop" => f.s \in io'.closed
                              /\ f.at = "owed" => res'[f.s].body = "length",
           io'.corked # Nil => f.kind = "data" /\ f.s = io'.corked
    PROVE  Stacked
  <1>1. stack' \in Seq(Frames) /\ Len(stack') = 1 /\ stack'[1] = f
    BY DEF Frames
  <1>2. Shape'
    BY <1>1 DEF Shape
  <1>3. Owner'
    BY <1>1 DEF Owner, Uncorks
  <1> QED
    BY <1>1, <1>2, <1>3 DEF Stacked

(* The shape of the stack with a callback of the parser.                   *)
LEMMA TwoFrames ==
    ASSUME NEW d \in DataFrames, NEW f \in StreamFrames \cup CallFrames,
           stack' = <<d, f>>, f.kind \in {"handler", "stream"}, f.s = d.s, ~d.first,
           d.at = "stop" => d.s \in io'.closed,
           d.at = "owed" => res'[d.s].body = "length",
           io'.corked # Nil => d.s = io'.corked
    PROVE  Stacked
  <1>1. /\ stack' \in Seq(Frames) /\ Len(stack') = 2
        /\ stack'[1] = d /\ stack'[2] = f
    BY DEF Frames
  <1>2. d.kind = "data"
    BY DEF DataFrames
  <1>3. Shape'
    BY <1>1, <1>2 DEF Shape
  <1>4. Owner'
    BY <1>1, <1>2 DEF Owner, Uncorks
  <1> QED
    BY <1>1, <1>3, <1>4 DEF Stacked

(* The shape of the stack when the last handler returns, the cork          *)
(* released.                                                               *)
LEMMA NoFrame ==
    ASSUME stack' = <<>>, io'.corked = Nil
    PROVE  Stacked
  <1>1. stack' \in Seq(Frames) /\ Len(stack') = 0
    BY EmptySeq
  <1> QED
    BY <1>1 DEF Stacked, Shape, Owner

(* Two frames, one after the other.                                        *)
LEMMA Pair ==
    ASSUME NEW S, NEW x \in S, NEW y \in S
    PROVE  Append(<<x>>, y) = <<x, y>>
  <1> DEFINE q == Append(<<x>>, y)
             p == <<x, y>>
  <1>1. q \in Seq(S) /\ Len(q) = 2 /\ q[1] = x /\ q[2] = y
    OBVIOUS
  <1>2. p \in Seq(S) /\ Len(p) = 2 /\ p[1] = x /\ p[2] = y
    OBVIOUS
  <1> HIDE DEF p, q
  <1>3. \A i \in 1..Len(q) : q[i] = p[i]
    BY <1>1, <1>2
  <1>4. q = p
    BY <1>1, <1>2, <1>3, SeqEqual
  <1> QED
    BY <1>4 DEF p, q

(* A data handler in the parser is alone.                                  *)
LEMMA InParser ==
    ASSUME Inv, Atop("data")
    PROVE  /\ Top \in DataFrames /\ Len(stack) = 1 /\ stack[1] = Top
           /\ stack = <<Top>>
           /\ \A a : Goto(a) = <<[Top EXCEPT !.at = a, !.first = FALSE]>>
           /\ io.corked # Nil => io.corked = Top.s
           /\ Top.at = "owed" => res[Top.s].body = "length"
           /\ Top.at = "stop" => Top.s \in io.closed
  <1>1. /\ stack \in Seq(Frames) /\ Len(stack) \in Nat \ {0} /\ Shape /\ Owner
        /\ stack[Len(stack)].kind = "data"
    BY EmptySeq DEF Inv, Types, Atop
  <1>2. Len(stack) = 1
    <2>1. Len(stack) \in 1..Len(stack)
      BY <1>1
    <2> QED
      BY <1>1, <2>1 DEF Shape
  <1>3. Top = stack[1] /\ Top.kind = "data" /\ Top \in Frames
    BY <1>1, <1>2 DEF Top
  <1>4. Top \in DataFrames
    BY <1>3 DEF Frames, StreamFrames, CallFrames
  <1>5. stack = <<Top>>
    BY <1>1, <1>2, <1>3, SeqEqual
  <1>6. \A a : Goto(a) = <<[Top EXCEPT !.at = a, !.first = FALSE]>>
    <2> SUFFICES ASSUME NEW a
                 PROVE  Goto(a) = <<[Top EXCEPT !.at = a, !.first = FALSE]>>
      OBVIOUS
    <2> DEFINE t == Top
    <2>1. stack = <<t>> /\ Len(stack) = 1 /\ t \in DataFrames
      BY <1>2, <1>4, <1>5
    <2> HIDE DEF t
    <2>2. Goto(a) = [<<t>> EXCEPT ![1].at = a, ![1].first = FALSE]
      BY <2>1 DEF Goto
    <2>3. [<<t>> EXCEPT ![1].at = a, ![1].first = FALSE]
            = <<[t EXCEPT !.at = a, !.first = FALSE]>>
      OBVIOUS
    <2> QED
      BY <2>2, <2>3 DEF t
  <1>7. io.corked # Nil => io.corked = Top.s
    BY <1>1, <1>2, <1>3 DEF Owner
  <1> QED
    <2>1. /\ stack[1].at = "owed" => res[stack[1].s].body = "length"
          /\ stack[1].at = "stop" => stack[1].s \in io.closed
      BY <1>1, <1>2, <1>3 DEF Shape
    <2> QED
      BY <1>2, <1>3, <1>4, <1>5, <1>6, <1>7, <2>1

(* A callback of the parser is alone above its data handler.               *)
LEMMA InCallback ==
    ASSUME Inv, Atop("handler") \/ Atop("stream")
    PROVE  /\ Len(stack) = 2 /\ stack[1] \in DataFrames /\ Top = stack[2]
           /\ stack[1].s = Top.s /\ ~stack[1].first
           /\ Top \in StreamFrames \cup CallFrames
           /\ Pop = <<stack[1]>>
           /\ \A a : [Pop EXCEPT ![Len(Pop)].at = a] = <<[stack[1] EXCEPT !.at = a]>>
           /\ io.corked # Nil => io.corked = Top.s
           /\ stack[1].at = "owed" => res[Top.s].body = "length"
           /\ stack[1].at = "stop" => Top.s \in io.closed
  <1>1. /\ stack \in Seq(Frames) /\ Len(stack) \in Nat \ {0} /\ Shape /\ Owner
        /\ stack[Len(stack)].kind \in {"handler", "stream"}
    BY EmptySeq DEF Inv, Types, Atop
  <1>2. Len(stack) = 2 /\ stack[1].kind = "data" /\ stack[1].s = stack[2].s
    <2>1. Len(stack) \in 1..Len(stack)
      BY <1>1
    <2> QED
      BY <1>1, <2>1 DEF Shape
  <1>3. stack[1] \in Frames /\ stack[2] \in Frames /\ Top = stack[2]
    <2>1. 1 \in 1..Len(stack) /\ 2 \in 1..Len(stack)
      BY <1>2
    <2> QED
      BY <1>1, <1>2, <2>1, ElementOfSeq DEF Top
  <1>4. stack[1] \in DataFrames /\ stack[2] \in StreamFrames \cup CallFrames
    BY <1>1, <1>2, <1>3 DEF Frames, DataFrames, StreamFrames, CallFrames
  <1>5. Pop = <<stack[1]>>
    <2>1. Pop = SubSeq(stack, 1, 1)
      BY <1>2 DEF Pop
    <2>2. /\ SubSeq(stack, 1, 1) \in Seq(Frames) /\ Len(SubSeq(stack, 1, 1)) = 1
          /\ SubSeq(stack, 1, 1)[1] = stack[1]
      BY <1>1, <1>2, <1>3, SubSeqProperties
    <2>3. /\ <<stack[1]>> \in Seq(Frames) /\ Len(<<stack[1]>>) = 1
          /\ <<stack[1]>>[1] = stack[1]
      BY <1>3
    <2> QED
      <3>1. SubSeq(stack, 1, 1) = <<stack[1]>>
        <4> DEFINE q == SubSeq(stack, 1, 1)
                   p == <<stack[1]>>
        <4>1. /\ q \in Seq(Frames) /\ p \in Seq(Frames) /\ Len(q) = Len(p)
              /\ \A i \in 1..Len(q) : q[i] = p[i]
          BY <2>2, <2>3
        <4> HIDE DEF q, p
        <4> QED
          BY <4>1, SeqEqual DEF q, p
      <3> QED
        BY <2>1, <3>1
  <1>6. \A a : [Pop EXCEPT ![Len(Pop)].at = a] = <<[stack[1] EXCEPT !.at = a]>>
    <2> SUFFICES ASSUME NEW a
                 PROVE  [Pop EXCEPT ![Len(Pop)].at = a] = <<[stack[1] EXCEPT !.at = a]>>
      OBVIOUS
    <2> DEFINE t == stack[1]
    <2>1. Pop = <<t>>
      BY <1>5
    <2> HIDE DEF t
    <2>2. Len(<<t>>) = 1 /\ [<<t>> EXCEPT ![1].at = a] = <<[t EXCEPT !.at = a]>>
      OBVIOUS
    <2> QED
      BY <2>1, <2>2 DEF t
  <1>7. io.corked # Nil => io.corked = Top.s
    BY <1>1, <1>2, <1>3 DEF Owner, Uncorks
  <1>8. ~stack[1].first
    BY <1>1, <1>2 DEF Shape
  <1> QED
    BY <1>1, <1>2, <1>3, <1>4, <1>5, <1>6, <1>7, <1>8 DEF Shape

-----------------------------------------------------------------------------
(* What a step does to the streams.                                        *)

(* A step about s that adds src to what the peer of s gets.  When src fits *)
(* the cork buffer behind what is there, it is the end of the stream of an *)
(* open connection, and all of it is sent ahead of a FIN (but for the one  *)
(* after an error response).                                               *)
Effect(s, src) ==
    /\ Aside(io, io', s)
    /\ io'.fin \subseteq io.fin \cup io'.closed
    /\ s \in io.closed => io'.sent[s] = io.sent[s] /\ io'.fin = io.fin
    /\ s \notin io.closed /\ Fits(io, s, src) =>
         /\ s \notin io'.closed => Stream(io', s) = Stream(io, s) \o src
         /\ "malformed" \notin Usage /\ s \in io'.fin \ io.fin =>
              io'.sent[s] = Stream(io, s) \o src

(* Without backpressure and corked bytes the stream has been sent.         *)
LEMMA SentAll ==
    ASSUME NEW o, IOInv(o, Tokens), NEW s \in Sockets, o.raw[s] = <<>>, o.corked # s
    PROVE  Stream(o, s) = o.sent[s]
  <1>1. IOSafe(o, Tokens) /\ IOType(o, Tokens) /\ Exact(o, s) /\ o.sent[s] \in Seq(Tokens)
    BY Components DEF IOInv, IOSafe
  <1>2. Data(o, s) = <<>>
    BY <1>1, LengthExact
  <1>3. Stream(o, s) = Pending(o, s)
    BY <1>1, StreamEnds
  <1>4. o.sent[s] \o <<>> = o.sent[s]
    BY <1>1, ConcatEmptySeq
  <1> QED
    BY <1>2, <1>3, <1>4 DEF Pending

(* A write() for a socket adds src to its stream.                          *)
LEMMA CallEffect ==
    ASSUME NEW s \in Sockets, NEW src, Call(io, io', s),
           s \notin io.closed /\ Fits(io, s, src) =>
             Stream(io', s) = Stream(io, s) \o src,
           s \in io.closed => io'.sent[s] = io.sent[s]
    PROVE  Effect(s, src) /\ io'.closed = io.closed /\ io'.corked \in {io.corked, Nil}
  <1>1. Aside(io, io', s) /\ io'.closed = io.closed /\ io'.fin = io.fin
    BY CallAside
  <1> QED
    BY <1>1 DEF Effect, Call

(* So does one after which a last response may close the socket; if it     *)
(* does not, it has backpressure.                                          *)
LEMMA LastEffect ==
    ASSUME NEW s \in Sockets, NEW src, NEW p, NEW c, Call(io, p, s), Last(p, c, s, io'),
           p.corked # s,
           s \notin io.closed /\ Fits(io, s, src) =>
             Stream(p, s) = Stream(io, s) \o src,
           s \in io.closed => p.sent[s] = io.sent[s]
    PROVE  /\ Effect(s, src) /\ io'.corked \in {io.corked, Nil} /\ io'.corked # s
           /\ \/ io'.closed = io.closed
              \/ io'.closed = io.closed \cup {s} /\ c.close /\ ~c.pending
           /\ s \notin io'.closed /\ c.close /\ ~c.pending => io'.raw[s] # <<>>
  <1>1. Aside(io, p, s) /\ p.closed = io.closed /\ p.fin = io.fin /\ IOInv(p, Tokens)
    BY CallAside DEF Call
  <1>2. /\ Aside(io, io', s) /\ io'.corked = p.corked /\ io'.sent = p.sent
        /\ p.corked \in {io.corked, Nil}
    BY <1>1, LastAside DEF Call
  <1>3. CASE io' = p
    BY <1>1, <1>2, <1>3 DEF Effect, Last, Closes
  <1>4. CASE io' # p
    <2>1. /\ Closes(p, io', s) /\ io'.fin = p.fin \cup {s} /\ p.raw[s] = <<>>
          /\ c.close /\ ~c.pending /\ s \notin p.closed
      BY <1>4 DEF Last
    <2>2. Stream(p, s) = p.sent[s]
      BY <1>1, <2>1, SentAll
    <2> QED
      BY <1>1, <1>2, <2>1, <2>2 DEF Effect, Closes
  <1> QED
    BY <1>3, <1>4

(* Closing a socket adds nothing to its stream.                            *)
LEMMA CloseEffect ==
    ASSUME IOInv(io, Tokens), NEW s \in Sockets, NEW src, io' = ClosedIO(io, s)
    PROVE  /\ Effect(s, src) /\ io'.corked = io.corked /\ io'.fin = io.fin
           /\ io'.closed = io.closed \cup {s}
  <1>1. Closes(io, io', s) /\ io'.fin = io.fin
    BY ClosedKeeps
  <1>2. Aside(io, io, s)
    BY DEF Aside
  <1>3. Aside(io, io', s)
    BY <1>1, <1>2, ClosesAside
  <1> QED
    BY <1>1, <1>3 DEF Effect, Closes

(* Nothing happens to the streams.                                         *)
LEMMA NoEffect ==
    ASSUME IOInv(io, Tokens), NEW s \in Sockets, io' = io
    PROVE  Effect(s, <<>>)
  <1>1. Stream(io, s) \in Seq(Tokens)
    BY PendingType DEF IOInv
  <1>2. Stream(io, s) \o <<>> = Stream(io, s)
    BY <1>1, ConcatEmptySeq
  <1> QED
    BY <1>2 DEF Effect, Aside

(* cork() of a socket when nobody is corked.                               *)
LEMMA CorkEffect ==
    ASSUME IOInv(io, Tokens), NEW s \in Sockets, io.corked = Nil, io' = Cork(io, s)
    PROVE  Effect(s, <<>>) /\ io'.corked = s /\ io'.closed = io.closed /\ io'.raw = io.raw
  <1>1. Stream(io, s) \in Seq(Tokens)
    BY PendingType DEF IOInv
  <1>2. Stream(io, s) \o <<>> = Stream(io, s)
    BY <1>1, ConcatEmptySeq
  <1>3. /\ Aside(io, io', s) /\ io'.corked = s /\ Stream(io', s) = Stream(io, s)
        /\ io'.sent = io.sent /\ io'.raw = io.raw /\ io'.fin = io.fin
        /\ io'.closed = io.closed
    BY CorkKeeps
  <1> QED
    BY <1>2, <1>3 DEF Effect

(* The connection of a handler or block that comes back.                   *)
LEMMA FreedEffect ==
    ASSUME IOInv(io, Tokens), NEW s \in Sockets, NEW r, Freed(io, s, r), NEW c,
           io' = r.io \/ Last(r.io, c, s, io')
    PROVE  /\ Effect(s, <<>>) /\ io'.corked \in {io.corked, Nil} /\ io'.corked # s
           /\ \/ io'.closed = io.closed
              \/ io'.closed = io.closed \cup {s} /\ c.close /\ ~c.pending
           /\ Last(r.io, c, s, io') =>
                (s \notin io'.closed /\ c.close /\ ~c.pending => io'.raw[s] # <<>>)
  <1>1. Stream(io, s) \in Seq(Tokens)
    BY PendingType DEF IOInv
  <1>2. Stream(io, s) \o <<>> = Stream(io, s)
    BY <1>1, ConcatEmptySeq
  <1>3. /\ Call(io, r.io, s) /\ r.io.corked # s
        /\ s \notin io.closed => Stream(r.io, s) = Stream(io, s) \o <<>>
        /\ s \in io.closed => r.io.sent[s] = io.sent[s]
    BY <1>2 DEF Freed
  <1>4. CASE Last(r.io, c, s, io')
    BY <1>3, <1>4, LastEffect
  <1>5. CASE io' = r.io /\ ~Last(r.io, c, s, io')
    BY <1>3, <1>5, CallEffect
  <1> QED
    BY <1>4, <1>5

-----------------------------------------------------------------------------
(* Steps that keep the invariant.                                          *)

(* No handler, no cork.                                                    *)
LEMMA AtRest ==
    ASSUME Inv, stack = <<>>
    PROVE  io.corked = Nil
  <1>1. Len(stack) = 0
    BY EmptySeq
  <1> QED
    BY <1>1 DEF Inv, Owner

(* A block goes on the stack, but not while the parser runs.               *)
LEMMA Pushed ==
    ASSUME Inv, ~Atop("data"), NEW f \in CallFrames, f.kind = "block",
           stack' = Append(stack, f), io'.closed = io.closed, res' = res,
           (f.fin /\ io'.corked = f.s) \/ (~f.fin /\ io'.corked = io.corked)
    PROVE  Stacked
  <1>1. stack \in Seq(Frames) /\ Len(stack) \in Nat /\ Shape /\ Owner
    BY DEF Inv, Types
  <1>2. /\ stack' \in Seq(Frames) /\ Len(stack') = Len(stack) + 1
        /\ \A i \in 1..Len(stack) : stack'[i] = stack[i]
        /\ stack'[Len(stack) + 1] = f
    BY <1>1 DEF Frames
  <1>3. Shape'
    <2>1. ASSUME NEW i \in 1..Len(stack')
          PROVE  /\ stack'[i].kind \in {"data", "writable"} => i = 1
                 /\ stack'[i].kind \in {"handler", "stream"} =>
                      i = 2 /\ stack'[1].kind = "data" /\ stack'[1].s = stack'[2].s
      <3>1. CASE i \in 1..Len(stack)
        BY <1>1, <1>2, <3>1 DEF Shape
      <3>2. CASE i = Len(stack) + 1
        BY <1>2, <3>2
      <3> QED
        BY <1>1, <1>2, <3>1, <3>2
    <2>2. ASSUME Len(stack') > 1, stack'[1].kind = "data"
          PROVE  stack'[2].kind \in {"handler", "stream"} /\ ~stack'[1].first
      <3>1. Len(stack) > 0 /\ stack'[1] = stack[1]
        BY <1>1, <1>2, <2>2
      <3>2. Len(stack) # 1
        <4>1. Len(stack) = 1 => Atop("data")
          BY <2>2, <3>1, EmptySeq DEF Atop
        <4> QED
          BY <4>1
      <3>3. 2 \in 1..Len(stack) /\ Len(stack) > 1
        <4> DEFINE n == Len(stack)
        <4>1. n \in Nat /\ n > 0 /\ n # 1
          BY <1>1, <3>1, <3>2
        <4> HIDE DEF n
        <4>2. 2 \in 1..n /\ n > 1
          BY <4>1
        <4> QED
          BY <4>2 DEF n
      <3>4. stack'[2] = stack[2]
        BY <1>2, <3>3
      <3> QED
        BY <1>1, <2>2, <3>1, <3>3, <3>4 DEF Shape
    <2>3. ASSUME Len(stack') > 0, stack'[1].kind = "data"
          PROVE  /\ stack'[1].at = "stop" => stack'[1].s \in io'.closed
                 /\ stack'[1].at = "owed" => res'[stack'[1].s].body = "length"
      <3>1. Len(stack) > 0 /\ stack'[1] = stack[1]
        BY <1>1, <1>2, <2>3
      <3> QED
        BY <1>1, <2>3, <3>1 DEF Shape
    <2> QED
      BY <2>1, <2>2, <2>3 DEF Shape
  <1>4. Owner'
    <2>1. CASE f.fin /\ io'.corked = f.s
      <3>1. Len(stack) + 1 \in 1..Len(stack')
        BY <1>1, <1>2
      <3> QED
        BY <1>1, <1>2, <2>1, <3>1 DEF Owner, Uncorks
    <2>2. CASE ~f.fin /\ io'.corked = io.corked
      <3> SUFFICES ASSUME io.corked # Nil
                   PROVE  \E i \in 1..Len(stack') :
                            /\ Uncorks(stack'[i]) /\ stack'[i].s = io'.corked
                            /\ \A j \in i + 1..Len(stack') : ~Uncorks(stack'[j])
        BY <2>2 DEF Owner
      <3>1. PICK i \in 1..Len(stack) :
              /\ Uncorks(stack[i]) /\ stack[i].s = io.corked
              /\ \A j \in i + 1..Len(stack) : ~Uncorks(stack[j])
        BY <1>1 DEF Owner
      <3>2. ~Uncorks(f)
        BY <2>2 DEF Uncorks
      <3>3. \A j \in i + 1..Len(stack') : ~Uncorks(stack'[j])
        <4> SUFFICES ASSUME NEW j \in i + 1..Len(stack')
                     PROVE  ~Uncorks(stack'[j])
          OBVIOUS
        <4>1. j \in i + 1..Len(stack) \/ j = Len(stack) + 1
          BY <1>1, <1>2
        <4>2. i \in Nat /\ (j \in i + 1..Len(stack) => j \in 1..Len(stack))
          BY <1>1
        <4> QED
          BY <1>2, <3>1, <3>2, <4>1, <4>2
      <3>4. i \in 1..Len(stack') /\ stack'[i] = stack[i]
        BY <1>1, <1>2
      <3>5. Uncorks(stack'[i]) /\ stack'[i].s = io'.corked
        BY <2>2, <3>1, <3>4
      <3> QED
        BY <3>3, <3>4, <3>5
    <2> QED
      BY <2>1, <2>2
  <1> QED
    BY <1>2, <1>3, <1>4 DEF Stacked

(* A block or a writable handler comes back, and releases the cork if it   *)
(* has taken it.                                                           *)
LEMMA Popped ==
    ASSUME Inv, Atop("block") \/ Atop("writable"), stack' = Pop,
           io.closed \subseteq io'.closed, io'.corked \in {io.corked, Nil},
           Top.kind = "block" /\ Top.fin => io'.corked = Nil,
           \A t \in Sockets : res'[t].body = res[t].body
    PROVE  Stacked
  <1>1. /\ stack \in Seq(Frames) /\ Len(stack) \in Nat \ {0} /\ Shape /\ Owner
        /\ Top = stack[Len(stack)] /\ Top.kind \in {"block", "writable"}
    BY EmptySeq DEF Inv, Types, Atop, Top
  <1>2. /\ stack' \in Seq(Frames) /\ Len(stack') = Len(stack) - 1
        /\ \A i \in 1..(Len(stack) - 1) : stack'[i] = stack[i]
    <2> DEFINE n == Len(stack) - 1
    <2>1. stack \in Seq(Frames) /\ n \in 0..Len(stack) /\ stack' = SubSeq(stack, 1, n)
      BY <1>1 DEF Pop
    <2> HIDE DEF n
    <2>2. stack' \in Seq(Frames) /\ Len(stack') = n
      BY <2>1, Cut
    <2>3. \A i \in 1..n : stack'[i] = stack[i]
      BY <2>1
    <2> QED
      BY <2>2, <2>3 DEF n
  <1>3. Len(stack) > 0 /\ stack[1].kind = "data" => stack[1].s \in Sockets
    <2>1. Len(stack) > 0 => stack[1] \in Frames
      BY <1>1
    <2> QED
      BY <2>1 DEF Frames, DataFrames, StreamFrames, CallFrames
  <1>4. Shape'
    <2>1. ASSUME NEW i \in 1..Len(stack')
          PROVE  /\ stack'[i].kind \in {"data", "writable"} => i = 1
                 /\ stack'[i].kind \in {"handler", "stream"} =>
                      i = 2 /\ stack'[1].kind = "data" /\ stack'[1].s = stack'[2].s
      <3>1. i \in 1..Len(stack) /\ stack'[i] = stack[i] /\ stack'[1] = stack[1]
        BY <1>1, <1>2
      <3>2. i = 2 => stack'[2] = stack[2]
        BY <3>1
      <3> QED
        BY <1>1, <3>1, <3>2 DEF Shape
    <2>2. ASSUME Len(stack') > 1, stack'[1].kind = "data"
          PROVE  stack'[2].kind \in {"handler", "stream"} /\ ~stack'[1].first
      <3>1. Len(stack) > 1 /\ stack'[1] = stack[1] /\ stack'[2] = stack[2]
        BY <1>1, <1>2, <2>2
      <3> QED
        BY <1>1, <2>2, <3>1 DEF Shape
    <2>3. ASSUME Len(stack') > 0, stack'[1].kind = "data"
          PROVE  /\ stack'[1].at = "stop" => stack'[1].s \in io'.closed
                 /\ stack'[1].at = "owed" => res'[stack'[1].s].body = "length"
      <3>1. Len(stack) > 0 /\ stack'[1] = stack[1]
        BY <1>1, <1>2, <2>3
      <3> QED
        BY <1>1, <1>3, <2>3, <3>1 DEF Shape
    <2> QED
      BY <2>1, <2>2, <2>3 DEF Shape
  <1>5. Owner'
    <2> SUFFICES ASSUME io'.corked # Nil
                 PROVE  \E i \in 1..Len(stack') :
                          /\ Uncorks(stack'[i]) /\ stack'[i].s = io'.corked
                          /\ \A j \in i + 1..Len(stack') : ~Uncorks(stack'[j])
      BY DEF Owner
    <2>1. io'.corked = io.corked /\ ~Uncorks(Top)
      BY <1>1 DEF Uncorks
    <2>2. PICK i \in 1..Len(stack) :
            /\ Uncorks(stack[i]) /\ stack[i].s = io.corked
            /\ \A j \in i + 1..Len(stack) : ~Uncorks(stack[j])
      BY <1>1, <2>1 DEF Owner
    <2>3. i # Len(stack)
      BY <1>1, <2>1, <2>2
    <2>4. i \in 1..(Len(stack) - 1)
      BY <1>1, <2>3
    <2>5. \A j \in i + 1..Len(stack') : j \in i + 1..Len(stack) /\ stack'[j] = stack[j]
      BY <1>1, <1>2, <2>4
    <2> QED
      BY <1>2, <2>1, <2>2, <2>4, <2>5
  <1> QED
    BY <1>2, <1>4, <1>5 DEF Stacked

(* A step about s: src is made, and of the rest of the state only what is  *)
(* about s changes.                                                        *)
About(s, src) ==
    /\ Effect(s, src)
    /\ src = <<>> \/ (s \notin io.closed /\ Len(made[s]) + Len(src) <= MaxTokens)
    /\ made' = [made EXCEPT ![s] = @ \o src]
    /\ \E c \in Conns : res' = [res EXCEPT ![s] = c]
    /\ \E q \in Nat : request' = [request EXCEPT ![s] = q]
    /\ \E d \in SUBSET Nat : done' = [done EXCEPT ![s] = d]
    /\ \E a \in SUBSET Nat : aborted' = [aborted EXCEPT ![s] = a]
    /\ goodbye \subseteq goodbye' /\ goodbye' \subseteq goodbye \cup {s}

Keeps(s) == s \in Sockets /\ Inv' /\ \E src \in Seq(Tokens) : About(s, src)

(* A connection whose last response is complete has something buffered or  *)
(* is corked, unless it is closed.                                         *)
Waits(s) ==
    s \notin io'.closed /\ res'[s].close /\ ~res'[s].pending =>
        io'.raw[s] # <<>> \/ io'.corked = s

(* A step about s keeps the invariant if it keeps the stack and the        *)
(* outcomes of s.                                                          *)
LEMMA AboutKeeps ==
    ASSUME Inv, NEW s \in Sockets, NEW src \in Seq(Tokens), About(s, src), Stacked,
           Sound(res'[s], request'[s], done'[s], aborted'[s], s \in io'.closed)
    PROVE  Keeps(s)
  <1>1. Types /\ Outcome
    BY DEF Inv
  <1>2. Aside(io, io', s)
    BY DEF About, Effect
  <1>3. made' \in [Sockets -> Seq(Tokens)]
    <2>1. made[s] \o src \in Seq(Tokens)
      BY <1>1, ConcatProperties DEF Types
    <2> QED
      BY <1>1, <2>1 DEF Types, About
  <1>4. IOInv(io', Tokens)
    BY <1>2 DEF Aside
  <1>5. Types'
    BY <1>1, <1>3, <1>4 DEF Types, About, Stacked
  <1>6. Outcome'
    <2> SUFFICES ASSUME NEW t \in Sockets
                 PROVE  Sound(res'[t], request'[t], done'[t], aborted'[t], t \in io'.closed)
      BY DEF Outcome
    <2>1. CASE t = s
      BY <2>1
    <2>2. CASE t # s
      <3>1. /\ res'[t] = res[t] /\ request'[t] = request[t] /\ done'[t] = done[t]
            /\ aborted'[t] = aborted[t]
        BY <1>1, <2>2 DEF Types, About
      <3>2. t \in io'.closed <=> t \in io.closed
        BY <1>2, <2>2 DEF Aside
      <3>3. Sound(res[t], request[t], done[t], aborted[t], t \in io.closed)
        BY <1>1 DEF Outcome
      <3> QED
        BY <3>1, <3>2, <3>3 DEF Sound
    <2> QED
      BY <2>1, <2>2
  <1> QED
    BY <1>5, <1>6 DEF Keeps, Inv, Stacked

(* What stays as it is.                                                    *)
LEMMA Unchanged ==
    ASSUME Types, NEW s \in Sockets
    PROVE  /\ res[s] \in Conns /\ res = [res EXCEPT ![s] = res[s]]
           /\ request[s] \in Nat /\ request = [request EXCEPT ![s] = request[s]]
           /\ done[s] \in SUBSET Nat /\ done = [done EXCEPT ![s] = done[s]]
           /\ aborted[s] \in SUBSET Nat /\ aborted = [aborted EXCEPT ![s] = aborted[s]]
           /\ made[s] \in Seq(Tokens) /\ made = [made EXCEPT ![s] = @ \o <<>>]
           /\ <<>> \in Seq(Tokens)
  <1>1. made[s] \in Seq(Tokens) /\ made[s] \o <<>> = made[s] /\ <<>> \in Seq(Tokens)
    BY ConcatEmptySeq, EmptySeq DEF Types
  <1> QED
    BY <1>1 DEF Types

(* A step that makes no tokens, and ends no response.                      *)
LEMMA QuietAbout ==
    ASSUME Types, NEW s \in Sockets, Effect(s, <<>>),
           NEW c \in Conns, res' = [res EXCEPT ![s] = c],
           NEW q \in Nat, request' = [request EXCEPT ![s] = q],
           NEW a \in SUBSET Nat, aborted' = [aborted EXCEPT ![s] = a],
           UNCHANGED <<made, done, goodbye>>
    PROVE  About(s, <<>>)
  BY Unchanged DEF About

(* The same connection, as far as its outcome goes.                        *)
Alike(c, d) ==
    d.pending = c.pending /\ d.onAborted = c.onAborted /\ d.onWritable = c.onWritable

(* The most frequent step: it changes neither the request nor its outcome. *)
LEMMA QuietKeeps ==
    ASSUME Inv, NEW s \in Sockets, Effect(s, <<>>), Stacked,
           NEW c \in Conns, res' = [res EXCEPT ![s] = c], Alike(res[s], c),
           UNCHANGED <<request, made, done, aborted, goodbye>>,
           \/ io'.closed = io.closed
           \/ io'.closed = io.closed \cup {s} /\ ~res[s].pending
    PROVE  Keeps(s)
  <1>1. Types /\ Outcome
    BY DEF Inv
  <1>2. About(s, <<>>) /\ <<>> \in Seq(Tokens)
    BY <1>1, Unchanged, QuietAbout
  <1>3. Sound(res[s], request[s], done[s], aborted[s], s \in io.closed)
    BY <1>1 DEF Outcome
  <1>4. res'[s] = c
    BY <1>1 DEF Types
  <1>5. Sound(c, request[s], done[s], aborted[s], s \in io'.closed)
    <2>1. s \in io'.closed <=> s \in io.closed \/ io'.closed # io.closed
      OBVIOUS
    <2>2. io'.closed # io.closed => ~res[s].pending
      OBVIOUS
    <2> QED
      BY <1>3, <2>1, <2>2 DEF Sound, Alike
  <1> QED
    BY <1>2, <1>4, <1>5, AboutKeeps

(* What closing a connection does to its outcome.                          *)
LEMMA AbortedSound ==
    ASSUME Inv, NEW s \in Sockets,
           aborted' = IF s \notin io.closed /\ res[s].onAborted # 0
                      THEN [aborted EXCEPT ![s] = @ \cup {res[s].onAborted}]
                      ELSE aborted
    PROVE  /\ \E a \in SUBSET Nat : aborted' = [aborted EXCEPT ![s] = a]
           /\ \A c : c.onWritable = res[s].onWritable
                     /\ (Alike(res[s], c) \/ (~res[s].pending /\ c.onAborted = 0)) =>
                Sound(c, request[s], done[s], aborted'[s], TRUE)
  <1>1. Types /\ Outcome
    BY DEF Inv
  <1>2. Sound(res[s], request[s], done[s], aborted[s], s \in io.closed)
    BY <1>1 DEF Outcome
  <1>3. res[s].onAborted \in Nat
    BY <1>1, Unchanged DEF Conns
  <1> DEFINE a == IF s \notin io.closed /\ res[s].onAborted # 0
                  THEN aborted[s] \cup {res[s].onAborted} ELSE aborted[s]
  <1>4. a \in SUBSET Nat /\ aborted' = [aborted EXCEPT ![s] = a]
    BY <1>1, <1>3, Unchanged
  <1>5. aborted'[s] = a
    BY <1>1, <1>4 DEF Types
  <1>6. /\ a = aborted[s] \/ (a = aborted[s] \cup {res[s].onAborted}
                              /\ s \notin io.closed /\ res[s].onAborted # 0)
        /\ res[s].onAborted # 0 => res[s].onAborted \in a
    BY <1>2 DEF Sound
  <1> HIDE DEF a
  <1>7. ASSUME NEW c, c.onWritable = res[s].onWritable,
               Alike(res[s], c) \/ (~res[s].pending /\ c.onAborted = 0)
        PROVE  Sound(c, request[s], done[s], a, TRUE)
    BY <1>2, <1>6, <1>7 DEF Sound, Alike
  <1> QED
    BY <1>4, <1>5, <1>7

(* A connection is closed by a handler, with its outcome.                  *)
LEMMA CloseKeeps ==
    ASSUME Inv, NEW s \in Sockets, CloseSocket(s), Stacked,
           NEW c \in Conns, res' = [res EXCEPT ![s] = c],
           c.onWritable = res[s].onWritable,
           Alike(res[s], c) \/ (~res[s].pending /\ c.onAborted = 0),
           UNCHANGED <<request, made, done, goodbye>>
    PROVE  Keeps(s)
  <1>1. Types
    BY DEF Inv
  <1>2. Effect(s, <<>>) /\ io'.closed = io.closed \cup {s}
    BY <1>1, CloseEffect DEF CloseSocket, Types
  <1>3. PICK a \in SUBSET Nat : aborted' = [aborted EXCEPT ![s] = a]
    BY AbortedSound DEF CloseSocket
  <1>4. About(s, <<>>) /\ <<>> \in Seq(Tokens)
    BY <1>1, <1>2, <1>3, Unchanged, QuietAbout
  <1>5. res'[s] = c
    BY <1>1 DEF Types
  <1>6. Sound(c, request[s], done[s], aborted'[s], TRUE)
    BY AbortedSound DEF CloseSocket
  <1> QED
    BY <1>2, <1>4, <1>5, <1>6, AboutKeeps

-----------------------------------------------------------------------------
(* The handlers of HttpContext.                                            *)

(* The open handler.                                                       *)
LEMMA OnOpenKeeps ==
    ASSUME Inv, NEW s \in Sockets, OnOpen(s)
    PROVE  Keeps(s)
  <1> DEFINE c == [Fresh EXCEPT !.open = TRUE, !.timer = TRUE]
  <1>1. Types /\ Outcome /\ io.corked = Nil
    BY AtRest DEF Inv, OnOpen
  <1>2. c \in Conns /\ ~c.pending /\ c.onAborted = 0 /\ c.onWritable = 0
    BY DEF Fresh, Conns, BodyKinds
  <1>3. res' = [res EXCEPT ![s] = c]
    BY DEF OnOpen
  <1> HIDE DEF c
  <1>4. Effect(s, <<>>) /\ io' = io
    BY <1>1, NoEffect DEF OnOpen, Types
  <1>5. Stacked
    BY <1>1, <1>4, NoFrame DEF OnOpen
  <1>6. About(s, <<>>) /\ <<>> \in Seq(Tokens)
    BY <1>1, <1>2, <1>3, <1>4, Unchanged, QuietAbout DEF OnOpen
  <1>7. Sound(res[s], request[s], done[s], aborted[s], s \in io.closed)
    BY <1>1 DEF Outcome
  <1>8. Sound(c, request[s], done[s], aborted[s], s \in io.closed)
    BY <1>2, <1>7 DEF Sound
  <1>9. res'[s] = c
    BY <1>1, <1>3 DEF Types
  <1> QED
    BY <1>4, <1>5, <1>6, <1>8, <1>9, AboutKeeps DEF OnOpen

(* The data handler, up to the parser.                                     *)
LEMMA OnDataKeeps ==
    ASSUME Inv, NEW s \in Sockets, OnData(s)
    PROVE  Keeps(s)
  <1>1. Types /\ io.corked = Nil
    BY AtRest DEF Inv, OnData
  <1>2. /\ Effect(s, <<>>) /\ io'.corked = s /\ io'.closed = io.closed
    BY <1>1, CorkEffect DEF OnData, Types
  <1>3. /\ DataFrame(s) \in DataFrames /\ DataFrame(s).s = s
        /\ DataFrame(s).kind = "data" /\ DataFrame(s).at = "parse"
    BY DEF DataFrame, DataFrames
  <1>4. Stacked
    BY <1>2, <1>3, OneFrame DEF OnData
  <1>5. res[s] \in Conns /\ res' = [res EXCEPT ![s] = res[s]]
    BY <1>1, Unchanged DEF OnData
  <1> QED
    BY <1>2, <1>4, <1>5, QuietKeeps DEF OnData, Alike

(* The parser goes on, or stops for a connection that is closed.           *)
LEMMA GotoFrame ==
    ASSUME Inv, NEW s \in Sockets, NEW a \in {"parse", "out", "stop"},
           NEW now, Parsing(s, now), stack' = Goto(a),
           io'.corked = io.corked, a = "stop" => s \in io'.closed
    PROVE  Stacked
  <1> DEFINE f == [Top EXCEPT !.at = a, !.first = FALSE]
  <1>1. /\ Top \in DataFrames /\ Top.s = s /\ stack' = <<f>>
        /\ io.corked # Nil => io.corked = s
    BY InParser DEF Parsing
  <1>2. f \in DataFrames /\ f.s = s /\ f.kind = "data" /\ f.at = a
    BY <1>1 DEF DataFrames
  <1> HIDE DEF f
  <1> QED
    BY <1>1, <1>2, OneFrame

(* The request callback, a response pending.                               *)
LEMMA RequestRefusedKeeps ==
    ASSUME Inv, NEW s \in Sockets, RequestRefused(s)
    PROVE  Keeps(s)
  <1> DEFINE c == [res[s] EXCEPT !.timer = FALSE, !.offset = 0]
  <1>1. Types
    BY DEF Inv
  <1>2. res[s] \in Conns
    BY <1>1, Unchanged
  <1>3. c \in Conns /\ Alike(res[s], c)
    BY <1>2 DEF Conns, Alike
  <1>4. res' = [res EXCEPT ![s] = c]
    BY <1>1 DEF RequestRefused, Types
  <1> HIDE DEF c
  <1>5. io'.corked = io.corked /\ io'.closed = io.closed \cup {s}
    BY <1>1, CloseEffect DEF RequestRefused, CloseSocket, Types
  <1>6. Stacked
    BY <1>5, GotoFrame DEF RequestRefused, Arrives
  <1> QED
    BY <1>3, <1>4, <1>6, CloseKeeps DEF RequestRefused, Alike

(* What the request callback sets.                                         *)
LEMMA RequestedTypes ==
    ASSUME NEW c \in Conns, NEW close \in BOOLEAN, NEW body \in BodyKinds
    PROVE  LET d == Requested(c, close, body)
           IN  /\ d \in Conns /\ d.pending /\ d.onAborted = c.onAborted
               /\ d.onWritable = c.onWritable
  <1> DEFINE b == IF body = "zero" THEN "none" ELSE body
  <1>1. b \in BodyKinds
    BY DEF BodyKinds
  <1> HIDE DEF b
  <1>2. [c EXCEPT !.timer = FALSE, !.offset = 0, !.total = 0, !.pending = TRUE,
                  !.status = FALSE, !.chunked = FALSE, !.ended = FALSE,
                  !.close = close, !.body = b] \in Conns
    BY <1>1 DEF Conns
  <1>3. Requested(c, close, body) =
          [c EXCEPT !.timer = FALSE, !.offset = 0, !.total = 0, !.pending = TRUE,
                    !.status = FALSE, !.chunked = FALSE, !.ended = FALSE,
                    !.close = close, !.body = b]
    BY DEF Requested, b
  <1> QED
    BY <1>2, <1>3 DEF Conns

(* The request callback, no route matching.                                *)
LEMMA RequestUnroutedKeeps ==
    ASSUME Inv, NEW s \in Sockets, NEW close \in BOOLEAN, RequestUnrouted(s, close)
    PROVE  Keeps(s)
  <1> DEFINE c == Requested(res[s], close, "none")
  <1>1. Types /\ res[s] \in Conns /\ ~res[s].pending
    BY Unchanged DEF Inv, RequestUnrouted
  <1>2. /\ c \in Conns /\ c.onAborted = res[s].onAborted
        /\ c.onWritable = res[s].onWritable
    BY <1>1, RequestedTypes DEF BodyKinds
  <1>3. res' = [res EXCEPT ![s] = c]
    BY DEF RequestUnrouted
  <1>4. res[s].onAborted = 0
    BY <1>1 DEF Inv, Outcome, Sound
  <1> HIDE DEF c
  <1>5. io'.corked = io.corked /\ io'.closed = io.closed \cup {s}
    BY <1>1, CloseEffect DEF RequestUnrouted, CloseSocket, Types
  <1>6. Stacked
    BY <1>5, GotoFrame DEF RequestUnrouted, Arrives
  <1> QED
    BY <1>1, <1>2, <1>3, <1>4, <1>6, CloseKeeps DEF RequestUnrouted

(* The request callback, up to the application's handler.                  *)
LEMMA RequestKeeps ==
    ASSUME Inv, NEW s \in Sockets, NEW close \in BOOLEAN, NEW body \in BodyKinds,
           Request(s, close, body)
    PROVE  Keeps(s)
  <1> DEFINE c == Requested(res[s], close, body)
             f == [Top EXCEPT !.at = "parse", !.first = FALSE]
             h == HandlerFrame(s, body)
  <1>1. Types /\ Outcome /\ res[s] \in Conns /\ request[s] \in Nat /\ ~res[s].pending
    BY Unchanged DEF Inv, Request
  <1>2. /\ c \in Conns /\ c.pending /\ c.onAborted = res[s].onAborted
        /\ c.onWritable = res[s].onWritable
    BY <1>1, RequestedTypes
  <1>3. /\ res' = [res EXCEPT ![s] = c] /\ request' = [request EXCEPT ![s] = request[s] + 1]
        /\ stack' = Append(Goto("parse"), h) /\ UNCHANGED <<io, made, done, aborted, goodbye>>
    BY DEF Request
  <1> HIDE DEF c
  <1>4. Top \in DataFrames /\ Top.s = s /\ Goto("parse") = <<f>>
        /\ (io.corked # Nil => io.corked = s)
    BY InParser DEF Request, Arrives, Parsing
  <1>5. f \in DataFrames /\ f.s = s /\ ~f.first /\ f.at = "parse"
    BY <1>4 DEF DataFrames
  <1>6. h \in CallFrames /\ h.kind = "handler" /\ h.s = s
    BY <1>1 DEF HandlerFrame, CallFrames
  <1> HIDE DEF f, h
  <1>7. stack' = <<f, h>>
    <2>1. f \in Frames /\ h \in Frames
      BY <1>5, <1>6 DEF Frames
    <2> QED
      BY <1>3, <1>4, <2>1, Pair
  <1>8. Stacked
    BY <1>3, <1>4, <1>5, <1>6, <1>7, TwoFrames
  <1>9. Effect(s, <<>>) /\ io' = io
    BY <1>1, <1>3, NoEffect DEF Types
  <1>10. About(s, <<>>) /\ <<>> \in Seq(Tokens)
    <2>1. request[s] + 1 \in Nat
      BY <1>1
    <2>2. aborted[s] \in SUBSET Nat /\ aborted' = [aborted EXCEPT ![s] = aborted[s]]
          /\ <<>> \in Seq(Tokens)
      BY <1>1, <1>3, Unchanged
    <2> QED
      BY <1>1, <1>2, <1>3, <1>9, <2>1, <2>2, QuietAbout
  <1>11. res'[s] = c /\ request'[s] = request[s] + 1
    BY <1>1, <1>3 DEF Types
  <1>12. Sound(c, request[s] + 1, done[s], aborted[s], s \in io.closed)
    <2>1. Sound(res[s], request[s], done[s], aborted[s], s \in io.closed)
      BY <1>1 DEF Outcome
    <2>2. /\ done[s] \subseteq 0..(request[s] + 1) /\ request[s] + 1 \notin done[s]
      BY <1>1, <2>1 DEF Sound
    <2> QED
      BY <1>1, <1>2, <2>1, <2>2 DEF Sound
  <1> QED
    BY <1>3, <1>8, <1>9, <1>10, <1>11, <1>12, AboutKeeps

(* A callback of the parser comes back to it.                              *)
LEMMA CallbackReturns ==
    ASSUME Inv, Atop("handler") \/ Atop("stream"),
           NEW f \in DataFrames, f.s = Top.s, stack' = <<f>>,
           f.at = "stop" => Top.s \in io'.closed,
           f.at = "owed" => res'[Top.s].body = "length",
           io'.corked = io.corked
    PROVE  Stacked
  <1>1. io.corked # Nil => io.corked = Top.s
    BY InCallback
  <1>2. f.kind = "data"
    BY DEF DataFrames
  <1> QED
    BY <1>1, <1>2, OneFrame

(* The rest of the request callback.                                       *)
LEMMA HandlerReturnKeeps ==
    ASSUME Inv, HandlerReturn
    PROVE  Keeps(Top.s)
  <1> DEFINE s == Top.s
             next == IF s \in io.closed THEN "stop"
                     ELSE IF Top.fin THEN "empty"
                     ELSE IF res[s].body = "length" THEN "owed" ELSE "parse"
             f == [stack[1] EXCEPT !.at = next]
             c == [res[s] EXCEPT
                     !.timer = @ \/ (s \notin io.closed /\ res[s].pending
                                     /\ res[s].inStream # 0)]
  <1>1. /\ Atop("handler") /\ stack[1] \in DataFrames /\ stack[1].s = s
        /\ stack' = <<f>> /\ io' = io /\ UNCHANGED <<request, made, done, aborted, goodbye>>
    BY InCallback DEF HandlerReturn
  <1>2. s \in Sockets /\ Types
    BY <1>1 DEF DataFrames, Inv
  <1>3. res[s] \in Conns
    BY <1>2, Unchanged
  <1>4. c \in Conns /\ Alike(res[s], c) /\ c.body = res[s].body
    BY <1>3 DEF Conns, Alike
  <1>5. res' = [res EXCEPT ![s] = c]
    BY <1>2 DEF HandlerReturn, Types
  <1>6. res'[s] = c
    BY <1>2, <1>5 DEF Types
  <1>7. f \in DataFrames /\ f.s = s /\ f.at = next
    BY <1>1 DEF DataFrames
  <1> HIDE DEF f, c
  <1>8. Stacked
    BY <1>1, <1>4, <1>6, <1>7, CallbackReturns
  <1>9. Effect(s, <<>>)
    BY <1>1, <1>2, NoEffect DEF Types
  <1> QED
    BY <1>1, <1>2, <1>4, <1>5, <1>8, <1>9, QuietKeeps

(* The rest of the data callback.                                          *)
LEMMA StreamReturnKeeps ==
    ASSUME Inv, StreamReturn
    PROVE  Keeps(Top.s)
  <1> DEFINE s == Top.s
             stops == s \in io.closed /\ Top.heeded
             g == [stack[1] EXCEPT !.at = "stop"]
             f == IF stops THEN g ELSE stack[1]
             c == [res[s] EXCEPT
                     !.inStream = IF Top.fin /\ s \notin io.closed THEN 0 ELSE @]
  <1>1. /\ Atop("stream") /\ stack[1] \in DataFrames /\ stack[1].s = s
        /\ stack' = <<f>> /\ io' = io /\ UNCHANGED <<request, made, done, aborted, goodbye>>
        /\ stack[1].at = "owed" => res[s].body = "length"
        /\ stack[1].at = "stop" => s \in io.closed
    BY InCallback DEF StreamReturn
  <1>2. s \in Sockets /\ Types
    BY <1>1 DEF DataFrames, Inv
  <1>3. res[s] \in Conns
    BY <1>2, Unchanged
  <1>4. c \in Conns /\ Alike(res[s], c) /\ c.body = res[s].body
    BY <1>3 DEF Conns, Alike
  <1>5. res' = [res EXCEPT ![s] = c]
    BY <1>2 DEF StreamReturn, Types
  <1>6. res'[s] = c
    BY <1>2, <1>5 DEF Types
  <1>7. g \in DataFrames /\ g.s = s /\ g.at = "stop"
    BY <1>1 DEF DataFrames
  <1> HIDE DEF g, c
  <1>8. /\ f \in DataFrames /\ f.s = s
        /\ f.at = "stop" => s \in io.closed
        /\ f.at = "owed" => res[s].body = "length"
    BY <1>1, <1>7
  <1> HIDE DEF f
  <1>9. Stacked
    BY <1>1, <1>4, <1>6, <1>8, CallbackReturns
  <1>10. Effect(s, <<>>)
    BY <1>1, <1>2, NoEffect DEF Types
  <1> QED
    BY <1>1, <1>2, <1>4, <1>5, <1>9, <1>10, QuietKeeps

(* A piece of a body comes from the parser, which may go on.               *)
LEMMA PieceParsing ==
    ASSUME NEW s, NEW fin, NEW heeded, Piece(s, fin, heeded)
    PROVE  Parsing(s, "parse") \/ Parsing(s, "empty") \/ Parsing(s, "owed")
  BY DEF Piece

(* The data callback without a data handler.                               *)
LEMMA PieceIgnoredKeeps ==
    ASSUME Inv, NEW s \in Sockets, NEW fin \in BOOLEAN, PieceIgnored(s, fin)
    PROVE  Keeps(s)
  <1> DEFINE c == [res[s] EXCEPT !.body = IF fin THEN "none" ELSE @]
             at == AfterPiece(s, fin)
  <1>1. Types /\ res[s] \in Conns
    BY Unchanged DEF Inv
  <1>2. c \in Conns /\ Alike(res[s], c)
    BY <1>1 DEF Conns, Alike, BodyKinds
  <1>3. /\ res' = [res EXCEPT ![s] = c] /\ stack' = Goto(at)
        /\ UNCHANGED <<io, request, made, done, aborted, goodbye>>
    BY <1>1 DEF PieceIgnored, Types
  <1> HIDE DEF c
  <1>4. at \in {"out", "parse"}
    BY DEF AfterPiece
  <1>5. PICK now : Parsing(s, now)
    BY PieceParsing DEF PieceIgnored
  <1> HIDE DEF at
  <1>6. Stacked
    BY <1>3, <1>4, <1>5, GotoFrame
  <1>7. Effect(s, <<>>)
    BY <1>1, <1>3, NoEffect DEF Types
  <1> QED
    BY <1>2, <1>3, <1>6, <1>7, QuietKeeps

(* The data callback, up to the data handler.                              *)
LEMMA PieceReceivedKeeps ==
    ASSUME Inv, NEW s \in Sockets, NEW n \in 0..1, NEW fin \in BOOLEAN,
           NEW heeded \in BOOLEAN, PieceReceived(s, fin, n, heeded)
    PROVE  Keeps(s)
  <1> DEFINE enough == res[s].received + n >= Throughput
             received == IF fin THEN res[s].received
                         ELSE IF enough THEN 0 ELSE res[s].received + n
             c == [res[s] EXCEPT
                     !.timer = ~fin /\ (@ \/ enough), !.received = received,
                     !.body = IF fin THEN "none" ELSE @]
             at == AfterPiece(s, fin)
             f == [Top EXCEPT !.at = at, !.first = FALSE]
             h == [kind |-> "stream", s |-> s, r |-> res[s].inStream,
                   fin |-> fin, heeded |-> heeded]
  <1>1. Types /\ res[s] \in Conns
    BY Unchanged DEF Inv
  <1>2. received \in Nat /\ enough \in BOOLEAN
    BY <1>1, HttpAssumption DEF Conns
  <1>3. /\ res' = [res EXCEPT ![s] = c] /\ stack' = Append(Goto(at), h)
        /\ UNCHANGED <<io, request, made, done, aborted, goodbye>>
    BY <1>1 DEF PieceReceived, Types
  <1> HIDE DEF enough, received
  <1>4. c \in Conns /\ Alike(res[s], c)
    BY <1>1, <1>2 DEF Conns, Alike, BodyKinds
  <1> HIDE DEF c
  <1>5. at \in {"out", "parse"}
    BY DEF AfterPiece
  <1>6. PICK now : Parsing(s, now)
    BY PieceParsing DEF PieceReceived
  <1> HIDE DEF at
  <1>7. Top \in DataFrames /\ Top.s = s /\ Goto(at) = <<f>>
        /\ (io.corked # Nil => io.corked = s)
    BY <1>6, InParser DEF Parsing
  <1>8. f \in DataFrames /\ f.s = s /\ ~f.first /\ f.at = at
    BY <1>5, <1>7 DEF DataFrames
  <1>9. h \in StreamFrames /\ h.kind = "stream" /\ h.s = s
    BY <1>1 DEF StreamFrames, Conns
  <1> HIDE DEF f, h
  <1>10. stack' = <<f, h>>
    <2>1. f \in Frames /\ h \in Frames
      BY <1>8, <1>9 DEF Frames
    <2> QED
      BY <1>3, <1>7, <2>1, Pair
  <1>11. Stacked
    BY <1>3, <1>5, <1>7, <1>8, <1>9, <1>10, TwoFrames
  <1>12. Effect(s, <<>>)
    BY <1>1, <1>3, NoEffect DEF Types
  <1> QED
    BY <1>3, <1>4, <1>11, <1>12, QuietKeeps

(* An error response past everything else, then FIN and close.             *)
LEMMA MalformedEffect ==
    ASSUME Types, NEW s \in Sockets, NEW room \in Nat, Malformed(s, room)
    PROVE  Effect(s, <<>>) /\ io'.corked = io.corked /\ io'.closed = io.closed \cup {s}
  <1> DEFINE error == [r |-> request[s] + 1, k |-> "error", i |-> 0]
             n == Takes(io, s, room, 1)
             bytes == SubSeq(<<error>>, 1, n)
             o == KernelWrite(io, s, bytes)
             p == Shutdown(o, s)
  <1>1. IOInv(io, Tokens) /\ IOType(io, Tokens) /\ request[s] \in Nat
    BY DEF Types, IOInv, IOSafe
  <1>2. <<error>> \in Seq(Tokens) /\ Len(<<error>>) = 1
    BY <1>1 DEF Tokens
  <1>3. n \in 0..1 /\ (s \in io.closed => n = 0)
    BY DEF Takes, Least
  <1> HIDE DEF error, n
  <1>4. bytes \in Seq(Tokens) /\ (s \in io.closed => bytes = <<>>)
    <2>1. bytes \in Seq(Tokens) /\ Len(bytes) = n
      BY <1>2, <1>3, Cut
    <2> QED
      BY <1>3, <2>1, EmptySeq
  <1> HIDE DEF bytes
  <1>5. io.sent[s] \in Seq(Tokens) /\ io.sent[s] \o bytes \in Seq(Tokens)
        /\ io.sent[s] \o <<>> = io.sent[s]
    BY <1>1, <1>4, Components, ConcatProperties, ConcatEmptySeq DEF IOInv, IOSafe
  <1>6. /\ IOType(o, Tokens) /\ o.corked = io.corked /\ o.cork = io.cork
        /\ o.raw = io.raw /\ o.removed = io.removed
        /\ o.fin = io.fin /\ o.closed = io.closed
        /\ o.sent = [io.sent EXCEPT ![s] = @ \o bytes]
    BY <1>1, <1>5 DEF KernelWrite, IOType
  <1>7. o.sent[s] = io.sent[s] \o bytes /\ \A t \in Sockets \ {s} : o.sent[t] = io.sent[t]
    BY <1>1, <1>6 DEF IOType
  <1>8. io' = ClosedIO(p, s) /\ "malformed" \in Usage
    BY DEF Malformed, o, bytes, n, error
  <1> HIDE DEF o
  <1>9. IOInv(o, Tokens)
    BY <1>1, <1>6 DEF IOInv, IOSafe, Exact, CorkOwned
  <1>10. /\ IOInv(p, Tokens)
         /\ p.raw = o.raw /\ p.removed = o.removed /\ p.sent = o.sent
         /\ p.corked = o.corked /\ p.cork = o.cork /\ p.closed = o.closed
         /\ p.fin = IF s \in o.closed THEN o.fin ELSE o.fin \cup {s}
    BY <1>9, ShutdownKeeps
  <1> HIDE DEF p
  <1>11. Closes(p, io', s) /\ io'.fin = p.fin
    BY <1>8, <1>10, ClosedKeeps
  <1>12. Aside(io, p, s)
    BY <1>6, <1>7, <1>10 DEF Aside
  <1>13. Aside(io, io', s)
    BY <1>11, <1>12, ClosesAside
  <1>14. /\ io'.corked = io.corked /\ io'.closed = io.closed \cup {s}
         /\ io'.sent[s] = io.sent[s] \o bytes /\ io'.fin \subseteq io.fin \cup {s}
         /\ s \in io.closed => io'.fin = io.fin
    BY <1>6, <1>7, <1>10, <1>11 DEF Closes
  <1> QED
    BY <1>4, <1>5, <1>8, <1>13, <1>14 DEF Effect

(* The error response to what the parser refuses.                          *)
LEMMA MalformedKeeps ==
    ASSUME Inv, NEW s \in Sockets, NEW room \in Rooms, Malformed(s, room)
    PROVE  Keeps(s)
  <1>1. Types /\ room \in Nat
    BY HttpAssumption DEF Inv
  <1>2. Effect(s, <<>>) /\ io'.corked = io.corked /\ io'.closed = io.closed \cup {s}
    BY <1>1, MalformedEffect
  <1>3. /\ Parsing(s, "parse") /\ stack' = Goto("stop")
        /\ UNCHANGED <<res, request, made, done, goodbye>>
        /\ aborted' = IF s \notin io.closed /\ res[s].onAborted # 0
                      THEN [aborted EXCEPT ![s] = @ \cup {res[s].onAborted}]
                      ELSE aborted
    BY DEF Malformed
  <1>4. Stacked
    BY <1>2, <1>3, GotoFrame
  <1>5. PICK a \in SUBSET Nat : aborted' = [aborted EXCEPT ![s] = a]
    BY <1>3, AbortedSound
  <1>6. About(s, <<>>) /\ <<>> \in Seq(Tokens)
    BY <1>1, <1>2, <1>3, <1>5, Unchanged, QuietAbout
  <1>7. Sound(res[s], request[s], done[s], aborted'[s], TRUE)
    BY <1>3, AbortedSound DEF Alike
  <1> QED
    BY <1>2, <1>3, <1>4, <1>6, <1>7, AboutKeeps

(* The rest of the data handler: uncork, close after a last response.      *)
LEMMA DataReturnKeeps ==
    ASSUME Inv, NEW room \in Rooms, DataReturn(room)
    PROVE  Keeps(Top.s) /\ Waits(Top.s)
  <1> DEFINE s == Top.s
             r == Uncork(io, s, <<>>, room, FALSE)
             c == [res[s] EXCEPT !.timer = @ \/ r.failed]
  <1>1. Types /\ room \in Nat /\ Atop("data") /\ stack' = <<>>
        /\ UNCHANGED <<request, made, done, aborted, goodbye>>
    BY HttpAssumption DEF Inv, DataReturn
  <1>2. /\ s \in Sockets /\ (io.corked # Nil => io.corked = s)
        /\ Top.at = "stop" => s \in io.closed
    BY <1>1, InParser DEF DataFrames
  <1>3. IOInv(io, Tokens) /\ res[s] \in Conns
    BY <1>1, <1>2, Unchanged DEF Types
  <1>4. Freed(io, s, r)
    BY <1>1, <1>2, <1>3, FreedKeeps
  <1>5. Last(r.io, res[s], s, CloseIfLast(r.io, res[s], s))
    BY <1>2, <1>4, LastKeeps DEF Freed, Call
  <1>6. c \in Conns /\ Alike(res[s], c)
    BY <1>3 DEF Conns, Alike
  <1>7. \/ io' = r.io /\ res' = [res EXCEPT ![s] = res[s]] /\ s \in io.closed
        \/ Last(r.io, res[s], s, io') /\ res' = [res EXCEPT ![s] = c]
    <2>1. [res EXCEPT ![s].timer = @ \/ r.failed] = [res EXCEPT ![s] = c]
      BY <1>1, <1>2 DEF Types
    <2>2. res = [res EXCEPT ![s] = res[s]]
      BY <1>1, <1>2, Unchanged
    <2> HIDE DEF c
    <2> QED
      BY <1>2, <1>5, <2>1, <2>2 DEF DataReturn
  <1>12. c.close = res[s].close
    BY <1>3 DEF Conns
  <1> HIDE DEF r, c
  <1>8. /\ Effect(s, <<>>) /\ io'.corked \in {io.corked, Nil} /\ io'.corked # s
        /\ \/ io'.closed = io.closed
           \/ io'.closed = io.closed \cup {s} /\ ~res[s].pending
    BY <1>2, <1>3, <1>4, <1>7, FreedEffect
  <1>9. Stacked
    BY <1>1, <1>2, <1>8, NoFrame
  <1>10. Alike(res[s], res[s])
    BY DEF Alike
  <1>11. Waits(s)
    <2>1. res'[s].close = res[s].close /\ res'[s].pending = res[s].pending
      BY <1>1, <1>2, <1>6, <1>7, <1>12 DEF Types, Alike
    <2>2. Last(r.io, res[s], s, io') =>
            (s \notin io'.closed /\ res[s].close /\ ~res[s].pending => io'.raw[s] # <<>>)
      BY <1>2, <1>3, <1>4, <1>7, FreedEffect
    <2> QED
      BY <1>7, <1>8, <2>1, <2>2 DEF Waits
  <1> QED
    BY <1>1, <1>2, <1>3, <1>6, <1>7, <1>8, <1>9, <1>10, <1>11, QuietKeeps

(* The writable handler, up to that of the application.                    *)
LEMMA OnWritableKeeps ==
    ASSUME Inv, NEW s \in Sockets, OnWritable(s)
    PROVE  Keeps(s)
  <1> DEFINE c == [res[s] EXCEPT !.timer = FALSE]
             f == [kind |-> "writable", s |-> s, r |-> res[s].onWritable, fin |-> FALSE]
  <1>1. Types /\ io.corked = Nil /\ res[s] \in Conns
    BY AtRest, Unchanged DEF Inv, OnWritable
  <1>2. c \in Conns /\ Alike(res[s], c)
    BY <1>1 DEF Conns, Alike
  <1>3. /\ res' = [res EXCEPT ![s] = c]
        /\ UNCHANGED <<io, request, made, done, aborted, goodbye>>
    BY <1>1 DEF OnWritable, Types
  <1> HIDE DEF c
  <1>4. f \in CallFrames /\ f.kind = "writable"
    BY <1>1 DEF CallFrames, Conns
  <1>5. stack' = <<f>>
    BY DEF OnWritable, Push
  <1> HIDE DEF f
  <1>6. Stacked
    BY <1>1, <1>3, <1>4, <1>5, OneFrame
  <1>7. Effect(s, <<>>)
    BY <1>1, <1>3, NoEffect DEF Types
  <1> QED
    BY <1>2, <1>3, <1>6, <1>7, QuietKeeps

(* The rest of the writable handler.                                       *)
LEMMA WritableReturnKeeps ==
    ASSUME Inv, WritableReturn
    PROVE  Keeps(Top.s)
  <1>1. Atop("writable") /\ stack' = Pop
        /\ UNCHANGED <<io, res, request, made, done, aborted, goodbye>>
    BY DEF WritableReturn
  <1>2. Types
    BY DEF Inv
  <1>3. Top \in Frames /\ Top.kind # "block" /\ Top.s \in Sockets
    <2>1. stack \in Seq(Frames) /\ Len(stack) \in 1..Len(stack)
      BY <1>1, <1>2, EmptySeq DEF Types, Atop
    <2>2. Top \in Frames
      BY <2>1 DEF Top
    <2> QED
      BY <1>1, <2>2 DEF Atop, Top, Frames, DataFrames, StreamFrames, CallFrames
  <1>4. Stacked
    BY <1>1, <1>3, Popped
  <1>5. Effect(Top.s, <<>>) /\ res[Top.s] \in Conns
        /\ res' = [res EXCEPT ![Top.s] = res[Top.s]]
    BY <1>1, <1>2, <1>3, NoEffect, Unchanged DEF Types
  <1> QED
    BY <1>1, <1>3, <1>4, <1>5, QuietKeeps DEF Alike

(* The writable handler without one of the application.                    *)
LEMMA OnWritableDrainKeeps ==
    ASSUME Inv, NEW s \in Sockets, NEW room \in Rooms, OnWritableDrain(s, room)
    PROVE  Keeps(s) /\ Waits(s)
  <1> DEFINE r == Write(io, s, <<>>, room, TRUE)
             c == [res[s] EXCEPT !.timer = TRUE]
  <1>1. /\ Types /\ room \in Nat /\ io.corked = Nil /\ s \notin io.closed
        /\ stack = <<>> /\ UNCHANGED <<stack, request, made, done, aborted, goodbye>>
        /\ io' = CloseIfLast(r.io, res[s], s)
    BY AtRest, HttpAssumption DEF Inv, OnWritableDrain, Connected
  <1>2. IOInv(io, Tokens) /\ res[s] \in Conns
    BY <1>1, Unchanged DEF Types
  <1>3. Freed(io, s, r)
    BY <1>1, <1>2, SocketAssumption, DrainFrees
  <1>4. c \in Conns /\ Alike(res[s], c) /\ c.close = res[s].close
    BY <1>2 DEF Conns, Alike
  <1>5. res' = [res EXCEPT ![s] = c]
    BY <1>1 DEF OnWritableDrain, Types
  <1> HIDE DEF r, c
  <1>6. Last(r.io, res[s], s, io')
    BY <1>1, <1>3, LastKeeps DEF Freed, Call
  <1>7. /\ Effect(s, <<>>) /\ io'.corked \in {io.corked, Nil}
        /\ \/ io'.closed = io.closed
           \/ io'.closed = io.closed \cup {s} /\ ~res[s].pending
        /\ s \notin io'.closed /\ res[s].close /\ ~res[s].pending => io'.raw[s] # <<>>
    BY <1>2, <1>3, <1>6, FreedEffect
  <1>8. Stacked
    BY <1>1, <1>7, NoFrame
  <1>9. Waits(s)
    <2>1. res'[s].close = res[s].close /\ res'[s].pending = res[s].pending
      BY <1>1, <1>4, <1>5 DEF Types, Alike
    <2> QED
      BY <1>7, <2>1 DEF Waits
  <1> QED
    BY <1>1, <1>4, <1>5, <1>7, <1>8, <1>9, QuietKeeps

(* A connection is closed and the handlers' stack stays as it is.          *)
LEMMA CloseSocketKeeps ==
    ASSUME Inv, NEW s \in Sockets, CloseSocket(s),
           UNCHANGED <<res, stack, request, made, done, goodbye>>
    PROVE  Keeps(s)
  <1>1. Types
    BY DEF Inv
  <1>2. io'.corked = io.corked /\ io'.closed = io.closed \cup {s}
    BY <1>1, CloseEffect DEF CloseSocket, Types
  <1>3. Stacked
    BY <1>2, StackStays
  <1>4. res[s] \in Conns /\ res' = [res EXCEPT ![s] = res[s]]
    BY <1>1, Unchanged
  <1> QED
    BY <1>3, <1>4, CloseKeeps DEF Alike

-----------------------------------------------------------------------------
(* The calls of the application.                                           *)

(* A write whose tokens are all made: it keeps what the connection is.     *)
LEMMA WriteKeepsAll ==
    ASSUME Inv, NEW s \in Sockets, NEW tokens \in Seq(Tokens), Makes(s, tokens),
           Call(io, io', s),
           Fits(io, s, tokens) =>
             Stream(io', s) = Stream(io, s) \o tokens,
           s \notin io.closed, stack' = stack,
           NEW c \in Conns, res' = [res EXCEPT ![s] = c], Alike(res[s], c),
           c.body = res[s].body, UNCHANGED <<request, done, aborted, goodbye>>
    PROVE  Keeps(s) /\ io'.closed = io.closed
  <1>1. Types /\ Outcome
    BY DEF Inv
  <1>2. Effect(s, tokens) /\ io'.closed = io.closed /\ io'.corked \in {io.corked, Nil}
    BY CallEffect
  <1>3. \A t \in Sockets : res'[t].body = res[t].body
    BY <1>1 DEF Types
  <1>4. Stacked
    BY <1>2, <1>3, StackStays
  <1>5. About(s, tokens)
    BY <1>1, <1>2, Unchanged DEF About, Makes
  <1>6. Sound(res[s], request[s], done[s], aborted[s], s \in io.closed) /\ res'[s] = c
    BY <1>1 DEF Outcome, Types
  <1>7. Sound(c, request[s], done[s], aborted[s], s \in io.closed)
    BY <1>6 DEF Sound, Alike
  <1> QED
    BY <1>2, <1>4, <1>5, <1>6, <1>7, AboutKeeps

(* writeStatus() and writeHeader().                                        *)
LEMMA WriteHeaderKeeps ==
    ASSUME Inv, NEW s \in Sockets, NEW room \in Rooms, WriteHeader(s, room)
    PROVE  Keeps(s) /\ io'.closed = io.closed
  <1> DEFINE head == Status(s) \o <<Token(s, "header", 0)>>
             w == WriteSome(io, s, head, room, FALSE)
             c == [res[s] EXCEPT !.status = TRUE]
  <1>1. /\ Types /\ room \in Nat /\ s \notin io.closed /\ Makes(s, head) /\ io' = w.io
        /\ UNCHANGED <<stack, request, done, aborted, goodbye>>
    BY HttpAssumption DEF Inv, WriteHeader, Usable, Connected
  <1>2. IOInv(io, Tokens) /\ res[s] \in Conns
    BY <1>1, Unchanged DEF Types
  <1>3. head \in Seq(Tokens)
    <2>1. <<Token(s, "header", 0)>> \in Seq(Tokens) /\ Status(s) \in Seq(Tokens)
      BY <1>1, TokenTypes DEF Kinds
    <2> QED
      BY <2>1, ConcatProperties
  <1>4. c \in Conns /\ Alike(res[s], c) /\ c.body = res[s].body
    BY <1>2 DEF Conns, Alike
  <1>5. res' = [res EXCEPT ![s] = c]
    BY <1>1 DEF WriteHeader, Types
  <1> HIDE DEF head, c
  <1>6. Put(io, s, head, room, FALSE, w)
    BY <1>1, <1>2, <1>3, WriteSomeKeeps
  <1> HIDE DEF w
  <1>7. ASSUME Fits(io, s, head)
        PROVE  Stream(w.io, s) = Stream(io, s) \o head
    <2>1. w.written = Len(head) /\ SubSeq(head, 1, Len(head)) = head
      BY <1>3, <1>6, <1>7, Prefixes DEF Put
    <2> QED
      BY <1>1, <1>6, <2>1 DEF Put
  <1>8. Call(io, io', s)
    BY <1>1, <1>6 DEF Put
  <1> QED
    BY <1>1, <1>3, <1>4, <1>5, <1>7, <1>8, WriteKeepsAll

(* write() of a chunk.                                                     *)
LEMMA WriteChunkKeeps ==
    ASSUME Inv, NEW s \in Sockets, NEW room \in Rooms, WriteChunk(s, room)
    PROVE  Keeps(s) /\ io'.closed = io.closed
  <1> DEFINE head == Status(s) \o (IF res[s].chunked THEN <<>>
                                   ELSE <<Token(s, "chunked", 0)>>)
             chunk == <<Token(s, "chunk", 0)>>
             tokens == head \o chunk
             w == WriteBoth(s, head, chunk, room, FALSE)
             c == [res[s] EXCEPT !.status = TRUE, !.chunked = TRUE,
                                 !.timer = @ \/ w.failed]
  <1>1. /\ Types /\ room \in Nat /\ s \notin io.closed /\ Makes(s, tokens)
        /\ io' = w.io /\ UNCHANGED <<stack, request, done, aborted, goodbye>>
    BY HttpAssumption DEF Inv, WriteChunk, Usable, Connected
  <1>2. IOInv(io, Tokens) /\ res[s] \in Conns
    BY <1>1, Unchanged DEF Types
  <1>3. head \in Seq(Tokens) /\ chunk \in Seq(Tokens)
    <2>1. <<>> \in Seq(Tokens)
      BY EmptySeq
    <2>2. /\ <<Token(s, "chunk", 0)>> \in Seq(Tokens)
          /\ <<Token(s, "chunked", 0)>> \in Seq(Tokens)
          /\ Status(s) \in Seq(Tokens)
      BY <1>1, TokenTypes DEF Kinds
    <2> QED
      BY <2>1, <2>2, ConcatProperties
  <1>4. c \in Conns /\ Alike(res[s], c) /\ c.body = res[s].body
    BY <1>2 DEF Conns, Alike
  <1>5. res' = [res EXCEPT ![s] = c]
    BY <1>1 DEF WriteChunk, Types
  <1> HIDE DEF head, chunk, c
  <1>6. Both(s, head, chunk, FALSE, w)
    BY <1>1, <1>2, <1>3, WriteBothKeeps
  <1> HIDE DEF w
  <1>7. tokens \in Seq(Tokens) /\ Len(tokens) = Len(head) + Len(chunk)
    BY <1>3, ConcatProperties
  <1>8. ASSUME Fits(io, s, tokens)
        PROVE  Stream(w.io, s) = Stream(io, s) \o tokens
    <2>1. Len(head) \in Nat /\ Len(chunk) \in Nat
      BY <1>3, LenProperties
    <2>2. Fits(io, s, head)
      <3>1. Len(tokens) \in Nat /\ Len(head) \in 0..Len(tokens)
        BY <1>7, <2>1
      <3> HIDE DEF tokens
      <3> QED
        BY <1>2, <1>8, <3>1, FitsPart
    <2>3. SubSeq(chunk, 1, Len(chunk)) = chunk
      BY <1>3, Prefixes
    <2> QED
      BY <1>6, <1>8, <2>2, <2>3 DEF Both
  <1>9. Call(io, io', s)
    BY <1>1, <1>6 DEF Both
  <1> HIDE DEF tokens
  <1> QED
    BY <1>1, <1>4, <1>5, <1>7, <1>8, <1>9, WriteKeepsAll

(* A response goes on or is complete, and with it perhaps the connection.  *)
LEMMA ConcludeKeeps ==
    ASSUME Inv, NEW s \in Sockets, s \notin io.closed, res[s].pending,
           NEW n, NEW total, NEW close \in BOOLEAN, NEW e,
           Ended(s, n, total, close, e), Conclude(s, e)
    PROVE  Keeps(s) /\ Waits(s) /\ goodbye' \subseteq goodbye \cup {s}
  <1>1. Types /\ Outcome /\ e.res \in Conns /\ e.made \in Seq(Tokens)
    BY DEF Inv, Ended, Goes
  <1>2. Call(io, e.io, s)
    BY DEF Ended
  <1>3. /\ Effect(s, e.made) /\ io'.corked \in {io.corked, Nil}
        /\ \/ io'.closed = io.closed
           \/ io'.closed = io.closed \cup {s} /\ ~e.res.pending
        /\ s \notin io'.closed /\ e.res.close /\ ~e.res.pending =>
             io'.raw[s] # <<>> \/ io'.corked = s
    <2>1. CASE e.io.corked = s
      <3>1. io' = e.io
        BY <2>1 DEF Conclude, IsCorked
      <3> QED
        BY <1>2, <2>1, <3>1, CallEffect DEF Ended
    <2>2. CASE e.io.corked # s
      <3>1. io' = CloseIfLast(e.io, e.res, s)
        BY <2>2 DEF Conclude, IsCorked
      <3>2. Last(e.io, e.res, s, io')
        BY <1>2, <3>1, LastKeeps DEF Call
      <3> QED
        BY <1>2, <2>2, <3>2, LastEffect DEF Ended
    <2> QED
      BY <2>1, <2>2
  <1>4. /\ res' = [res EXCEPT ![s] = e.res] /\ UNCHANGED <<stack, request, aborted>>
        /\ done' = IF e.res.pending THEN done
                   ELSE [done EXCEPT ![s] = @ \cup {request[s]}]
        /\ goodbye \subseteq goodbye' /\ goodbye' \subseteq goodbye \cup {s}
        /\ Makes(s, e.made)
    BY DEF Conclude
  <1>5. \A t \in Sockets : res'[t].body = res[t].body
    BY <1>1, <1>4 DEF Types, Ended, Goes
  <1>6. Stacked
    BY <1>3, <1>4, <1>5, StackStays
  <1> DEFINE d == IF e.res.pending THEN done[s] ELSE done[s] \cup {request[s]}
  <1>7. d \in SUBSET Nat /\ done' = [done EXCEPT ![s] = d]
    BY <1>1, <1>4, Unchanged
  <1>8. res'[s] = e.res /\ done'[s] = d
    BY <1>1, <1>4, <1>7 DEF Types
  <1>9. About(s, e.made)
    BY <1>1, <1>3, <1>4, <1>7, Unchanged DEF About, Makes
  <1>10. Sound(e.res, request[s], d, aborted[s], s \in io'.closed)
    <2>1. Sound(res[s], request[s], done[s], aborted[s], s \in io.closed)
      BY <1>1 DEF Outcome
    <2>2. request[s] \in Nat /\ aborted[s] = {}
      BY <1>1, <2>1, Unchanged DEF Sound
    <2>3. CASE e.res.pending
      BY <1>3, <2>1, <2>2, <2>3 DEF Sound, Ended, Goes
    <2>4. CASE ~e.res.pending
      <3>1. e.res.onAborted = 0 /\ e.res.onWritable = 0
        BY <2>4 DEF Ended, Goes
      <3>2. d \subseteq 0..request[s]
        BY <2>1, <2>2, <2>4 DEF Sound
      <3> QED
        BY <2>2, <2>4, <3>1, <3>2 DEF Sound
    <2> QED
      BY <2>3, <2>4
  <1> HIDE DEF d
  <1>11. Waits(s)
    BY <1>3, <1>8 DEF Waits
  <1> QED
    BY <1>1, <1>4, <1>6, <1>8, <1>9, <1>10, <1>11, AboutKeeps

(* The end of a response is one of the two.                                *)
LEMMA InternalEndSteps ==
    ASSUME Types, NEW s \in Sockets, NEW n \in Nat, NEW total \in Nat,
           NEW optionally \in BOOLEAN, NEW close \in BOOLEAN, NEW room \in Nat,
           InternalEnd(s, n, total, optionally, close, room)
    PROVE  /\ ~Atop("data") /\ s \notin io.closed /\ res[s].open /\ res[s].pending
           /\ \E e : Ended(s, n, total, close, e) /\ Conclude(s, e)
  <1> DEFINE x == EndChunked(s, n, total, optionally, close, room)
             y == EndWithLength(s, n, total, optionally, close, room)
  <1>1. ~Atop("data") /\ s \notin io.closed /\ res[s].open /\ res[s].pending
    BY DEF InternalEnd, Usable, Connected
  <1>2. Ended(s, n, total, close, x) /\ Ended(s, n, total, close, y)
    BY <1>1, EndChunkedKeeps, EndWithLengthKeeps
  <1>3. Conclude(s, x) \/ Conclude(s, y)
    BY DEF InternalEnd
  <1> HIDE DEF x, y
  <1> QED
    BY <1>1, <1>2, <1>3

(* And so is that of each call of the application.                         *)
LEMMA EndSteps ==
    ASSUME Inv, NEW s \in Sockets, NEW n \in Bodies, NEW total \in Bodies,
           NEW close \in BOOLEAN, NEW room \in Rooms,
           \/ End(s, n, close, room) \/ EndWithoutBody(s, n, close, room)
           \/ TryEnd(s, n, total, close, room)
    PROVE  \E m, sum, e :
             /\ ~Atop("data") /\ s \notin io.closed /\ res[s].open /\ res[s].pending
             /\ Ended(s, m, sum, close, e) /\ Conclude(s, e)
  <1>1. Types /\ n \in Nat /\ total \in Nat /\ room \in Nat /\ 0 \in Nat
        /\ TRUE \in BOOLEAN /\ FALSE \in BOOLEAN
    BY HttpAssumption DEF Inv
  <1>2. \/ InternalEnd(s, n, n, FALSE, close, room)
        \/ InternalEnd(s, 0, n, FALSE, close, room)
        \/ InternalEnd(s, n, total, TRUE, close, room)
    BY DEF End, EndWithoutBody, TryEnd
  <1>3. ASSUME NEW m \in Nat, NEW sum \in Nat, NEW optionally \in BOOLEAN,
               InternalEnd(s, m, sum, optionally, close, room)
        PROVE  /\ ~Atop("data") /\ s \notin io.closed /\ res[s].open /\ res[s].pending
               /\ \E e : Ended(s, m, sum, close, e) /\ Conclude(s, e)
    <2>1. Types /\ room \in Nat
      BY <1>1
    <2> QED
      BY <1>3, <2>1, InternalEndSteps
  <1>4. CASE InternalEnd(s, n, n, FALSE, close, room)
    BY <1>1, <1>3, <1>4
  <1>5. CASE InternalEnd(s, 0, n, FALSE, close, room)
    BY <1>1, <1>3, <1>5
  <1>6. CASE InternalEnd(s, n, total, TRUE, close, room)
    BY <1>1, <1>3, <1>6
  <1> QED
    BY <1>2, <1>4, <1>5, <1>6

(* end(), endWithoutBody() and tryEnd().                                   *)
LEMMA EndsKeep ==
    ASSUME Inv, NEW s \in Sockets, NEW n \in Bodies, NEW total \in Bodies,
           NEW close \in BOOLEAN, NEW room \in Rooms,
           \/ End(s, n, close, room) \/ EndWithoutBody(s, n, close, room)
           \/ TryEnd(s, n, total, close, room)
    PROVE  Keeps(s) /\ Waits(s)
  BY EndSteps, ConcludeKeeps

(* A handler of the application is attached, for the request in progress.  *)
LEMMA AttachKeeps ==
    ASSUME Inv, NEW s \in Sockets, AttachAborted(s) \/ AttachWritable(s)
    PROVE  Keeps(s)
  <1> DEFINE a == [res[s] EXCEPT !.onAborted = request[s]]
             w == [res[s] EXCEPT !.onWritable = request[s]]
  <1>1. /\ Types /\ Outcome /\ s \notin io.closed /\ res[s].pending
        /\ UNCHANGED <<io, stack, request, made, done, aborted, goodbye>>
    BY DEF Inv, AttachAborted, AttachWritable, Usable, Connected
  <1>2. res[s] \in Conns /\ request[s] \in Nat
    BY <1>1, Unchanged
  <1>3. /\ a \in Conns /\ w \in Conns
        /\ a.pending = res[s].pending /\ w.pending = res[s].pending
        /\ a.body = res[s].body /\ w.body = res[s].body
        /\ a.onAborted = request[s] /\ a.onWritable = res[s].onWritable
        /\ w.onAborted = res[s].onAborted /\ w.onWritable = request[s]
    BY <1>2 DEF Conns
  <1>4. \E c \in {a, w} : res' = [res EXCEPT ![s] = c]
    BY <1>1 DEF AttachAborted, AttachWritable, Types
  <1> HIDE DEF a, w
  <1>5. PICK c \in {a, w} : res' = [res EXCEPT ![s] = c]
    BY <1>4
  <1>6. res'[s] = c /\ c \in Conns /\ \A t \in Sockets : res'[t].body = res[t].body
    BY <1>1, <1>3, <1>5 DEF Types
  <1>7. Stacked
    BY <1>1, <1>6, StackStays
  <1>8. Effect(s, <<>>)
    BY <1>1, NoEffect DEF Types
  <1>9. About(s, <<>>) /\ <<>> \in Seq(Tokens)
    BY <1>1, <1>5, <1>6, <1>8, Unchanged, QuietAbout
  <1>10. Sound(c, request[s], done[s], aborted[s], s \in io.closed)
    <2>1. Sound(res[s], request[s], done[s], aborted[s], s \in io.closed)
      BY <1>1 DEF Outcome
    <2> QED
      BY <1>1, <1>3, <1>5, <2>1 DEF Sound
  <1> QED
    BY <1>1, <1>6, <1>7, <1>9, <1>10, AboutKeeps

(* onData(), pause() and resume().                                         *)
LEMMA SettingsKeep ==
    ASSUME Inv, NEW s \in Sockets, AttachData(s) \/ Pause(s) \/ Resume(s)
    PROVE  Keeps(s)
  <1> DEFINE d == [res[s] EXCEPT !.inStream = request[s], !.received = 0]
             p == [res[s] EXCEPT !.timer = FALSE, !.paused = TRUE]
             r == [res[s] EXCEPT !.timer = TRUE, !.paused = FALSE]
  <1>1. Types /\ UNCHANGED <<io, stack, request, made, done, aborted, goodbye>>
    BY DEF Inv, AttachData, Pause, Resume
  <1>2. res[s] \in Conns /\ request[s] \in Nat
    BY <1>1, Unchanged
  <1>3. /\ d \in Conns /\ Alike(res[s], d) /\ d.body = res[s].body
        /\ p \in Conns /\ Alike(res[s], p) /\ p.body = res[s].body
        /\ r \in Conns /\ Alike(res[s], r) /\ r.body = res[s].body
    BY <1>2 DEF Conns, Alike
  <1>4. \E c \in {d, p, r} : res' = [res EXCEPT ![s] = c]
    <2>1. CASE AttachData(s)
      BY <1>1, <2>1 DEF AttachData, Types
    <2>2. CASE Pause(s)
      BY <1>1, <2>2 DEF Pause, Types
    <2>3. CASE Resume(s)
      BY <1>1, <2>3 DEF Resume, Types
    <2> QED
      BY <2>1, <2>2, <2>3
  <1> HIDE DEF d, p, r
  <1>5. PICK c \in {d, p, r} : res' = [res EXCEPT ![s] = c]
    BY <1>4
  <1>6. /\ c \in Conns /\ Alike(res[s], c)
        /\ \A t \in Sockets : res'[t].body = res[t].body
    BY <1>1, <1>3, <1>5 DEF Types
  <1>7. Stacked
    BY <1>1, <1>6, StackStays
  <1>8. Effect(s, <<>>)
    BY <1>1, NoEffect DEF Types
  <1> QED
    BY <1>1, <1>5, <1>6, <1>7, <1>8, QuietKeeps

(* cork(), up to the block of the application.                             *)
LEMMA CorkBeginKeeps ==
    ASSUME Inv, NEW s \in Sockets, CorkBegin(s)
    PROVE  Keeps(s)
  <1> DEFINE corks == ~IsCorked(io, s) /\ CanCork(io)
             f == [kind |-> "block", s |-> s, r |-> 0, fin |-> corks]
  <1>1. /\ Types /\ ~Atop("data") /\ stack' = Append(stack, f)
        /\ io' = IF corks THEN Cork(io, s) ELSE io
        /\ UNCHANGED <<res, request, made, done, aborted, goodbye>>
    BY DEF Inv, CorkBegin, Usable, Push
  <1>2. f \in CallFrames /\ f.kind = "block" /\ f.s = s /\ f.fin = corks
    BY DEF CallFrames
  <1>3. corks => io.corked = Nil
    BY DEF CanCork
  <1> HIDE DEF corks, f
  <1>4. IOInv(io, Tokens)
    BY <1>1 DEF Types
  <1>5. /\ Effect(s, <<>>) /\ io'.closed = io.closed
        /\ io'.corked = IF corks THEN s ELSE io.corked
    <2>1. CASE corks
      BY <1>1, <1>3, <1>4, <2>1, CorkEffect
    <2>2. CASE ~corks
      BY <1>1, <1>4, <2>2, NoEffect
    <2> QED
      BY <2>1, <2>2
  <1>6. Stacked
    BY <1>1, <1>2, <1>5, Pushed
  <1>7. res[s] \in Conns /\ res' = [res EXCEPT ![s] = res[s]]
    BY <1>1, Unchanged
  <1> QED
    BY <1>1, <1>5, <1>6, <1>7, QuietKeeps DEF Alike

(* The cork that a block has taken is its own at its end, if any.          *)
LEMMA BlockOwns ==
    ASSUME Inv, Atop("block")
    PROVE  /\ Top \in Frames /\ Top.s \in Sockets /\ Top.kind = "block"
           /\ Top.fin /\ io.corked # Nil => io.corked = Top.s
  <1>1. /\ stack \in Seq(Frames) /\ Len(stack) \in Nat \ {0} /\ Owner
        /\ Top = stack[Len(stack)] /\ Top.kind = "block"
    BY EmptySeq DEF Inv, Types, Atop, Top
  <1>2. Len(stack) \in 1..Len(stack)
    BY <1>1
  <1>3. Top \in Frames
    BY <1>1, <1>2
  <1>4. Top.s \in Sockets
    BY <1>3 DEF Frames, DataFrames, StreamFrames, CallFrames
  <1>5. ASSUME Top.fin, io.corked # Nil PROVE io.corked = Top.s
    <2>1. PICK i \in 1..Len(stack) :
            /\ stack[i].s = io.corked
            /\ \A j \in i + 1..Len(stack) : ~Uncorks(stack[j])
      BY <1>1, <1>5 DEF Owner
    <2>2. Uncorks(stack[Len(stack)])
      BY <1>1, <1>5 DEF Uncorks
    <2>3. Len(stack) \notin i + 1..Len(stack)
      BY <2>1, <2>2
    <2>4. i = Len(stack)
      BY <1>1, <2>3
    <2> QED
      BY <1>1, <2>1, <2>4
  <1> QED
    BY <1>1, <1>3, <1>4, <1>5

(* The rest of cork().                                                     *)
LEMMA CorkEndKeeps ==
    ASSUME Inv, NEW room \in Rooms, CorkEnd(room)
    PROVE  Keeps(Top.s) /\ (Waits(Top.s) \/ UNCHANGED <<io, res>>)
  <1> DEFINE s == Top.s
             r == Uncork(io, s, <<>>, room, FALSE)
             c == [res[s] EXCEPT !.timer = @ \/ r.failed]
  <1>1. /\ Types /\ room \in Nat /\ Atop("block") /\ stack' = Pop
        /\ UNCHANGED <<request, made, done, aborted, goodbye>>
    BY HttpAssumption DEF Inv, CorkEnd
  <1>2. /\ s \in Sockets /\ Top.kind = "block"
        /\ Top.fin /\ io.corked # Nil => io.corked = s
    BY <1>1, BlockOwns
  <1>3. IOInv(io, Tokens) /\ res[s] \in Conns
    BY <1>1, <1>2, Unchanged DEF Types
  <1>4. CASE Top.fin /\ io.corked # Nil
    <2>1. io.corked = s
      BY <1>2, <1>4
    <2>2. Freed(io, s, r)
      BY <1>1, <1>2, <1>3, FreedKeeps
    <2>3. io' = CloseIfLast(r.io, res[s], s)
      BY <1>4, <2>1 DEF CorkEnd, CanCork, IsCorked
    <2>4. res' = [res EXCEPT ![s] = c]
      BY <1>1, <1>2, <1>4, <2>1 DEF CorkEnd, CanCork, IsCorked, Types
    <2>5. c \in Conns /\ Alike(res[s], c) /\ c.body = res[s].body
          /\ c.close = res[s].close
      BY <1>3 DEF Conns, Alike
    <2> HIDE DEF r, c, s
    <2>6. Last(r.io, res[s], s, io')
      BY <1>2, <2>2, <2>3, LastKeeps DEF Freed, Call
    <2>7. /\ Effect(s, <<>>) /\ io'.corked \in {io.corked, Nil} /\ io'.corked # s
          /\ \/ io'.closed = io.closed
             \/ io'.closed = io.closed \cup {s} /\ ~res[s].pending
          /\ s \notin io'.closed /\ res[s].close /\ ~res[s].pending => io'.raw[s] # <<>>
      BY <1>2, <1>3, <2>2, <2>6, FreedEffect
    <2>8. \A t \in Sockets : res'[t].body = res[t].body
      BY <1>1, <2>4, <2>5 DEF Types
    <2>9. Stacked
      BY <1>1, <2>1, <2>7, <2>8, Popped
    <2>10. Waits(s)
      <3>1. res'[s].close = res[s].close /\ res'[s].pending = res[s].pending
        BY <1>1, <1>2, <2>4, <2>5 DEF Types, Alike
      <3> QED
        BY <2>7, <3>1 DEF Waits
    <2> QED
      BY <1>1, <1>2, <2>4, <2>5, <2>7, <2>9, <2>10, QuietKeeps DEF s
  <1>5. CASE ~(Top.fin /\ io.corked # Nil)
    <2>1. UNCHANGED <<io, res>>
      BY <1>5 DEF CorkEnd, CanCork
    <2>2. Effect(s, <<>>) /\ res' = [res EXCEPT ![s] = res[s]]
      BY <1>1, <1>2, <1>3, <2>1, NoEffect, Unchanged
    <2>3. Stacked
      BY <1>1, <1>2, <1>5, <2>1, Popped
    <2> QED
      BY <1>1, <1>2, <1>3, <2>1, <2>2, <2>3, QuietKeeps DEF Alike
  <1> QED
    BY <1>4, <1>5

-----------------------------------------------------------------------------
(* The invariant and what follows.                                         *)

(* No connection is open at first.                                         *)
LEMMA InitInv ==
    ASSUME Init
    PROVE  Inv
  <1>1. <<>> \in Seq(Tokens) /\ <<>> \in Seq(Frames) /\ Len(<<>>) = 0
    BY EmptySeq
  <1>2. 0 <= 0 \div EraseDivisor
    BY CorkAssumption, DivNat
  <1>3. IOType(io, Tokens)
    BY <1>1 DEF Init, InitIO, IOType
  <1>4. IOInv(io, Tokens)
    BY <1>1, <1>2, <1>3, CorkAssumption, SocketAssumption
       DEF Init, InitIO, IOInv, IOSafe, Exact, CorkOwned
  <1>5. Fresh \in Conns
    BY DEF Fresh, Conns, BodyKinds
  <1>6. Types
    BY <1>1, <1>4, <1>5 DEF Init, Types
  <1>7. Shape /\ Owner
    BY <1>1, SocketAssumption DEF Init, InitIO, Shape, Owner
  <1>8. Outcome
    BY DEF Init, InitIO, Outcome, Sound, Fresh
  <1> QED
    BY <1>6, <1>7, <1>8 DEF Inv

(* Every handler keeps the invariant, being about one socket.              *)
LEMMA HandlersKeep ==
    ASSUME Inv, Handlers
    PROVE  \E s \in Sockets : Keeps(s)
  <1>1. CASE \E s \in Sockets : OnOpen(s) \/ OnData(s) \/ RequestRefused(s)
    BY <1>1, OnOpenKeeps, OnDataKeeps, RequestRefusedKeeps
  <1>2. CASE \E s \in Sockets, close \in BOOLEAN, body \in BodyKinds :
               Request(s, close, body)
    BY <1>2, RequestKeeps
  <1>3. CASE \E s \in Sockets, close \in BOOLEAN : RequestUnrouted(s, close)
    BY <1>3, RequestUnroutedKeeps
  <1>4. CASE HandlerReturn
    BY <1>4, HandlerReturnKeeps DEF Keeps
  <1>5. CASE \E s \in Sockets, fin \in BOOLEAN : PieceIgnored(s, fin)
    BY <1>5, PieceIgnoredKeeps
  <1>6. CASE \E s \in Sockets, n \in 0..1, fin, heeded \in BOOLEAN :
               PieceReceived(s, fin, n, heeded)
    BY <1>6, PieceReceivedKeeps
  <1>7. CASE StreamReturn
    BY <1>7, StreamReturnKeeps DEF Keeps
  <1>8. CASE \E s \in Sockets, room \in Rooms : Malformed(s, room)
    BY <1>8, MalformedKeeps
  <1>9. CASE \E room \in Rooms : DataReturn(room)
    BY <1>9, DataReturnKeeps DEF Keeps
  <1>10. CASE \E s \in Sockets : OnWritable(s)
    BY <1>10, OnWritableKeeps
  <1>11. CASE WritableReturn
    BY <1>11, WritableReturnKeeps DEF Keeps
  <1>12. CASE \E s \in Sockets, room \in Rooms : OnWritableDrain(s, room)
    BY <1>12, OnWritableDrainKeeps
  <1>13. CASE \E s \in Sockets : OnEnd(s) \/ OnTimeout(s)
    BY <1>13, CloseSocketKeeps DEF OnEnd, OnTimeout
  <1> QED
    BY <1>1, <1>2, <1>3, <1>4, <1>5, <1>6, <1>7, <1>8, <1>9, <1>10, <1>11,
       <1>12, <1>13 DEF Handlers

(* So does every call of the application.                                  *)
LEMMA ApplicationKeeps ==
    ASSUME Inv, Application
    PROVE  \E s \in Sockets : Keeps(s)
  <1>1. CASE \E s \in Sockets, room \in Rooms :
               WriteHeader(s, room) \/ WriteChunk(s, room)
    BY <1>1, WriteHeaderKeeps, WriteChunkKeeps
  <1>2. CASE \E s \in Sockets, n \in Bodies, close \in BOOLEAN, room \in Rooms :
               End(s, n, close, room) \/ EndWithoutBody(s, n, close, room)
    BY <1>2, EndsKeep
  <1>3. CASE \E s \in Sockets, n, total \in Bodies, close \in BOOLEAN, room \in Rooms :
               TryEnd(s, n, total, close, room)
    BY <1>3, EndsKeep
  <1>4. CASE \E s \in Sockets : AttachAborted(s) \/ AttachWritable(s)
    BY <1>4, AttachKeeps
  <1>5. CASE \E s \in Sockets : AttachData(s) \/ Pause(s) \/ Resume(s)
    BY <1>5, SettingsKeep
  <1>6. CASE \E s \in Sockets : Close(s)
    BY <1>6, CloseSocketKeeps DEF Close
  <1>7. CASE \E s \in Sockets : CorkBegin(s)
    BY <1>7, CorkBeginKeeps
  <1>8. CASE \E room \in Rooms : CorkEnd(room)
    BY <1>8, CorkEndKeeps DEF Keeps
  <1> QED
    BY <1>1, <1>2, <1>3, <1>4, <1>5, <1>6, <1>7, <1>8 DEF Application

(* And so every step.                                                      *)
LEMMA NextInv ==
    ASSUME Inv, [Next]_vars
    PROVE  Inv'
  <1>1. CASE UNCHANGED vars
    BY <1>1 DEF vars, Inv, Types, Shape, Owner, Outcome
  <1>2. CASE Next
    BY <1>2, HandlersKeep, ApplicationKeeps DEF Next, Keeps
  <1> QED
    BY <1>1, <1>2

(* The inductive invariant: no handler of uSockets, callback of the parser *)
(* or call of HttpResponse breaks the types, the nesting of the handlers,  *)
(* the ownership of the cork buffer or the outcomes of the responses.      *)
THEOREM Invariant == Spec => []Inv
  BY InitInv, NextInv, PTL DEF Spec

(* Between events nobody holds the cork buffer, and it is empty: every     *)
(* path out of the data handler and of cork() uncorks, also that of a      *)
(* connection closed in the meantime.                                      *)
THEOREM CorkAlwaysReleased == Spec => []CorkReleased
  <1>1. Inv => CorkReleased
    <2> SUFFICES ASSUME Inv, stack = <<>> PROVE CanCork(io) /\ io.cork = <<>>
      BY DEF CorkReleased
    <2>1. io.corked = Nil
      BY AtRest
    <2> QED
      BY <2>1 DEF Inv, Types, IOInv, CorkOwned, CanCork
  <1> QED
    BY <1>1, Invariant, PTL

(* No response is both complete and aborted, and none whose onAborted is   *)
(* attached when the connection closes goes without it.                    *)
THEOREM OneOutcomeHolds == Spec => []OneOutcome
  <1>1. Inv => OneOutcome
    BY DEF Inv, Outcome, Sound, OneOutcome, Connected
  <1> QED
    BY <1>1, Invariant, PTL

-----------------------------------------------------------------------------
(* Nothing is lost, as long as no call writes more behind the corked bytes *)
(* than the cork buffer takes: uncork() leaves the new bytes alone when    *)
(* the kernel does not take the corked ones.                               *)

CorkFits ==
    \A s \in Sockets :
        io.corked = s => Len(io.cork) + Len(made'[s]) <= CorkSize + Len(made[s])

Intact ==
    /\ \A s \in Sockets \ io.closed : Stream(io, s) = made[s]
    /\ io.fin \subseteq io.closed
    /\ "malformed" \notin Usage => \A s \in io.fin : io.sent[s] = made[s]

(* What a step makes, and whether it fits.                                 *)
LEMMA MadeFits ==
    ASSUME Inv, NEW s \in Sockets, NEW src \in Seq(Tokens), About(s, src)
    PROVE  /\ made'[s] = made[s] \o src /\ Len(made'[s]) = Len(made[s]) + Len(src)
           /\ \A t \in Sockets \ {s} : made'[t] = made[t]
           /\ src = <<>> => made'[s] = made[s]
           /\ Len(made[s]) \in Nat /\ Len(src) \in Nat
           /\ CorkFits => Fits(io, s, src)
  <1>1. made \in [Sockets -> Seq(Tokens)] /\ made[s] \in Seq(Tokens)
    BY DEF Inv, Types
  <1>2. /\ made'[s] = made[s] \o src /\ \A t \in Sockets \ {s} : made'[t] = made[t]
    BY <1>1 DEF About
  <1>3. /\ Len(made[s] \o src) = Len(made[s]) + Len(src)
        /\ Len(made[s]) \in Nat /\ Len(src) \in Nat /\ made[s] \o <<>> = made[s]
    BY <1>1, ConcatProperties, ConcatEmptySeq, LenProperties
  <1>4. ASSUME CorkFits PROVE Fits(io, s, src)
    <2> DEFINE a == Len(io.cork)
               b == Len(made[s])
               c == Len(src)
    <2>1. a \in Nat /\ b \in Nat /\ c \in Nat /\ CorkSize \in Nat
      BY <1>3, Components, CorkAssumption DEF Inv, Types, IOInv, IOSafe
    <2>2. io.corked = s => a + (b + c) <= CorkSize + b
      BY <1>2, <1>3, <1>4 DEF CorkFits
    <2> HIDE DEF a, b, c
    <2>3. io.corked = s => a + c <= CorkSize
      BY <2>1, <2>2
    <2> QED
      BY <2>3 DEF Fits, a, c
  <1> QED
    BY <1>2, <1>3, <1>4

(* Nothing is made or sent at first.                                       *)
LEMMA InitIntact ==
    ASSUME Init
    PROVE  Intact
  <1>1. <<>> \in Seq(Tokens) /\ <<>> \o <<>> = <<>> /\ SubSeq(<<>>, 1, 0) = <<>>
        /\ Len(<<>>) = 0
    BY EmptySeq, ConcatEmptySeq, SubSeqEmpty
  <1>2. ASSUME NEW s \in Sockets PROVE Stream(io, s) = <<>>
    <2>1. /\ io.sent[s] = <<>> /\ io.raw[s] = <<>> /\ io.removed[s] = 0
          /\ io.corked = Nil /\ s # Nil
      BY SocketAssumption DEF Init, InitIO
    <2>2. Data(io, s) = <<>>
      <3>1. Data(io, s) = SubSeq(<<>>, 0 + 1, 0)
        BY <1>1, <2>1 DEF Data
      <3>2. 0 + 1 = 1
        OBVIOUS
      <3> QED
        BY <1>1, <3>1, <3>2
    <2> QED
      BY <1>1, <2>1, <2>2 DEF Stream, Pending, IsCorked
  <1> QED
    BY <1>2 DEF Init, InitIO, Intact

(* The stream of s grows by what is made, those of others stay.            *)
LEMMA AboutIntact ==
    ASSUME Inv, Intact, NEW s \in Sockets, NEW src \in Seq(Tokens), About(s, src),
           Fits(io, s, src)
    PROVE  Intact'
  <1>1. Effect(s, src) /\ Aside(io, io', s)
    BY DEF About, Effect
  <1>2. /\ made'[s] = made[s] \o src
        /\ \A t \in Sockets \ {s} : made'[t] = made[t]
        /\ s \in io.closed => made'[s] = made[s]
    BY MadeFits DEF About
  <1>3. ASSUME NEW t \in Sockets \ io'.closed
        PROVE  Stream(io', t) = made'[t]
    <2>1. t \notin io.closed
      BY <1>1 DEF Aside
    <2>2. CASE t = s
      BY <1>1, <1>2, <2>1, <2>2 DEF Effect, Intact
    <2>3. CASE t # s
      BY <1>1, <1>2, <2>1, <2>3, AsideStream DEF Intact
    <2> QED
      BY <2>2, <2>3
  <1>4. io'.fin \subseteq io'.closed
    BY <1>1 DEF Effect, Aside, Intact
  <1>5. ASSUME "malformed" \notin Usage, NEW t \in io'.fin
        PROVE  io'.sent[t] = made'[t]
    <2>1. t \in Sockets
      BY <1>1 DEF Aside, IOInv, IOSafe, IOType
    <2>2. CASE t # s
      BY <1>1, <1>2, <1>5, <2>1, <2>2 DEF Aside, Intact
    <2>3. CASE t = s /\ s \in io.closed
      BY <1>1, <1>2, <1>5, <2>3 DEF Effect, Intact
    <2>4. CASE t = s /\ s \notin io.closed
      <3>1. s \notin io.fin
        BY <2>4 DEF Intact
      <3> QED
        BY <1>1, <1>2, <1>5, <2>4, <3>1 DEF Effect, Intact
    <2> QED
      BY <2>2, <2>3, <2>4
  <1> QED
    BY <1>3, <1>4, <1>5 DEF Intact

(* Every step is about one socket.                                         *)
LEMMA NextAbout ==
    ASSUME Inv, Next
    PROVE  \E s \in Sockets, src \in Seq(Tokens) : About(s, src)
  BY HandlersKeep, ApplicationKeeps DEF Next, Keeps

(* Every step whose bytes fit the cork buffer keeps the streams intact.    *)
LEMMA NextIntact ==
    ASSUME Inv, Intact, [Next]_vars, [CorkFits]_vars
    PROVE  Intact'
  <1>1. CASE UNCHANGED vars
    BY <1>1 DEF vars, Intact, Stream, Pending, Data, IsCorked
  <1>2. CASE Next /\ ~UNCHANGED vars
    <2>1. PICK s \in Sockets, src \in Seq(Tokens) : About(s, src)
      BY <1>2, NextAbout
    <2> QED
      BY <1>2, <2>1, MadeFits, AboutIntact
  <1> QED
    BY <1>1, <1>2

(* In the runs no connection writes as much as the cork buffer takes.      *)
LEMMA BoundFits ==
    ASSUME MaxTokens <= CorkSize, Inv, Intact, [Next]_vars
    PROVE  [CorkFits]_vars
  <1> SUFFICES ASSUME Next PROVE CorkFits
    OBVIOUS
  <1>1. PICK s \in Sockets, src \in Seq(Tokens) : About(s, src)
    BY NextAbout
  <1>2. IOInv(io, Tokens) /\ made \in [Sockets -> Seq(Tokens)]
    BY DEF Inv, Types
  <1>3. ASSUME NEW t \in Sockets, io.corked = t
        PROVE  Len(io.cork) + Len(made'[t]) <= CorkSize + Len(made[t])
    <2> DEFINE a == Len(io.cork)
               b == Len(made[t])
               c == Len(made'[t])
    <2>1. a \in Nat /\ b \in Nat /\ a <= CorkSize /\ CorkSize \in Nat /\ MaxTokens \in Nat
      BY <1>2, Components, LenProperties, CorkAssumption, HttpAssumption DEF IOInv, IOSafe
    <2>2. CASE made'[t] = made[t]
      BY <2>1, <2>2
    <2>3. CASE made'[t] # made[t]
      <3>1. t = s /\ s \notin io.closed /\ c <= MaxTokens /\ c \in Nat
        <4>1. /\ t \in Sockets \ {s} => made'[t] = made[t]
              /\ src = <<>> => made'[s] = made[s]
              /\ Len(made'[s]) = Len(made[s]) + Len(src)
              /\ Len(made[s]) \in Nat /\ Len(src) \in Nat
          BY <1>1, MadeFits
        <4>2. t = s /\ src # <<>>
          BY <2>3, <4>1
        <4>3. s \notin io.closed /\ Len(made[s]) + Len(src) <= MaxTokens
          BY <1>1, <4>2 DEF About
        <4> QED
          BY <4>1, <4>2, <4>3
      <3>2. Stream(io, t) = made[t] /\ Pending(io, t) \in Seq(Tokens)
            /\ Stream(io, t) = Pending(io, t) \o io.cork /\ io.cork \in Seq(Tokens)
        BY <1>2, <1>3, <3>1, StreamEnds, PendingType, Components
           DEF Intact, IOInv, IOSafe
      <3>3. a <= b
        <4>1. Len(Pending(io, t) \o io.cork) = Len(Pending(io, t)) + a
              /\ Len(Pending(io, t)) \in Nat
          BY <3>2, ConcatProperties, LenProperties
        <4> HIDE DEF a, b
        <4>2. b = Len(Pending(io, t)) + a
          BY <3>2, <4>1 DEF b
        <4> QED
          BY <2>1, <4>1, <4>2
      <3> HIDE DEF a, b, c
      <3>4. a + c <= CorkSize + b
        BY <2>1, <3>1, <3>3
      <3> QED
        BY <3>4 DEF a, b, c
    <2> QED
      BY <2>2, <2>3
  <1> QED
    BY <1>3 DEF CorkFits

(* The streams are intact as long as the cork buffer takes the responses   *)
(* of corked sockets.                                                      *)
LEMMA IntactHolds == Spec /\ [][CorkFits]_vars => []Intact
  <1>1. Inv /\ Intact /\ [Next]_vars /\ [CorkFits]_vars => Intact'
    BY NextIntact
  <1> QED
    BY <1>1, InitIntact, Invariant, PTL DEF Spec

(* They always are where the responses of a connection are no longer than  *)
(* the cork buffer.                                                        *)
LEMMA IntactBounded ==
    ASSUME MaxTokens <= CorkSize
    PROVE  Spec => []Intact
  <1>1. Inv /\ Intact /\ [Next]_vars => Intact'
    BY BoundFits, NextIntact
  <1> QED
    BY <1>1, InitIntact, Invariant, PTL DEF Spec

(* What the application was told is on its way is what the peer of an open *)
(* connection gets, in order and once: of every execution in which no call *)
(* overfills the cork buffer.                                              *)
THEOREM ResponseKept == Spec /\ [][CorkFits]_vars => []ResponseIntact
  <1>1. Inv /\ Intact => ResponseIntact
    BY DEF Intact, ResponseIntact, Connected, Stream, Pending
  <1> QED
    BY <1>1, IntactHolds, Invariant, PTL

(* And so of every execution of an instance that writes no more than that  *)
(* on a connection.                                                        *)
THEOREM ResponseKeptBounded ==
    ASSUME MaxTokens <= CorkSize
    PROVE  Spec => []ResponseIntact
  <1>1. Inv /\ Intact => ResponseIntact
    BY DEF Intact, ResponseIntact, Connected, Stream, Pending
  <1> QED
    BY <1>1, IntactBounded, Invariant, PTL

(* A connection that is shut down after a last response sent all of it.    *)
THEOREM LastResponseKept == Spec /\ [][CorkFits]_vars => []LastResponseSent
  <1>1. Intact => LastResponseSent
    BY DEF Intact, LastResponseSent
  <1> QED
    BY <1>1, IntactHolds, PTL

(* And so of every instance whose responses are no longer than the cork    *)
(* buffer.                                                                 *)
THEOREM LastResponseKeptBounded ==
    ASSUME MaxTokens <= CorkSize
    PROVE  Spec => []LastResponseSent
  <1>1. Intact => LastResponseSent
    BY DEF Intact, LastResponseSent
  <1> QED
    BY <1>1, IntactBounded, PTL

-----------------------------------------------------------------------------
(* A connection without a request in progress has a timer, where the       *)
(* application neither announces a length without a body nor responds      *)
(* before the request's body is over.  The first would leave the timer as  *)
(* it was; the second has the pieces of the old body turn it off.          *)

Idle ==
    \A s \in Sockets :
        /\ ~res[s].ended => res[s].offset = 0
        /\ Connected(s) /\ ~res[s].pending =>
             res[s].timer /\ (res[s].inStream = 0 \/ LastPiece(s))

Only(s) == \A t \in Sockets \ {s} : res'[t] = res[t]

(* Closed connections stay closed.                                         *)
LEMMA ClosedStays ==
    ASSUME Inv, Next
    PROVE  io.closed \subseteq io'.closed
  BY NextAbout DEF About, Effect, Aside

(* Data handlers run in a callback of the parser only.                     *)
LEMMA PieceInParser ==
    ASSUME Inv, NEW j \in 1..Len(stack), stack[j].kind = "stream"
    PROVE  j = 2 /\ stack[1].kind = "data" /\ Len(stack) > 1
  <1>1. Shape /\ Len(stack) \in Nat
    BY DEF Inv, Types
  <1> QED
    BY <1>1 DEF Shape

(* Outside the data callback and its blocks no last piece is on its way.   *)
LEMMA NoPiece ==
    ASSUME Inv, stack = <<>> \/ Atop("data") \/ Atop("handler") \/ Atop("writable")
    PROVE  \A t : ~LastPiece(t)
  <1> SUFFICES ASSUME NEW j \in 1..Len(stack), stack[j].kind = "stream" PROVE FALSE
    BY DEF LastPiece
  <1>1. j = 2 /\ stack[1].kind = "data" /\ Len(stack) > 1
    BY PieceInParser
  <1>2. Len(stack) \in 1..Len(stack) /\ stack # <<>>
    BY EmptySeq
  <1>3. stack[Len(stack)].kind \in {"data", "handler", "writable"}
    BY <1>2 DEF Atop
  <1>4. Len(stack) = 2
    BY <1>1, <1>2, <1>3 DEF Inv, Shape
  <1> QED
    BY <1>1, <1>3, <1>4

(* It stays on its way while blocks come and go.                           *)
LEMMA PieceStays ==
    ASSUME Inv, NEW t,
           \/ stack' = stack \/ \E f : stack' = Append(stack, f)
           \/ stack' = Pop /\ Atop("block")
    PROVE  LastPiece(t) => LastPiece(t)'
  <1>1. stack \in Seq(Frames) /\ Len(stack) \in Nat
    BY DEF Inv, Types
  <1>2. CASE stack' = stack
    BY <1>2 DEF LastPiece
  <1>3. CASE \E f : stack' = Append(stack, f)
    <2>1. Len(stack') = Len(stack) + 1 /\ \A i \in 1..Len(stack) : stack'[i] = stack[i]
      BY <1>1, <1>3
    <2> QED
      BY <1>1, <2>1 DEF LastPiece
  <1>4. CASE stack' = Pop /\ Atop("block")
    <2> SUFFICES ASSUME NEW j \in 1..Len(stack), stack[j].kind = "stream",
                        stack[j].s = t, stack[j].fin
                 PROVE  LastPiece(t)'
      BY DEF LastPiece
    <2> DEFINE n == Len(stack) - 1
    <2>1. j # Len(stack)
      BY <1>4 DEF Atop
    <2>2. j \in 1..n /\ n \in 0..Len(stack)
      BY <1>1, <2>1
    <2>3. stack' = SubSeq(stack, 1, n)
      BY <1>4 DEF Pop
    <2> HIDE DEF n
    <2>4. Len(stack') = n /\ stack'[j] = stack[j]
      BY <1>1, <2>2, <2>3, Cut
    <2> QED
      BY <2>2, <2>4 DEF LastPiece
  <1> QED
    BY <1>2, <1>3, <1>4

(* Idle is kept by a step about s that keeps it for s.                     *)
LEMMA IdleKept ==
    ASSUME Inv, Idle, Next, NEW s \in Sockets, Only(s),
           \A t \in Sockets \ {s} : LastPiece(t) => LastPiece(t)',
           \/ res'[s].offset = 0
           \/ ~res'[s].ended => ~res[s].ended /\ res'[s].offset = res[s].offset,
           s \notin io'.closed /\ res'[s].open /\ ~res'[s].pending =>
             res'[s].timer /\ (res'[s].inStream = 0 \/ LastPiece(s)')
    PROVE  Idle'
  <1> SUFFICES ASSUME NEW t \in Sockets
               PROVE  /\ ~res'[t].ended => res'[t].offset = 0
                      /\ t \notin io'.closed /\ res'[t].open /\ ~res'[t].pending =>
                           res'[t].timer /\ (res'[t].inStream = 0 \/ LastPiece(t)')
    BY DEF Idle, Connected
  <1>1. CASE t = s
    BY <1>1 DEF Idle
  <1>2. CASE t # s
    BY <1>2, ClosedStays DEF Idle, Only, Connected
  <1> QED
    BY <1>1, <1>2

(* The frequent case: the timer may start, and a response does not end.    *)
Calm(c, d) ==
    /\ d.open = c.open /\ d.pending = c.pending /\ d.inStream = c.inStream
    /\ d.ended = c.ended /\ d.offset = c.offset
    /\ c.timer => d.timer

(* By one that changes nothing of s that Idle is about.                    *)
LEMMA IdleCalm ==
    ASSUME Inv, Idle, Next, NEW s \in Sockets, Only(s), Calm(res[s], res'[s]),
           \A t \in Sockets : LastPiece(t) => LastPiece(t)'
    PROVE  Idle'
  <1>1. s \notin io'.closed /\ res'[s].open /\ ~res'[s].pending =>
          res'[s].timer /\ (res'[s].inStream = 0 \/ LastPiece(s)')
    BY ClosedStays DEF Idle, Connected, Calm
  <1>2. ~res'[s].ended => ~res[s].ended /\ res'[s].offset = res[s].offset
    BY DEF Calm
  <1> QED
    BY <1>1, <1>2, IdleKept

(* At most the timer starts.                                               *)
LEMMA TimerStarts ==
    ASSUME Inv, NEW s \in Sockets, NEW f, res' = [res EXCEPT ![s].timer = @ \/ f]
    PROVE  Only(s) /\ Calm(res[s], res'[s])
  <1> DEFINE c == [res[s] EXCEPT !.timer = @ \/ f]
  <1>1. res \in [Sockets -> Conns] /\ res[s] \in Conns
    BY DEF Inv, Types
  <1>2. Calm(res[s], c)
    BY <1>1 DEF Calm, Conns
  <1>3. res' = [res EXCEPT ![s] = c]
    BY <1>1
  <1> HIDE DEF c
  <1> QED
    BY <1>1, <1>2, <1>3 DEF Only

(* By one that changes nothing of any HttpResponseData.                    *)
LEMMA IdleSame ==
    ASSUME Inv, Idle, Next, UNCHANGED res,
           \A t \in Sockets : LastPiece(t) => LastPiece(t)'
    PROVE  Idle'
  BY ClosedStays DEF Idle, Connected

(* Steps of uSockets and the parser that close, answer or wait.            *)
LEMMA IdleHandlers ==
    ASSUME Inv, Idle, Next, NEW s \in Sockets,
           \/ OnOpen(s) \/ OnData(s) \/ RequestRefused(s) \/ OnWritable(s)
           \/ \E close \in BOOLEAN, body \in BodyKinds : Request(s, close, body)
           \/ \E close \in BOOLEAN : RequestUnrouted(s, close)
           \/ \E room \in Rooms : Malformed(s, room) \/ OnWritableDrain(s, room)
           \/ OnEnd(s) \/ OnTimeout(s)
    PROVE  Idle'
  <1>1. res \in [Sockets -> Conns] /\ res[s] \in Conns
    BY DEF Inv, Types
  <1>2. stack = <<>> \/ Atop("data")
    BY DEF OnOpen, OnData, RequestRefused, OnWritable, Request, RequestUnrouted,
           Malformed, OnWritableDrain, OnEnd, OnTimeout, Arrives, Parsing
  <1>3. \A t \in Sockets : LastPiece(t) => LastPiece(t)'
    BY <1>2, NoPiece
  <1>4. CASE OnOpen(s)
    <2>1. res'[s] = [Fresh EXCEPT !.open = TRUE, !.timer = TRUE] /\ Only(s)
      BY <1>1, <1>4 DEF OnOpen, Only
    <2> QED
      BY <1>3, <2>1, IdleKept DEF Fresh
  <1>5. CASE OnData(s) \/ OnEnd(s) \/ OnTimeout(s) \/ \E room \in Rooms : Malformed(s, room)
    <2>1. UNCHANGED res
      BY <1>5 DEF OnData, OnEnd, OnTimeout, Malformed
    <2> QED
      BY <1>3, <2>1, IdleSame
  <1>6. CASE RequestRefused(s)
    <2>1. s \in io'.closed /\ Only(s) /\ res'[s].offset = 0
      BY <1>1, <1>6 DEF RequestRefused, CloseSocket, ClosedIO, Clear, Only, Conns
    <2> QED
      BY <1>3, <2>1, IdleKept
  <1>7. CASE \E close \in BOOLEAN, body \in BodyKinds : Request(s, close, body)
    <2>1. PICK close \in BOOLEAN, body \in BodyKinds :
            res' = [res EXCEPT ![s] = Requested(res[s], close, body)]
      BY <1>7 DEF Request
    <2> DEFINE c == Requested(res[s], close, body)
    <2>2. c.offset = 0 /\ c.pending
      BY <1>1 DEF Requested, Conns
    <2> HIDE DEF c
    <2>3. Only(s) /\ res'[s].offset = 0 /\ res'[s].pending
      BY <1>1, <2>1, <2>2 DEF Only, c
    <2> QED
      BY <1>3, <2>3, IdleKept
  <1>8. CASE \E close \in BOOLEAN : RequestUnrouted(s, close)
    <2>1. Only(s) /\ res'[s].offset = 0 /\ res'[s].pending
      BY <1>1, <1>8 DEF RequestUnrouted, Requested, Only, Conns
    <2> QED
      BY <1>3, <2>1, IdleKept
  <1>9. CASE OnWritable(s)
    <2>1. res[s].pending
      BY <1>9 DEF Inv, Outcome, Sound, OnWritable
    <2>2. /\ Only(s) /\ res'[s].offset = res[s].offset /\ res'[s].ended = res[s].ended
          /\ res'[s].pending
      BY <1>1, <1>9, <2>1 DEF OnWritable, Only, Conns
    <2> QED
      BY <1>3, <2>2, IdleKept
  <1>10. CASE \E room \in Rooms : OnWritableDrain(s, room)
    <2>1. Only(s) /\ Calm(res[s], res'[s])
      BY <1>1, <1>10 DEF OnWritableDrain, Only, Calm, Conns
    <2> QED
      BY <1>3, <2>1, IdleCalm
  <1> QED
    BY <1>4, <1>5, <1>6, <1>7, <1>8, <1>9, <1>10

(* Steps of the data callback.                                             *)
LEMMA IdlePieces ==
    ASSUME Inv, Idle, Next, NEW s \in Sockets, NEW fin \in BOOLEAN,
           \/ PieceIgnored(s, fin)
           \/ \E n \in 0..1, heeded \in BOOLEAN : PieceReceived(s, fin, n, heeded)
    PROVE  Idle'
  <1>1. res \in [Sockets -> Conns] /\ res[s] \in Conns
    BY DEF Inv, Types
  <1>2. Atop("data")
    BY PieceParsing DEF PieceIgnored, PieceReceived, Parsing
  <1>3. \A t \in Sockets : ~LastPiece(t)
    BY <1>2, NoPiece
  <1>4. CASE PieceIgnored(s, fin)
    <2>1. Only(s) /\ Calm(res[s], res'[s])
      BY <1>1, <1>4 DEF PieceIgnored, Only, Calm, Conns
    <2> QED
      BY <1>3, <2>1, IdleCalm
  <1>5. CASE \E n \in 0..1, heeded \in BOOLEAN : PieceReceived(s, fin, n, heeded)
    <2>1. PICK n \in 0..1, heeded \in BOOLEAN : PieceReceived(s, fin, n, heeded)
      BY <1>5
    <2>2. /\ Only(s) /\ res'[s].offset = res[s].offset /\ res'[s].ended = res[s].ended
          /\ res'[s].pending = res[s].pending /\ res'[s].open = res[s].open
          /\ res[s].inStream # 0 /\ io' = io
      BY <1>1, <2>1 DEF PieceReceived, Only, Conns
    <2>3. Connected(s) => res[s].pending
      BY <1>3, <2>2 DEF Idle
    <2> QED
      BY <1>3, <2>2, <2>3, IdleKept DEF Connected
  <1> QED
    BY <1>4, <1>5

(* The callbacks and handlers that come back.                              *)
LEMMA IdleReturns ==
    ASSUME Inv, Idle, Next,
           HandlerReturn \/ WritableReturn \/ \E room \in Rooms : DataReturn(room)
    PROVE  Idle'
  <1>1. res \in [Sockets -> Conns]
    BY DEF Inv, Types
  <1>2. Atop("handler") \/ Atop("writable") \/ Atop("data")
    BY DEF HandlerReturn, WritableReturn, DataReturn
  <1>3. \A t \in Sockets : LastPiece(t) => LastPiece(t)'
    BY <1>2, NoPiece
  <1>4. CASE HandlerReturn
    <2>1. Top.s \in Sockets
      BY <1>4, InCallback DEF HandlerReturn, StreamFrames, CallFrames
    <2>2. Only(Top.s) /\ Calm(res[Top.s], res'[Top.s])
      BY <1>1, <1>4, <2>1 DEF HandlerReturn, Only, Calm, Conns
    <2> QED
      BY <1>3, <2>1, <2>2, IdleCalm
  <1>5. CASE WritableReturn
    BY <1>3, <1>5, IdleSame DEF WritableReturn
  <1>6. CASE \E room \in Rooms : DataReturn(room)
    <2>1. Top.s \in Sockets
      BY <1>6, InParser DEF DataReturn, DataFrames
    <2>2. \/ UNCHANGED res
          \/ Only(Top.s) /\ Calm(res[Top.s], res'[Top.s])
      BY <1>6, <2>1, TimerStarts DEF DataReturn
    <2> QED
      BY <1>3, <2>1, <2>2, IdleCalm, IdleSame
  <1> QED
    BY <1>4, <1>5, <1>6

(* When the callback of a last piece comes back the data handler is gone.  *)
LEMMA IdleStreamReturn ==
    ASSUME Inv, Idle, Next, StreamReturn
    PROVE  Idle'
  <1> DEFINE s == Top.s
  <1>1. res \in [Sockets -> Conns]
    BY DEF Inv, Types
  <1>2. s \in Sockets /\ Len(stack) = 2 /\ Top = stack[2] /\ stack[1].kind = "data"
    BY InCallback DEF StreamReturn, StreamFrames, CallFrames, DataFrames
  <1>3. \A t \in Sockets : LastPiece(t) => t = s /\ Top.fin
    BY <1>2 DEF LastPiece
  <1>4. /\ Only(s) /\ res'[s].offset = res[s].offset /\ res'[s].ended = res[s].ended
        /\ res'[s].pending = res[s].pending /\ res'[s].open = res[s].open
        /\ res'[s].timer = res[s].timer /\ io' = io
        /\ res'[s].inStream = IF Top.fin /\ s \notin io.closed THEN 0 ELSE res[s].inStream
    BY <1>1, <1>2 DEF StreamReturn, Only, Conns
  <1>5. Connected(s) /\ ~res[s].pending => res[s].timer /\ (res[s].inStream = 0 \/ Top.fin)
    BY <1>2, <1>3 DEF Idle
  <1> HIDE DEF s
  <1> QED
    BY <1>2, <1>3, <1>4, <1>5, IdleKept DEF Connected

(* The end of a response starts the timer: where it is before the length   *)
(* that was announced, the response is not complete.                       *)
LEMMA IdleEnds ==
    ASSUME Usage \cap {"head", "early"} = {}, Inv, Idle, Next,
           NEW s \in Sockets, NEW n \in Bodies, NEW total \in Bodies,
           NEW close \in BOOLEAN, NEW room \in Rooms,
           \/ End(s, n, close, room) \/ EndWithoutBody(s, n, close, room)
           \/ TryEnd(s, n, total, close, room)
    PROVE  Idle'
  <1>1. Types /\ n \in Nat /\ total \in Nat /\ room \in Nat /\ 0 \in Nat
        /\ TRUE \in BOOLEAN /\ FALSE \in BOOLEAN
    BY HttpAssumption DEF Inv
  <1>2. \/ InternalEnd(s, n, n, FALSE, close, room) /\ ~res[s].ended
        \/ InternalEnd(s, 0, n, FALSE, close, room) /\ ~res[s].ended /\ n = 0
        \/ InternalEnd(s, n, total, TRUE, close, room) /\ n > 0
    BY DEF End, EndWithoutBody, TryEnd
  <1>3. ~res[s].ended => res[s].offset = 0
    BY DEF Idle
  <1>4. PICK m \in Nat, sum \in Nat, optionally \in BOOLEAN :
          /\ InternalEnd(s, m, sum, optionally, close, room)
          /\ m = 0 => sum = res[s].offset
    <2>1. CASE InternalEnd(s, n, n, FALSE, close, room) /\ ~res[s].ended
      BY <1>1, <1>3, <2>1
    <2>2. CASE InternalEnd(s, 0, n, FALSE, close, room) /\ ~res[s].ended /\ n = 0
      BY <1>1, <1>3, <2>2
    <2>3. CASE InternalEnd(s, n, total, TRUE, close, room) /\ n > 0
      <3>1. n # 0
        BY <1>1, <2>3
      <3> QED
        BY <1>1, <2>3, <3>1
    <2> QED
      BY <1>2, <2>1, <2>2, <2>3
  <1>5. PICK e : Ended(s, m, sum, close, e) /\ Conclude(s, e)
    BY <1>1, <1>4, InternalEndSteps
  <1>6. res' = [res EXCEPT ![s] = e.res] /\ stack' = stack
    BY <1>5 DEF Conclude
  <1>7. Only(s) /\ res'[s] = e.res
    BY <1>1, <1>6 DEF Only, Types
  <1>8. \A t \in Sockets : LastPiece(t) => LastPiece(t)'
    BY <1>6, PieceStays
  <1>9. /\ ~e.res.pending => e.res.timer
        /\ e.res.inStream = res[s].inStream
        /\ ~e.res.ended => ~res[s].ended /\ e.res.offset = res[s].offset
    BY <1>4, <1>5 DEF Ended, Goes
  <1>10. res[s].inStream = 0 \/ LastPiece(s)
    BY DEF End, EndWithoutBody, TryEnd, EndAllowed
  <1> QED
    BY <1>7, <1>8, <1>9, <1>10, IdleKept

(* The other calls of the application.                                     *)
LEMMA IdleCalls ==
    ASSUME Inv, Idle, Next, NEW s \in Sockets,
           \/ \E room \in Rooms : WriteHeader(s, room) \/ WriteChunk(s, room)
           \/ AttachAborted(s) \/ AttachWritable(s) \/ AttachData(s)
           \/ Pause(s) \/ Resume(s) \/ Close(s) \/ CorkBegin(s)
    PROVE  Idle'
  <1>1. res \in [Sockets -> Conns] /\ res[s] \in Conns
    BY DEF Inv, Types
  <1>2. stack' = stack \/ \E f : stack' = Append(stack, f)
    BY DEF WriteHeader, WriteChunk, AttachAborted, AttachWritable, AttachData,
           Pause, Resume, Close, CorkBegin, Push
  <1>3. \A t \in Sockets : LastPiece(t) => LastPiece(t)'
    BY <1>2, PieceStays
  <1>4. CASE \/ \E room \in Rooms : WriteHeader(s, room)
             \/ AttachAborted(s) \/ AttachWritable(s) \/ Resume(s)
    <2>1. Only(s) /\ Calm(res[s], res'[s])
      <3>1. CASE \E room \in Rooms : WriteHeader(s, room)
        BY <1>1, <3>1 DEF WriteHeader, Only, Calm, Conns
      <3>2. CASE AttachAborted(s)
        BY <1>1, <3>2 DEF AttachAborted, Only, Calm, Conns
      <3>3. CASE AttachWritable(s)
        BY <1>1, <3>3 DEF AttachWritable, Only, Calm, Conns
      <3>4. CASE Resume(s)
        BY <1>1, <3>4 DEF Resume, Only, Calm, Conns
      <3> QED
        BY <1>4, <3>1, <3>2, <3>3, <3>4
    <2> QED
      BY <1>3, <2>1, IdleCalm
  <1>5. CASE \E room \in Rooms : WriteChunk(s, room)
    <2>1. PICK f : res' = [res EXCEPT ![s].status = TRUE, ![s].chunked = TRUE,
                                      ![s].timer = @ \/ f]
      BY <1>5 DEF WriteChunk
    <2> DEFINE c == [res[s] EXCEPT !.status = TRUE, !.chunked = TRUE, !.timer = @ \/ f]
    <2>2. Calm(res[s], c) /\ res' = [res EXCEPT ![s] = c]
      BY <1>1, <2>1 DEF Calm, Conns
    <2> HIDE DEF c
    <2>3. Only(s) /\ Calm(res[s], res'[s])
      BY <1>1, <2>2 DEF Only
    <2> QED
      BY <1>3, <2>3, IdleCalm
  <1>6. CASE AttachData(s) \/ Pause(s)
    <2>1. /\ Only(s) /\ res'[s].offset = res[s].offset /\ res'[s].ended = res[s].ended
          /\ res'[s].pending
      BY <1>1, <1>6 DEF AttachData, Pause, Usable, Only, Conns
    <2> QED
      BY <1>3, <2>1, IdleKept
  <1>7. CASE Close(s) \/ CorkBegin(s)
    <2>1. UNCHANGED res
      BY <1>7 DEF Close, CorkBegin
    <2> QED
      BY <1>3, <2>1, IdleSame
  <1> QED
    BY <1>4, <1>5, <1>6, <1>7

(* By the end of a block: the timer is only set there.                     *)
LEMMA IdleCorkEnd ==
    ASSUME Inv, Idle, Next, NEW room \in Rooms, CorkEnd(room)
    PROVE  Idle'
  <1>1. res \in [Sockets -> Conns]
    BY DEF Inv, Types
  <1>2. \A t \in Sockets : LastPiece(t) => LastPiece(t)'
    BY PieceStays DEF CorkEnd
  <1>3. Top.s \in Sockets
    BY BlockOwns DEF CorkEnd
  <1>4. \/ UNCHANGED res
        \/ Only(Top.s) /\ Calm(res[Top.s], res'[Top.s])
    BY <1>3, TimerStarts DEF CorkEnd
  <1> QED
    BY <1>2, <1>3, <1>4, IdleCalm, IdleSame

(* By every step.                                                          *)
LEMMA NextIdle ==
    ASSUME Usage \cap {"head", "early"} = {}, Inv, Idle, [Next]_vars
    PROVE  Idle'
  <1>1. CASE UNCHANGED vars
    BY <1>1 DEF vars, Idle, Connected, LastPiece
  <1>2. CASE Next /\ Handlers
    <2>1. CASE \E s \in Sockets :
                 \/ OnOpen(s) \/ OnData(s) \/ RequestRefused(s) \/ OnWritable(s)
                 \/ \E close \in BOOLEAN, body \in BodyKinds : Request(s, close, body)
                 \/ \E close \in BOOLEAN : RequestUnrouted(s, close)
                 \/ \E room \in Rooms : Malformed(s, room) \/ OnWritableDrain(s, room)
                 \/ OnEnd(s) \/ OnTimeout(s)
      BY <1>2, <2>1, IdleHandlers
    <2>2. CASE \E s \in Sockets, fin \in BOOLEAN :
                 \/ PieceIgnored(s, fin)
                 \/ \E n \in 0..1, heeded \in BOOLEAN : PieceReceived(s, fin, n, heeded)
      BY <1>2, <2>2, IdlePieces
    <2>3. CASE HandlerReturn \/ WritableReturn \/ \E room \in Rooms : DataReturn(room)
      BY <1>2, <2>3, IdleReturns
    <2>4. CASE StreamReturn
      BY <1>2, <2>4, IdleStreamReturn
    <2> QED
      BY <1>2, <2>1, <2>2, <2>3, <2>4 DEF Handlers
  <1>3. CASE Next /\ Application
    <2>1. CASE \E s \in Sockets :
                 \/ \E room \in Rooms : WriteHeader(s, room) \/ WriteChunk(s, room)
                 \/ AttachAborted(s) \/ AttachWritable(s) \/ AttachData(s)
                 \/ Pause(s) \/ Resume(s) \/ Close(s) \/ CorkBegin(s)
      BY <1>3, <2>1, IdleCalls
    <2>2. CASE \E s \in Sockets, n, total \in Bodies, close \in BOOLEAN, room \in Rooms :
                 \/ End(s, n, close, room) \/ EndWithoutBody(s, n, close, room)
                 \/ TryEnd(s, n, total, close, room)
      BY <1>3, <2>2, IdleEnds
    <2>3. CASE \E room \in Rooms : CorkEnd(room)
      BY <1>3, <2>3, IdleCorkEnd
    <2> QED
      BY <1>3, <2>1, <2>2, <2>3 DEF Application
  <1> QED
    BY <1>1, <1>2, <1>3 DEF Next

(* Any connection without a request in progress times out, whatever closed *)
(* over or interrupted its last response.                                  *)
THEOREM IdleAlwaysTimesOut ==
    ASSUME Usage \cap {"head", "early"} = {}
    PROVE  Spec => []IdleTimesOut
  <1>1. Init => Idle
    <2> SUFFICES ASSUME Init, NEW s \in Sockets
                 PROVE  ~res[s].open /\ res[s].offset = 0
      BY DEF Idle, Connected
    <2> QED
      BY DEF Init, Fresh
  <1>2. Inv /\ Idle /\ [Next]_vars => Idle'
    BY NextIdle
  <1>3. Idle => IdleTimesOut
    BY DEF Idle, IdleTimesOut
  <1> QED
    BY <1>1, <1>2, <1>3, Invariant, PTL DEF Spec

-----------------------------------------------------------------------------
(* A connection whose last response is complete closes when drained, where *)
(* peers do not pipeline: until then it has backpressure, or it is corked  *)
(* and whoever uncorks it closes it.  Peers that pipeline have the parser  *)
(* make another request of such a connection, and it goes on.              *)

NoFirst == Len(stack) > 0 /\ stack[1].kind = "data" => ~stack[1].first

Parts(s) ==
    /\ res[s].open /\ res[s].close /\ ~res[s].pending
    /\ io.raw[s] # <<>> \/ io.corked = s
    /\ NoFirst \/ io.raw[s] # <<>>

Farewells == \A s \in goodbye \ io.closed : Parts(s)

(* A data handler is not in its first callback, unless it is the last      *)
(* thing that happened.                                                    *)
LEMMA NoFirstAfter ==
    ASSUME Inv, Inv', 
           \/ stack' = Pop \/ stack' = <<>> \/ \E f : stack' = Append(stack, f)
           \/ Atop("data") /\ \E a : stack' = Goto(a)
           \/ Atop("data") /\ \E a, f : stack' = Append(Goto(a), f)
           \/ (Atop("handler") \/ Atop("stream"))
              /\ \E a : stack' = [Pop EXCEPT ![Len(Pop)].at = a]
    PROVE  stack = <<>> \/ NoFirst'
  <1>1. /\ stack \in Seq(Frames) /\ Len(stack) \in Nat /\ Shape /\ Shape'
        /\ stack' \in Seq(Frames) /\ Len(stack') \in Nat
    BY DEF Inv, Types
  <1>2. CASE stack' = Pop
    <2> SUFFICES ASSUME Len(stack') > 0, stack'[1].kind = "data", stack # <<>>
                 PROVE  ~stack'[1].first
      BY DEF NoFirst
    <2> DEFINE n == Len(stack) - 1
    <2>1. Len(stack) > 0
      BY <1>1, EmptySeq
    <2>2. stack' = SubSeq(stack, 1, n) /\ n \in 0..Len(stack)
      BY <1>1, <1>2, <2>1 DEF Pop
    <2> HIDE DEF n
    <2>3. Len(stack') = n
      BY <1>1, <2>2, Cut
    <2>4. n > 0 /\ 1 \in 1..n
      BY <1>1, <2>2, <2>3
    <2>5. stack'[1] = stack[1]
      BY <1>1, <2>2, <2>4
    <2>6. Len(stack) > 1
      BY <1>1, <2>4 DEF n
    <2> QED
      BY <1>1, <2>5, <2>6 DEF Shape
  <1>3. CASE stack' = <<>>
    BY <1>3, EmptySeq DEF NoFirst
  <1>4. CASE \E f : stack' = Append(stack, f)
    <2>1. Len(stack') = Len(stack) + 1
      BY <1>1, <1>4
    <2>2. Len(stack) = 0 => stack = <<>>
      BY <1>1, EmptySeq
    <2> QED
      BY <1>1, <2>1, <2>2 DEF NoFirst, Shape
  <1>5. CASE Atop("data") /\ \E a : stack' = Goto(a)
    <2>1. PICK a : stack' = <<[Top EXCEPT !.at = a, !.first = FALSE]>>
      BY <1>5, InParser
    <2>2. Top \in DataFrames
      BY <1>5, InParser
    <2> QED
      BY <2>1, <2>2 DEF NoFirst, DataFrames
  <1>6. CASE Atop("data") /\ \E a, f : stack' = Append(Goto(a), f)
    <2>1. PICK a, f : stack' = Append(<<[Top EXCEPT !.at = a, !.first = FALSE]>>, f)
      BY <1>6, InParser
    <2> DEFINE d == [Top EXCEPT !.at = a, !.first = FALSE]
    <2> HIDE DEF d
    <2>2. stack' = Append(<<d>>, f)
      BY <2>1 DEF d
    <2>3. Len(stack') = 2
      BY <2>2
    <2> QED
      BY <1>1, <2>3 DEF NoFirst, Shape
  <1>7. CASE /\ Atop("handler") \/ Atop("stream")
             /\ \E a : stack' = [Pop EXCEPT ![Len(Pop)].at = a]
    <2>1. PICK a : stack' = <<[stack[1] EXCEPT !.at = a]>>
      BY <1>7, InCallback
    <2>2. stack[1] \in DataFrames /\ ~stack[1].first
      BY <1>7, InCallback
    <2> QED
      BY <2>1, <2>2 DEF NoFirst, DataFrames
  <1> QED
    BY <1>2, <1>3, <1>4, <1>5, <1>6, <1>7

(* The other connections.                                                  *)
LEMMA FarewellsAside ==
    ASSUME Inv, Farewells, NEW s, Keeps(s),
           stack' = stack \/ stack = <<>> \/ NoFirst',
           s \in goodbye' \ io'.closed => Parts(s)'
    PROVE  Farewells'
  <1>1. PICK src \in Seq(Tokens) : About(s, src)
    BY DEF Keeps
  <1>2. /\ Aside(io, io', s) /\ goodbye' \subseteq goodbye \cup {s}
        /\ goodbye \subseteq Sockets /\ \E c \in Conns : res' = [res EXCEPT ![s] = c]
        /\ res \in [Sockets -> Conns]
    BY <1>1 DEF About, Effect, Inv, Types
  <1> SUFFICES ASSUME NEW t \in goodbye' \ io'.closed, t # s
               PROVE  Parts(t)'
    BY DEF Farewells
  <1>3. t \in goodbye \ io.closed /\ t \in Sockets \ {s}
    BY <1>2 DEF Aside
  <1>4. /\ res'[t] = res[t] /\ io'.raw[t] = io.raw[t]
        /\ io'.corked = t <=> io.corked = t
    BY <1>2, <1>3 DEF Aside
  <1>5. Parts(t)
    BY <1>3 DEF Farewells
  <1>6. stack = <<>> => io.raw[t] # <<>>
    BY <1>3, <1>5, AtRest, SocketAssumption DEF Parts
  <1>7. stack' = stack => (NoFirst' <=> NoFirst)
    BY DEF NoFirst
  <1> QED
    BY <1>4, <1>5, <1>6, <1>7 DEF Parts

(* A step that does nothing to a connection that is to close.              *)
Steady(s) ==
    /\ io'.raw[s] = io.raw[s] /\ goodbye' = goodbye
    /\ io'.corked = io.corked \/ io.corked = Nil
    /\ res'[s].open = res[s].open /\ res'[s].close = res[s].close
    /\ res'[s].pending = res[s].pending

(* Farewells is kept by a step that completes no last response and leaves  *)
(* what is buffered.                                                       *)
LEMMA FarewellsSteady ==
    ASSUME Inv, Farewells, NEW s \in Sockets, Keeps(s), Steady(s),
           stack' = stack \/ stack = <<>> \/ NoFirst'
    PROVE  Farewells'
  <1> SUFFICES ASSUME s \in goodbye' \ io'.closed
               PROVE  Parts(s)'
    BY FarewellsAside
  <1>1. s \in goodbye \ io.closed
    BY DEF Keeps, About, Effect, Aside, Steady
  <1>2. Parts(s)
    BY <1>1 DEF Farewells
  <1>3. stack = <<>> => io.raw[s] # <<>>
    BY <1>2, AtRest, SocketAssumption DEF Parts
  <1>4. stack' = stack => (NoFirst' <=> NoFirst)
    BY DEF NoFirst
  <1> QED
    BY <1>2, <1>3, <1>4, SocketAssumption DEF Parts, Steady

(* A step of a connection whose last response is not complete, and does    *)
(* not become so.                                                          *)
LEMMA FarewellsPending ==
    ASSUME Inv, Farewells, NEW s \in Sockets, Keeps(s), goodbye' = goodbye,
           stack' = stack \/ stack = <<>> \/ NoFirst',
           s \in io'.closed \/ res[s].pending \/ ~res[s].open
    PROVE  Farewells'
  <1> SUFFICES ASSUME s \in goodbye' \ io'.closed
               PROVE  Parts(s)'
    BY FarewellsAside
  <1>1. s \in goodbye \ io.closed
    BY DEF Keeps, About, Effect, Aside
  <1>2. Parts(s)
    BY <1>1 DEF Farewells
  <1> QED
    BY <1>2 DEF Parts

(* A step after which the connection still has something left.             *)
LEMMA FarewellsWait ==
    ASSUME Inv, Farewells, NEW s \in Sockets, Keeps(s), Waits(s), goodbye' = goodbye,
           stack = <<>> \/ NoFirst',
           stack' = <<>> \/ NoFirst',
           res'[s].open = res[s].open /\ res'[s].close = res[s].close,
           res'[s].pending = res[s].pending
    PROVE  Farewells'
  <1> SUFFICES ASSUME s \in goodbye' \ io'.closed
               PROVE  Parts(s)'
    BY FarewellsAside
  <1>1. s \in goodbye \ io.closed
    BY DEF Keeps, About, Effect, Aside
  <1>2. Parts(s)
    BY <1>1 DEF Farewells
  <1>3. NoFirst'
    BY EmptySeq DEF NoFirst
  <1> QED
    BY <1>2, <1>3 DEF Parts, Waits

(* Steps of uSockets and the parser.  A request finds a last response that *)
(* is not complete, or all sent.                                           *)
LEMMA FarewellsArrives ==
    ASSUME "pipeline" \notin Usage, Inv, Intact, Farewells, NEW s \in Sockets, Arrives(s)
    PROVE  s \notin goodbye \ io.closed
  <1> SUFFICES ASSUME s \in goodbye \ io.closed PROVE FALSE
    OBVIOUS
  <1>1. Parts(s) /\ Types
    BY DEF Farewells, Inv
  <1>2. Top.first /\ io.sent[s] = made[s] /\ Atop("data")
    BY DEF Arrives, Parsing
  <1>3. io.raw[s] # <<>>
    <2>1. Len(stack) = 1 /\ stack[1] = Top /\ Top.kind = "data"
      BY <1>2, InParser DEF DataFrames
    <2>2. ~NoFirst
      BY <1>2, <2>1 DEF NoFirst
    <2> QED
      BY <1>1, <2>2 DEF Parts
  <1>4. /\ IOInv(io, Tokens) /\ io.sent[s] \in Seq(Tokens) /\ io.raw[s] \in Seq(Tokens)
        /\ IOType(io, Tokens) /\ io.cork \in Seq(Tokens) /\ Exact(io, s)
        /\ <<>> \in Seq(Tokens) /\ s \in Sockets
    BY <1>1, Components, EmptySeq DEF Types, IOInv, IOSafe
  <1>5. Stream(io, s) = io.sent[s]
    BY <1>2 DEF Intact
  <1> DEFINE a == io.sent[s]
             d == Data(io, s)
             c == IF IsCorked(io, s) THEN io.cork ELSE <<>>
  <1>6. a \in Seq(Tokens) /\ d \in Seq(Tokens) /\ Len(d) > 0 /\ c \in Seq(Tokens)
    <2>1. d \in Seq(Tokens) /\ Len(d) = Length(io, s) /\ Length(io, s) # 0
          /\ Length(io, s) \in 0..Len(io.raw[s]) /\ Len(io.raw[s]) \in Nat
      BY <1>3, <1>4, LengthExact, LenProperties
    <2> HIDE DEF d
    <2> QED
      BY <1>4, <2>1
  <1>7. (a \o d) \o c = a
    BY <1>5 DEF Stream, Pending
  <1> HIDE DEF a, d, c
  <1>8. Len((a \o d) \o c) = (Len(a) + Len(d)) + Len(c)
    BY <1>6, ConcatProperties
  <1> QED
    BY <1>6, <1>7, <1>8, LenProperties

(* By the handlers of a connection: what would begin a new response does   *)
(* not come to one whose last response is complete.                        *)
LEMMA FarewellsHandlers ==
    ASSUME "pipeline" \notin Usage, Inv, Intact, Farewells, NEW s \in Sockets,
           \/ OnOpen(s) \/ OnData(s) \/ RequestRefused(s) \/ OnWritable(s)
           \/ \E close \in BOOLEAN, body \in BodyKinds : Request(s, close, body)
           \/ \E close \in BOOLEAN : RequestUnrouted(s, close)
           \/ \E room \in Rooms : Malformed(s, room)
           \/ OnEnd(s) \/ OnTimeout(s)
    PROVE  Farewells'
  <1>1. Types /\ io.closed \subseteq Sockets
    BY DEF Inv, Types, IOInv, IOSafe, IOType
  <1>2. CASE OnOpen(s)
    <2>1. Keeps(s) /\ stack = <<>> /\ ~res[s].open /\ goodbye' = goodbye
      BY <1>2, OnOpenKeeps DEF OnOpen
    <2> QED
      BY <2>1, FarewellsPending
  <1>3. CASE OnData(s)
    <2>1. Keeps(s) /\ stack = <<>> /\ goodbye' = goodbye /\ res' = res /\ io' = Cork(io, s)
      BY <1>3, OnDataKeeps DEF OnData
    <2>2. io.corked = Nil /\ io'.raw = io.raw
      BY <1>1, <2>1, AtRest, CorkEffect DEF Types
    <2> QED
      BY <2>1, <2>2, FarewellsSteady DEF Steady
  <1>4. CASE Request(s, TRUE, "none") \/ \E close \in BOOLEAN, body \in BodyKinds :
               Request(s, close, body)
    <2>1. Keeps(s) /\ goodbye' = goodbye /\ io' = io /\ Arrives(s) /\ Atop("data")
          /\ \E a, f : stack' = Append(Goto(a), f)
      BY <1>4, RequestKeeps DEF Request, Arrives, Parsing, BodyKinds
    <2>2. stack = <<>> \/ NoFirst'
      BY <2>1, NoFirstAfter DEF Keeps
    <2>3. s \notin goodbye \ io.closed
      BY <2>1, FarewellsArrives
    <2> QED
      BY <2>1, <2>2, <2>3, FarewellsAside
  <1>5. CASE OnWritable(s)
    <2>1. Keeps(s) /\ stack = <<>> /\ goodbye' = goodbye
      BY <1>5, OnWritableKeeps DEF OnWritable
    <2>2. res[s].pending
      BY <1>5 DEF Inv, Outcome, Sound, OnWritable
    <2> QED
      BY <2>1, <2>2, FarewellsPending
  <1>6. CASE RequestRefused(s) \/ \E close \in BOOLEAN : RequestUnrouted(s, close)
    <2>1. Keeps(s) /\ goodbye' = goodbye /\ CloseSocket(s) /\ Atop("data")
          /\ \E a : stack' = Goto(a)
      BY <1>6, RequestRefusedKeeps, RequestUnroutedKeeps
         DEF RequestRefused, RequestUnrouted, Arrives, Parsing
    <2>2. stack = <<>> \/ NoFirst'
      BY <2>1, NoFirstAfter DEF Keeps
    <2>3. s \in io'.closed
      BY <1>1, <2>1, CloseEffect DEF CloseSocket, Types
    <2> QED
      BY <2>1, <2>2, <2>3, FarewellsPending
  <1>7. CASE \E room \in Rooms : Malformed(s, room)
    <2>1. Keeps(s) /\ goodbye' = goodbye /\ Atop("data") /\ \E a : stack' = Goto(a)
      BY <1>7, MalformedKeeps DEF Malformed, Parsing
    <2>2. stack = <<>> \/ NoFirst'
      BY <2>1, NoFirstAfter DEF Keeps
    <2>3. s \in io'.closed
      BY <1>1, <1>7, MalformedEffect, HttpAssumption
    <2> QED
      BY <2>1, <2>2, <2>3, FarewellsPending
  <1>8. CASE OnEnd(s) \/ OnTimeout(s)
    <2>1. Keeps(s) /\ goodbye' = goodbye /\ CloseSocket(s) /\ stack' = stack
      BY <1>8, CloseSocketKeeps DEF OnEnd, OnTimeout
    <2>2. s \in io'.closed
      BY <1>1, <2>1, CloseEffect DEF CloseSocket, Types
    <2> QED
      BY <2>1, <2>2, FarewellsPending
  <1> QED
    BY <1>2, <1>3, <1>4, <1>5, <1>6, <1>7, <1>8

(* Callbacks that only change the timer or the body, and those that come   *)
(* back.                                                                   *)
LEMMA FarewellsCallbacks ==
    ASSUME Inv, Farewells, NEW s \in Sockets,
           \/ \E fin \in BOOLEAN : PieceIgnored(s, fin)
           \/ \E n \in 0..1, fin, heeded \in BOOLEAN : PieceReceived(s, fin, n, heeded)
           \/ (HandlerReturn \/ StreamReturn \/ WritableReturn) /\ s = Top.s
    PROVE  Farewells'
  <1>1. res \in [Sockets -> Conns] /\ res[s] \in Conns
    BY DEF Inv, Types
  <1>2. io' = io /\ goodbye' = goodbye
    BY DEF PieceIgnored, PieceReceived, HandlerReturn, StreamReturn, WritableReturn
  <1>3. Keeps(s)
    BY PieceIgnoredKeeps, PieceReceivedKeeps, HandlerReturnKeeps, StreamReturnKeeps,
       WritableReturnKeeps
  <1>4. /\ res'[s].open = res[s].open /\ res'[s].close = res[s].close
        /\ res'[s].pending = res[s].pending
    <2>1. CASE \E fin \in BOOLEAN : PieceIgnored(s, fin)
      BY <1>1, <2>1 DEF PieceIgnored, Conns
    <2>2. CASE \E n \in 0..1, fin, heeded \in BOOLEAN : PieceReceived(s, fin, n, heeded)
      <3>1. PICK n \in 0..1, fin, heeded \in BOOLEAN : PieceReceived(s, fin, n, heeded)
        BY <2>2
      <3> QED
        BY <1>1, <3>1 DEF PieceReceived, Conns
    <2>3. CASE HandlerReturn /\ s = Top.s
      BY <1>1, <2>3 DEF HandlerReturn, Conns
    <2>4. CASE StreamReturn /\ s = Top.s
      BY <1>1, <2>4 DEF StreamReturn, Conns
    <2>5. CASE WritableReturn
      BY <2>5 DEF WritableReturn
    <2> QED
      BY <2>1, <2>2, <2>3, <2>4, <2>5
  <1>5. stack = <<>> \/ NoFirst'
    <2>1. \/ stack' = Pop
          \/ Atop("data") /\ \E a : stack' = Goto(a)
          \/ Atop("data") /\ \E a, f : stack' = Append(Goto(a), f)
          \/ (Atop("handler") \/ Atop("stream"))
              /\ \E a : stack' = [Pop EXCEPT ![Len(Pop)].at = a]
      BY PieceParsing DEF PieceIgnored, PieceReceived, Parsing, HandlerReturn,
                          StreamReturn, WritableReturn
    <2> QED
      BY <1>3, <2>1, NoFirstAfter DEF Keeps
  <1> QED
    BY <1>2, <1>3, <1>4, <1>5, FarewellsSteady DEF Steady

(* Steps that drain and close.                                             *)
LEMMA FarewellsDrain ==
    ASSUME Inv, Farewells, NEW s \in Sockets, NEW room \in Rooms,
           \/ OnWritableDrain(s, room)
           \/ (DataReturn(room) \/ CorkEnd(room)) /\ s = Top.s
    PROVE  Farewells'
  <1>1. res \in [Sockets -> Conns] /\ res[s] \in Conns
    BY DEF Inv, Types
  <1>2. goodbye' = goodbye
    BY DEF OnWritableDrain, DataReturn, CorkEnd
  <1>3. Keeps(s) /\ (Waits(s) \/ UNCHANGED <<io, res>>)
    BY OnWritableDrainKeeps, DataReturnKeeps, CorkEndKeeps
  <1>4. /\ res'[s].open = res[s].open /\ res'[s].close = res[s].close
        /\ res'[s].pending = res[s].pending
    <2>1. CASE OnWritableDrain(s, room)
      BY <1>1, <2>1 DEF OnWritableDrain, Conns
    <2>2. CASE (DataReturn(room) \/ CorkEnd(room)) /\ s = Top.s
      <3>1. PICK f : UNCHANGED res \/ res' = [res EXCEPT ![s].timer = @ \/ f]
        BY <2>2 DEF DataReturn, CorkEnd
      <3> QED
        BY <1>1, <3>1 DEF Conns
    <2> QED
      BY <2>1, <2>2
  <1>5. (stack = <<>> \/ NoFirst') /\ (stack' = <<>> \/ NoFirst')
    <2>1. CASE OnWritableDrain(s, room)
      BY <2>1 DEF OnWritableDrain
    <2>2. CASE DataReturn(room) \/ CorkEnd(room)
      <3>1. stack' = Pop \/ stack' = <<>>
        BY <2>2 DEF DataReturn, CorkEnd
      <3>2. stack # <<>>
        BY <2>2 DEF DataReturn, CorkEnd, Atop
      <3> QED
        BY <1>3, <3>1, <3>2, NoFirstAfter DEF Keeps
    <2> QED
      BY <2>1, <2>2
  <1> QED
    BY <1>2, <1>3, <1>4, <1>5, FarewellsWait, FarewellsSteady DEF Steady

(* The calls of the application are for a connection with a response that  *)
(* is not complete; the end of one leaves something to send or to uncork.  *)
LEMMA FarewellsEnds ==
    ASSUME Inv, Farewells, NEW s \in Sockets, NEW n \in Bodies, NEW total \in Bodies,
           NEW close \in BOOLEAN, NEW room \in Rooms,
           \/ End(s, n, close, room) \/ EndWithoutBody(s, n, close, room)
           \/ TryEnd(s, n, total, close, room)
    PROVE  Farewells'
  <1>1. PICK m, sum, e :
          /\ ~Atop("data") /\ s \notin io.closed /\ res[s].open /\ res[s].pending
          /\ Ended(s, m, sum, close, e) /\ Conclude(s, e)
    BY EndSteps
  <1>2. Keeps(s) /\ Waits(s)
    BY <1>1, ConcludeKeeps
  <1>3. stack' = stack /\ res' = [res EXCEPT ![s] = e.res] /\ e.res.open = res[s].open
        /\ goodbye' = (IF ~e.res.pending /\ e.res.close THEN goodbye \cup {s} ELSE goodbye)
    BY <1>1 DEF Conclude, Ended, Goes
  <1>4. res'[s] = e.res
    BY <1>3 DEF Inv, Types
  <1>5. s \notin goodbye
    BY <1>1 DEF Farewells, Parts
  <1>6. NoFirst'
    <2> SUFFICES ASSUME Len(stack) > 0, stack[1].kind = "data" PROVE ~stack[1].first
      BY <1>3 DEF NoFirst
    <2>1. Len(stack) # 1
      BY <1>1, EmptySeq DEF Atop
    <2>2. Len(stack) \in Nat
      BY DEF Inv, Types
    <2>3. Len(stack) > 1
      <3> DEFINE k == Len(stack)
      <3>1. k \in Nat /\ k # 1 /\ k > 0
        BY <2>1, <2>2
      <3> HIDE DEF k
      <3>2. k > 1
        BY <3>1
      <3> QED
        BY <3>2 DEF k
    <2> QED
      BY <2>3 DEF Inv, Shape
  <1>7. s \in goodbye' \ io'.closed => Parts(s)'
    BY <1>1, <1>2, <1>3, <1>4, <1>5, <1>6 DEF Parts, Waits
  <1> QED
    BY <1>2, <1>3, <1>7, FarewellsAside

(* By the calls of the application that do not complete a response: they   *)
(* need one that is pending.                                               *)
LEMMA FarewellsCalls ==
    ASSUME Inv, Farewells, NEW s \in Sockets,
           \/ \E room \in Rooms : WriteHeader(s, room) \/ WriteChunk(s, room)
           \/ AttachAborted(s) \/ AttachWritable(s) \/ AttachData(s)
           \/ Pause(s) \/ Resume(s) \/ Close(s) \/ CorkBegin(s)
    PROVE  Farewells'
  <1>1. Keeps(s)
    <2>1. CASE \E room \in Rooms : WriteHeader(s, room) \/ WriteChunk(s, room)
      BY <2>1, WriteHeaderKeeps, WriteChunkKeeps
    <2>2. CASE AttachAborted(s) \/ AttachWritable(s)
      BY <2>2, AttachKeeps
    <2>3. CASE AttachData(s) \/ Pause(s) \/ Resume(s)
      BY <2>3, SettingsKeep
    <2>4. CASE Close(s)
      BY <2>4, CloseSocketKeeps DEF Close
    <2>5. CASE CorkBegin(s)
      BY <2>5, CorkBeginKeeps
    <2> QED
      BY <2>1, <2>2, <2>3, <2>4, <2>5
  <1>2. res[s].pending /\ goodbye' = goodbye
    BY DEF WriteHeader, WriteChunk, AttachAborted, AttachWritable, AttachData,
           Pause, Resume, Close, CorkBegin, Usable
  <1>3. stack' = stack \/ \E f : stack' = Append(stack, f)
    BY DEF WriteHeader, WriteChunk, AttachAborted, AttachWritable, AttachData,
           Pause, Resume, Close, CorkBegin, Push
  <1>4. stack' = stack \/ stack = <<>> \/ NoFirst'
    BY <1>1, <1>3, NoFirstAfter DEF Keeps
  <1> QED
    BY <1>1, <1>2, <1>4, FarewellsPending

(* By every step.                                                          *)
LEMMA NextFarewells ==
    ASSUME "pipeline" \notin Usage, Inv, Intact, Farewells, [Next]_vars
    PROVE  Farewells'
  <1>1. CASE UNCHANGED vars
    BY <1>1 DEF vars, Farewells, Parts, NoFirst
  <1>2. CASE Handlers
    <2>1. CASE \E s \in Sockets :
                 \/ OnOpen(s) \/ OnData(s) \/ RequestRefused(s) \/ OnWritable(s)
                 \/ \E close \in BOOLEAN, body \in BodyKinds : Request(s, close, body)
                 \/ \E close \in BOOLEAN : RequestUnrouted(s, close)
                 \/ \E room \in Rooms : Malformed(s, room)
                 \/ OnEnd(s) \/ OnTimeout(s)
      BY <2>1, FarewellsHandlers
    <2>2. CASE \E s \in Sockets :
                 \/ \E fin \in BOOLEAN : PieceIgnored(s, fin)
                 \/ \E n \in 0..1, fin, heeded \in BOOLEAN : PieceReceived(s, fin, n, heeded)
      BY <2>2, FarewellsCallbacks
    <2>3. CASE HandlerReturn \/ StreamReturn \/ WritableReturn
      <3>1. Top.s \in Sockets
        BY <2>3, HandlerReturnKeeps, StreamReturnKeeps, WritableReturnKeeps DEF Keeps
      <3> QED
        BY <2>3, <3>1, FarewellsCallbacks
    <2>4. CASE \E s \in Sockets, room \in Rooms : OnWritableDrain(s, room)
      BY <2>4, FarewellsDrain
    <2>5. CASE \E room \in Rooms : DataReturn(room)
      BY <2>5, DataReturnKeeps, FarewellsDrain DEF Keeps
    <2> QED
      BY <1>2, <2>1, <2>2, <2>3, <2>4, <2>5 DEF Handlers
  <1>3. CASE Application
    <2>1. CASE \E s \in Sockets :
                 \/ \E room \in Rooms : WriteHeader(s, room) \/ WriteChunk(s, room)
                 \/ AttachAborted(s) \/ AttachWritable(s) \/ AttachData(s)
                 \/ Pause(s) \/ Resume(s) \/ Close(s) \/ CorkBegin(s)
      BY <2>1, FarewellsCalls
    <2>2. CASE \E s \in Sockets, n, total \in Bodies, close \in BOOLEAN, room \in Rooms :
                 \/ End(s, n, close, room) \/ EndWithoutBody(s, n, close, room)
                 \/ TryEnd(s, n, total, close, room)
      BY <2>2, FarewellsEnds
    <2>3. CASE \E room \in Rooms : CorkEnd(room)
      BY <2>3, CorkEndKeeps, FarewellsDrain DEF Keeps
    <2> QED
      BY <1>3, <2>1, <2>2, <2>3 DEF Application
  <1> QED
    BY <1>1, <1>2, <1>3 DEF Next

(* Between events no socket is corked, so what is left is in the           *)
(* backpressure.                                                           *)
LEMMA FarewellsDrained ==
    ASSUME Inv, Farewells
    PROVE  ClosesWhenDrained
  <1> SUFFICES ASSUME stack = <<>>, NEW s \in goodbye, TotalLength(io, s) = 0,
                      s \notin io.closed
               PROVE  FALSE
    BY DEF ClosesWhenDrained
  <1>1. s \in Sockets /\ io.corked = Nil
    BY AtRest DEF Inv, Types
  <1>2. io.raw[s] # <<>> /\ io.raw[s] \in Seq(Tokens)
    BY <1>1, SocketAssumption, Components DEF Farewells, Parts, Inv, Types, IOInv, IOSafe
  <1> QED
    BY <1>2, EmptySeq DEF TotalLength

(* Where peers wait for a response before the next request, a connection   *)
(* whose last response is complete closes as soon as it is drained: in the *)
(* call that ends the response, in the data handler or block that corked   *)
(* it, or in the writable handler.                                         *)
THEOREM LastResponseCloses ==
    ASSUME "pipeline" \notin Usage
    PROVE  Spec /\ [][CorkFits]_vars => []ClosesWhenDrained
  <1>1. Init => Farewells
    BY DEF Init, Farewells
  <1>2. Inv /\ Intact /\ Farewells /\ [Next]_vars => Farewells'
    BY NextFarewells
  <1>3. Inv /\ Farewells => ClosesWhenDrained
    BY FarewellsDrained
  <1> QED
    BY <1>1, <1>2, <1>3, Invariant, IntactHolds, PTL DEF Spec

(* And so of every instance that writes no more than the cork buffer takes *)
(* on a connection, as those of the runs.                                  *)
THEOREM LastResponseClosesBounded ==
    ASSUME "pipeline" \notin Usage, MaxTokens <= CorkSize
    PROVE  Spec => []ClosesWhenDrained
  <1>1. Init => Farewells
    BY DEF Init, Farewells
  <1>2. Inv /\ Intact /\ Farewells /\ [Next]_vars => Farewells'
    BY NextFarewells
  <1>3. Inv /\ Farewells => ClosesWhenDrained
    BY FarewellsDrained
  <1> QED
    BY <1>1, <1>2, <1>3, Invariant, IntactBounded, PTL DEF Spec

-----------------------------------------------------------------------------
(* The handlers that run are those of the request in progress, of a        *)
(* connection that is open, and none waits for a body that is over: where  *)
(* data handlers are attached in the request handler and do not close the  *)
(* connection, and a head with Content-Length: 0 arrives in one piece.     *)

(* The parser has yet to call back with the last piece of a body that is   *)
(* over, or does so now.                                                   *)
Awaits(s) ==
    /\ Len(stack) > 0 /\ stack[1].kind = "data" /\ stack[1].s = s
    /\ IF Len(stack) = 1 THEN stack[1].at = "empty" ELSE stack[2].fin

Waiting(s) ==
    res[s].inStream # 0 =>
        res[s].inStream = request[s] /\ (res[s].body # "none" \/ Awaits(s))

InTurn ==
    /\ DataToOwnHandler
    /\ \A s \in Sockets \ io.closed : Waiting(s)
    /\ Len(stack) = 1 /\ stack[1].kind = "data" /\ stack[1].s \in io.closed =>
         stack[1].at = "stop"
    /\ Len(stack) > 1 =>
         /\ stack[2].kind = "stream" => stack[2].s \notin io.closed
         /\ stack[2].kind = "handler" /\ res[stack[2].s].body = "none" => stack[2].fin
    /\ \A j \in 1..Len(stack) :
         stack[j].kind = "block" /\ InData(stack[j].s) =>
             res[stack[j].s].pending \/ ~res[stack[j].s].close

(* InTurn where no callback of the parser runs.                            *)
LEMMA TurnRest ==
    ASSUME \/ stack' = <<>>
           \/ \E f : stack' = <<f>> /\ f.kind = "writable" /\ f.r = request'[f.s],
           \A t \in Sockets \ io'.closed : Waiting(t)'
    PROVE  InTurn'
  <1>1. CASE stack' = <<>>
    BY <1>1 DEF InTurn, DataToOwnHandler
  <1>2. CASE \E f : stack' = <<f>> /\ f.kind = "writable" /\ f.r = request'[f.s]
    <2>1. PICK f : stack' = <<f>> /\ f.kind = "writable" /\ f.r = request'[f.s]
      BY <1>2
    <2>2. Len(stack') = 1 /\ stack'[1] = f
      BY <2>1
    <2> QED
      BY <2>1, <2>2 DEF InTurn, DataToOwnHandler
  <1> QED
    BY <1>1, <1>2

(* InTurn where the parser runs.                                           *)
LEMMA TurnData ==
    ASSUME NEW d \in DataFrames, stack' = <<d>>, d.s \in io'.closed => d.at = "stop",
           \A t \in Sockets \ io'.closed : Waiting(t)'
    PROVE  InTurn'
  <1>1. Len(stack') = 1 /\ stack'[1] = d /\ d.kind = "data"
    BY DEF DataFrames
  <1> QED
    BY <1>1 DEF InTurn, DataToOwnHandler

(* InTurn where a callback of the parser runs.                             *)
LEMMA TurnCallback ==
    ASSUME NEW d \in DataFrames, NEW f, stack' = <<d, f>>,
           \/ f.kind = "stream" /\ f.r = request'[f.s] /\ f.s \notin io'.closed
           \/ f.kind = "handler" /\ (res'[f.s].body = "none" => f.fin),
           \A t \in Sockets \ io'.closed : Waiting(t)'
    PROVE  InTurn'
  <1>1. Len(stack') = 2 /\ stack'[1] = d /\ stack'[2] = f /\ d.kind = "data"
    BY DEF DataFrames
  <1>2. \A j \in 1..Len(stack') : j = 1 \/ j = 2
    BY <1>1
  <1> QED
    BY <1>1, <1>2 DEF InTurn, DataToOwnHandler

(* A step about s, and another connection.                                 *)
LEMMA WaitingAside ==
    ASSUME Inv, InTurn, NEW s, Keeps(s), NEW t \in Sockets \ io'.closed, t # s,
           Awaits(t) => Awaits(t)'
    PROVE  Waiting(t)'
  <1>1. PICK src \in Seq(Tokens) : About(s, src)
    BY DEF Keeps
  <1>2. /\ io.closed \subseteq io'.closed
        /\ \E c \in Conns : res' = [res EXCEPT ![s] = c]
        /\ \E q \in Nat : request' = [request EXCEPT ![s] = q]
        /\ res \in [Sockets -> Conns] /\ request \in [Sockets -> Nat]
    BY <1>1 DEF About, Effect, Aside, Inv, Types
  <1>3. res'[t] = res[t] /\ request'[t] = request[t] /\ t \notin io.closed
    BY <1>2
  <1>4. Waiting(t)
    BY <1>3 DEF InTurn
  <1> QED
    BY <1>3, <1>4 DEF Waiting

(* No other connection is waited for while the parser or a callback of it  *)
(* runs, or nothing does.                                                  *)
LEMMA AwaitsTop ==
    ASSUME Inv, NEW t, Awaits(t)
    PROVE  /\ stack # <<>> /\ ~Atop("writable")
           /\ Atop("data") => t = Top.s /\ Top.at = "empty"
           /\ Atop("handler") \/ Atop("stream") => t = Top.s /\ Top.fin
  <1>1. Len(stack) > 0 /\ stack[1].kind = "data" /\ stack[1].s = t
    BY DEF Awaits
  <1>2. Atop("data") => t = Top.s /\ Top.at = "empty"
    BY <1>1, InParser DEF Awaits
  <1>3. Atop("handler") \/ Atop("stream") => t = Top.s /\ Top.fin
    BY <1>1, InCallback DEF Awaits
  <1>4. ~Atop("writable")
    <2> SUFFICES ASSUME Atop("writable") PROVE FALSE
      OBVIOUS
    <2>1. Len(stack) \in Nat /\ Len(stack) \in 1..Len(stack)
      BY <1>1 DEF Inv, Types
    <2>2. Len(stack) = 1
      BY <2>1 DEF Inv, Shape, Atop
    <2> QED
      BY <1>1, <2>2 DEF Atop
  <1> QED
    BY <1>1, <1>2, <1>3, <1>4, EmptySeq

(* A step about s changes nothing for the data handlers of others.         *)
LEMMA WaitingRest ==
    ASSUME Inv, InTurn, NEW s, Keeps(s),
           stack = <<>> \/ Atop("writable")
           \/ ((Atop("data") \/ Atop("handler") \/ Atop("stream")) /\ s = Top.s),
           s \notin io'.closed => Waiting(s)'
    PROVE  \A t \in Sockets \ io'.closed : Waiting(t)'
  <1> SUFFICES ASSUME NEW t \in Sockets \ io'.closed, t # s PROVE Waiting(t)'
    OBVIOUS
  <1>1. ~Awaits(t)
    BY AwaitsTop
  <1> QED
    BY <1>1, WaitingAside

(* The parser at work is that of an open connection.                       *)
LEMMA TurnParsing ==
    ASSUME Inv, InTurn, NEW s, NEW at, Parsing(s, at), at # "stop"
    PROVE  /\ Atop("data") /\ s = Top.s /\ Top.at = at /\ Top \in DataFrames
           /\ s \in Sockets /\ s \notin io.closed /\ Waiting(s)
           /\ at # "empty" => ~Awaits(s)
  <1>1. /\ Atop("data") /\ s = Top.s /\ Top.at = at /\ Top \in DataFrames
        /\ Len(stack) = 1 /\ stack[1] = Top /\ Top.kind = "data"
    BY InParser DEF Parsing, DataFrames
  <1>2. s \in Sockets
    BY <1>1 DEF DataFrames
  <1>3. s \notin io.closed
    BY <1>1 DEF InTurn
  <1>4. Awaits(s) => at = "empty"
    BY <1>1, AwaitsTop
  <1> QED
    BY <1>1, <1>2, <1>3, <1>4 DEF InTurn

(* The request callback: no data handler is left, the body of the last     *)
(* request being over.                                                     *)
LEMMA TurnRequest ==
    ASSUME "split" \notin Usage, Inv, InTurn, NEW s \in Sockets,
           NEW close \in BOOLEAN, NEW body \in BodyKinds, Request(s, close, body)
    PROVE  InTurn'
  <1>1. Keeps(s) /\ Parsing(s, "parse") /\ res[s].body = "none" /\ body # "zero"
        /\ res' = [res EXCEPT ![s] = Requested(res[s], close, body)] /\ io' = io
        /\ stack' = Append(Goto("parse"), HandlerFrame(s, body))
    BY RequestKeeps DEF Request, Arrives
  <1>2. /\ Atop("data") /\ s = Top.s /\ Top \in DataFrames
        /\ s \notin io.closed /\ Waiting(s) /\ ~Awaits(s)
    BY <1>1, TurnParsing
  <1>3. res \in [Sockets -> Conns] /\ res[s] \in Conns
    BY DEF Inv, Types
  <1>4. res[s].inStream = 0
    BY <1>1, <1>2 DEF Waiting
  <1> DEFINE c == Requested(res[s], close, body)
             d == [Top EXCEPT !.at = "parse", !.first = FALSE]
             f == HandlerFrame(s, body)
  <1>5. c.inStream = 0 /\ c.body = body
    BY <1>1, <1>3, <1>4 DEF Requested, Conns
  <1>6. d \in DataFrames
    BY <1>2 DEF DataFrames
  <1>7. f.kind = "handler" /\ f.s = s /\ (body = "none" => f.fin)
    BY DEF HandlerFrame
  <1>8. stack' = <<d, f>>
    <2>1. stack' = Append(<<d>>, f)
      BY <1>1, <1>2, InParser
    <2>2. d \in {d, f} /\ f \in {d, f}
      OBVIOUS
    <2> HIDE DEF d, f
    <2> QED
      BY <2>1, <2>2, Pair
  <1> HIDE DEF c, d, f
  <1>9. res'[s] = c
    BY <1>1, <1>3 DEF c
  <1>10. Waiting(s)'
    BY <1>5, <1>9 DEF Waiting
  <1>11. \A t \in Sockets \ io'.closed : Waiting(t)'
    BY <1>1, <1>2, <1>10, WaitingRest
  <1> QED
    BY <1>5, <1>6, <1>7, <1>8, <1>9, <1>11, TurnCallback

(* The parser ends with the connection.                                    *)
LEMMA TurnStop ==
    ASSUME Inv, InTurn, NEW s \in Sockets,
           \/ RequestRefused(s) \/ \E close \in BOOLEAN : RequestUnrouted(s, close)
           \/ \E room \in Rooms : Malformed(s, room)
    PROVE  InTurn'
  <1>1. Types
    BY DEF Inv
  <1>2. Keeps(s) /\ Parsing(s, "parse") /\ stack' = Goto("stop")
    BY RequestRefusedKeeps, RequestUnroutedKeeps, MalformedKeeps
       DEF RequestRefused, RequestUnrouted, Malformed, Arrives
  <1>3. s \in io'.closed
    <2>1. CASE RequestRefused(s) \/ \E close \in BOOLEAN : RequestUnrouted(s, close)
      <3>1. CloseSocket(s)
        BY <2>1 DEF RequestRefused, RequestUnrouted
      <3> QED
        BY <1>1, <3>1, CloseEffect DEF CloseSocket, Types
    <2>2. CASE \E room \in Rooms : Malformed(s, room)
      BY <1>1, <2>2, MalformedEffect, HttpAssumption
    <2> QED
      BY <2>1, <2>2
  <1>4. Atop("data") /\ s = Top.s /\ Top \in DataFrames
    BY <1>2, TurnParsing
  <1> DEFINE d == [Top EXCEPT !.at = "stop", !.first = FALSE]
  <1>5. d \in DataFrames /\ d.at = "stop" /\ stack' = <<d>>
    BY <1>2, <1>4, InParser DEF DataFrames
  <1>6. \A t \in Sockets \ io'.closed : Waiting(t)'
    BY <1>2, <1>3, <1>4, WaitingRest
  <1> HIDE DEF d
  <1> QED
    BY <1>5, <1>6, TurnData

(* The data callback without a data handler.                               *)
LEMMA TurnIgnored ==
    ASSUME Inv, InTurn, NEW s \in Sockets, NEW fin \in BOOLEAN, PieceIgnored(s, fin)
    PROVE  InTurn'
  <1>1. Keeps(s) /\ stack' = Goto(AfterPiece(s, fin)) /\ io' = io
        /\ (res[s].inStream = 0 \/ s \in io.closed)
    BY PieceIgnoredKeeps DEF PieceIgnored
  <1>2. Atop("data") /\ s = Top.s /\ Top \in DataFrames /\ s \notin io.closed
    BY PieceParsing, TurnParsing DEF PieceIgnored
  <1>3. res \in [Sockets -> Conns] /\ res[s] \in Conns
    BY DEF Inv, Types
  <1>4. res'[s].inStream = 0
    BY <1>1, <1>2, <1>3 DEF PieceIgnored, Conns
  <1> DEFINE d == [Top EXCEPT !.at = AfterPiece(s, fin), !.first = FALSE]
  <1>5. d \in DataFrames /\ d.s = s /\ stack' = <<d>>
    <2>1. AfterPiece(s, fin) \in {"out", "parse"}
      BY DEF AfterPiece
    <2> QED
      BY <1>1, <1>2, <2>1, InParser DEF DataFrames
  <1>6. \A t \in Sockets \ io'.closed : Waiting(t)'
    BY <1>1, <1>2, <1>4, WaitingRest DEF Waiting
  <1> HIDE DEF d
  <1> QED
    BY <1>1, <1>2, <1>5, <1>6, TurnData

(* The data callback, up to the data handler.                              *)
LEMMA TurnReceived ==
    ASSUME Inv, InTurn, NEW s \in Sockets, NEW fin \in BOOLEAN, NEW n \in 0..1,
           NEW heeded \in BOOLEAN, PieceReceived(s, fin, n, heeded)
    PROVE  InTurn'
  <1> DEFINE d == [Top EXCEPT !.at = AfterPiece(s, fin), !.first = FALSE]
             f == [kind |-> "stream", s |-> s, r |-> res[s].inStream,
                   fin |-> fin, heeded |-> heeded]
  <1>1. Keeps(s) /\ stack' = Append(Goto(AfterPiece(s, fin)), f) /\ io' = io
        /\ res[s].inStream # 0 /\ request' = request /\ Piece(s, fin, heeded)
    BY PieceReceivedKeeps DEF PieceReceived
  <1>2. Atop("data") /\ s = Top.s /\ Top \in DataFrames /\ s \notin io.closed
        /\ Waiting(s)
    BY <1>1, PieceParsing, TurnParsing
  <1>3. res \in [Sockets -> Conns] /\ res[s] \in Conns
    BY DEF Inv, Types
  <1>4. /\ res'[s].inStream = res[s].inStream
        /\ ~fin => res'[s].body = res[s].body
    BY <1>3 DEF PieceReceived, Conns
  <1>5. res[s].inStream = request[s] /\ (res[s].body # "none" \/ Awaits(s))
    BY <1>1, <1>2 DEF Waiting
  <1>6. fin \/ res[s].body # "none"
    <2>1. Awaits(s) => Top.at = "empty"
      BY <1>2, AwaitsTop
    <2> QED
      BY <1>1, <1>2, <1>5, <2>1 DEF Piece, Parsing
  <1>7. d \in DataFrames /\ d.s = s /\ d.kind = "data"
    <2>1. AfterPiece(s, fin) \in {"out", "parse"}
      BY DEF AfterPiece
    <2> QED
      BY <1>2, <2>1 DEF DataFrames
  <1>8. stack' = <<d, f>>
    <2>1. stack' = Append(<<d>>, f)
      BY <1>1, <1>2, InParser
    <2>2. d \in {d, f} /\ f \in {d, f}
      OBVIOUS
    <2> HIDE DEF d, f
    <2> QED
      BY <2>1, <2>2, Pair
  <1>9. f.kind = "stream" /\ f.s = s /\ f.r = res[s].inStream /\ f.fin = fin
    OBVIOUS
  <1> HIDE DEF d, f
  <1>10. Len(stack') = 2 /\ stack'[1] = d /\ stack'[2] = f
    BY <1>8
  <1>11. Waiting(s)'
    BY <1>1, <1>4, <1>5, <1>6, <1>7, <1>9, <1>10 DEF Waiting, Awaits
  <1>12. \A t \in Sockets \ io'.closed : Waiting(t)'
    BY <1>1, <1>2, <1>11, WaitingRest
  <1> QED
    BY <1>1, <1>2, <1>5, <1>7, <1>8, <1>9, <1>12, TurnCallback

(* The rest of the request callback: after a head without a body the       *)
(* parser owes the empty last piece.                                       *)
LEMMA TurnHandlerReturn ==
    ASSUME Inv, InTurn, HandlerReturn
    PROVE  InTurn'
  <1>0. PICK s \in Sockets : s = Top.s
    BY HandlerReturnKeeps DEF Keeps
  <1> DEFINE next == IF s \in io.closed THEN "stop"
                     ELSE IF Top.fin THEN "empty"
                     ELSE IF res[s].body = "length" THEN "owed" ELSE "parse"
             d == [stack[1] EXCEPT !.at = next]
  <1>1. /\ Keeps(s) /\ Atop("handler") /\ stack[1] \in DataFrames /\ stack[1].s = s
        /\ stack' = <<d>> /\ io' = io /\ request' = request
    BY <1>0, HandlerReturnKeeps, InCallback DEF HandlerReturn
  <1>2. s \in Sockets /\ res \in [Sockets -> Conns] /\ res[s] \in Conns
    BY <1>1 DEF Keeps, Inv, Types
  <1>3. res'[s].inStream = res[s].inStream /\ res'[s].body = res[s].body
    BY <1>0, <1>1, <1>2 DEF HandlerReturn, Conns
  <1>4. d \in DataFrames /\ d.s = s /\ d.at = next /\ d.kind = "data"
    BY <1>1 DEF DataFrames
  <1>5. Len(stack') = 1 /\ stack'[1] = d
    BY <1>1
  <1>6. s \notin io'.closed => Waiting(s)'
    <2> SUFFICES ASSUME s \notin io.closed, res[s].inStream # 0
                 PROVE  res[s].inStream = request[s] /\ (res[s].body # "none" \/ Awaits(s)')
      BY <1>1, <1>3 DEF Waiting
    <2>1. res[s].inStream = request[s] /\ (res[s].body # "none" \/ Awaits(s))
      BY <1>2 DEF InTurn, Waiting
    <2>2. Awaits(s) => Top.fin
      BY <1>0, <1>1, AwaitsTop
    <2>3. Top.fin => d.at = "empty"
      BY <1>4
    <2> HIDE DEF d
    <2> QED
      BY <1>4, <1>5, <2>1, <2>2, <2>3 DEF Awaits
  <1>7. s \in io'.closed => d.at = "stop"
    BY <1>1, <1>4
  <1> HIDE DEF d
  <1>8. \A t \in Sockets \ io'.closed : Waiting(t)'
    BY <1>0, <1>1, <1>6, WaitingRest
  <1> QED
    BY <1>1, <1>4, <1>7, <1>8, TurnData

(* The rest of the data callback: the data handler goes with the last      *)
(* piece.                                                                  *)
LEMMA TurnStreamReturn ==
    ASSUME Inv, InTurn, StreamReturn
    PROVE  InTurn'
  <1>0. PICK s \in Sockets : s = Top.s
    BY StreamReturnKeeps DEF Keeps
  <1>1. /\ Keeps(s) /\ Atop("stream") /\ stack[1] \in DataFrames /\ stack[1].s = s
        /\ io' = io /\ request' = request /\ Len(stack) = 2 /\ Top = stack[2]
        /\ Pop = <<stack[1]>>
    BY <1>0, StreamReturnKeeps, InCallback DEF StreamReturn
  <1>2. s \in Sockets /\ res \in [Sockets -> Conns] /\ res[s] \in Conns
    BY <1>1 DEF Keeps, Inv, Types
  <1>3. s \notin io.closed
    BY <1>0, <1>1 DEF InTurn, Atop
  <1>4. stack' = <<stack[1]>>
    BY <1>0, <1>1, <1>3 DEF StreamReturn
  <1>5. /\ res'[s].body = res[s].body
        /\ res'[s].inStream = IF Top.fin THEN 0 ELSE res[s].inStream
    BY <1>0, <1>2, <1>3 DEF StreamReturn, Conns
  <1>6. Waiting(s)'
    <2>1. Awaits(s) => Top.fin
      BY <1>0, <1>1, AwaitsTop
    <2>2. Waiting(s)
      BY <1>2, <1>3 DEF InTurn
    <2> QED
      BY <1>1, <1>5, <2>1, <2>2 DEF Waiting
  <1>7. \A t \in Sockets \ io'.closed : Waiting(t)'
    BY <1>0, <1>1, <1>6, WaitingRest
  <1> QED
    BY <1>1, <1>3, <1>4, <1>7, TurnData

(* Steps that begin and end with no callback of the parser.                *)
LEMMA TurnEvents ==
    ASSUME Inv, InTurn, NEW s \in Sockets,
           \/ OnOpen(s) \/ OnData(s) \/ OnWritable(s) \/ OnEnd(s) \/ OnTimeout(s)
           \/ \E room \in Rooms : OnWritableDrain(s, room)
           \/ s = Top.s /\ ((\E room \in Rooms : DataReturn(room)) \/ WritableReturn)
    PROVE  InTurn'
  <1>1. res \in [Sockets -> Conns] /\ res[s] \in Conns /\ Types
    BY DEF Inv, Types
  <1>2. Keeps(s)
    BY OnOpenKeeps, OnDataKeeps, OnWritableKeeps, OnWritableDrainKeeps, CloseSocketKeeps,
       DataReturnKeeps, WritableReturnKeeps DEF OnEnd, OnTimeout
  <1>3. /\ request' = request
        /\ stack = <<>> \/ Atop("writable") \/ (Atop("data") /\ s = Top.s)
    BY DEF OnOpen, OnData, OnWritable, OnWritableDrain, OnEnd, OnTimeout, DataReturn,
           WritableReturn
  <1>4. ~Awaits(s)
    <2>1. CASE s = Top.s /\ \E room \in Rooms : DataReturn(room)
      BY <2>1, AwaitsTop DEF DataReturn
    <2>2. CASE ~\E room \in Rooms : DataReturn(room)
      <3>1. stack = <<>> \/ Atop("writable")
        BY <2>2 DEF OnOpen, OnData, OnWritable, OnWritableDrain, OnEnd, OnTimeout,
                    WritableReturn
      <3> QED
        BY <3>1, AwaitsTop
    <2> QED
      BY <2>1, <2>2, <1>3, AwaitsTop
  <1>5. \/ res'[s].inStream = 0
        \/ res'[s].inStream = res[s].inStream /\ res'[s].body = res[s].body
    <2>1. CASE OnOpen(s)
      BY <1>1, <2>1 DEF OnOpen, Fresh
    <2>2. CASE OnData(s) \/ OnEnd(s) \/ OnTimeout(s) \/ WritableReturn
      BY <2>2 DEF OnData, OnEnd, OnTimeout, WritableReturn
    <2>3. CASE OnWritable(s)
      BY <1>1, <2>3 DEF OnWritable, Conns
    <2>4. CASE \E room \in Rooms : OnWritableDrain(s, room)
      BY <1>1, <2>4 DEF OnWritableDrain, Conns
    <2>5. CASE s = Top.s /\ \E room \in Rooms : DataReturn(room)
      <3>1. PICK f : UNCHANGED res \/ res' = [res EXCEPT ![s].timer = @ \/ f]
        BY <2>5 DEF DataReturn
      <3> QED
        BY <1>1, <3>1 DEF Conns
    <2> QED
      BY <2>1, <2>2, <2>3, <2>4, <2>5
  <1>6. s \notin io'.closed => Waiting(s)'
    <2> SUFFICES ASSUME s \notin io'.closed PROVE Waiting(s)'
      OBVIOUS
    <2>1. s \notin io.closed
      BY <1>2 DEF Keeps, About, Effect, Aside
    <2>2. Waiting(s)
      BY <2>1 DEF InTurn
    <2> QED
      BY <1>3, <1>4, <1>5, <2>2 DEF Waiting
  <1>7. \A t \in Sockets \ io'.closed : Waiting(t)'
    BY <1>2, <1>3, <1>6, WaitingRest
  <1>8. CASE OnData(s)
    <2>1. stack' = <<DataFrame(s)>> /\ s \notin io'.closed
      BY <1>8 DEF OnData, Connected, Cork
    <2>2. DataFrame(s) \in DataFrames /\ DataFrame(s).s = s
      BY DEF DataFrame, DataFrames
    <2> QED
      BY <1>7, <2>1, <2>2, TurnData
  <1>9. CASE OnWritable(s)
    <2> DEFINE f == [kind |-> "writable", s |-> s, r |-> res[s].onWritable, fin |-> FALSE]
    <2>1. stack' = <<f>>
      BY <1>9 DEF OnWritable, Push
    <2>2. res[s].onWritable = request[s]
      BY <1>9 DEF OnWritable, Inv, Outcome, Sound
    <2>3. f.kind = "writable" /\ f.s = s /\ f.r = res[s].onWritable
      OBVIOUS
    <2> HIDE DEF f
    <2> QED
      BY <1>3, <1>7, <2>1, <2>2, <2>3, TurnRest
  <1>10. CASE WritableReturn
    <2>1. Len(stack) \in Nat /\ Len(stack) \in 1..Len(stack) /\ stack' = Pop
      BY <1>1, <1>10, EmptySeq DEF WritableReturn, Atop, Types
    <2>2. Len(stack) = 1
      BY <1>10, <2>1 DEF Inv, Shape, Atop, WritableReturn
    <2>3. stack' = SubSeq(stack, 1, 0)
      BY <2>1, <2>2 DEF Pop
    <2>4. stack' = <<>>
      BY <2>3, SubSeqEmpty
    <2> QED
      BY <1>7, <2>4, TurnRest
  <1>11. CASE \/ OnOpen(s) \/ OnEnd(s) \/ OnTimeout(s)
              \/ \E room \in Rooms : OnWritableDrain(s, room) \/ DataReturn(room)
    <2>1. stack' = <<>>
      BY <1>11 DEF OnOpen, OnWritableDrain, OnEnd, OnTimeout, DataReturn
    <2> QED
      BY <1>7, <2>1, TurnRest
  <1> QED
    BY <1>8, <1>9, <1>10, <1>11

(* The stack when the application runs: blocks come and go at the end.     *)
Over(s) ==
    /\ \A j \in 1..Len(stack') :
         \/ j \in 1..Len(stack) /\ stack'[j] = stack[j]
         \/ stack'[j].kind = "block" /\ stack'[j].s = s /\ res'[s].pending
    /\ Len(stack) > 1 /\ stack[1].kind = "data" =>
         Len(stack') > 1 /\ stack'[1] = stack[1] /\ stack'[2] = stack[2]
    /\ Len(stack') = 1 => stack'[1].kind # "data"

(* What the application does to the stack.                                 *)
LEMMA CallStack ==
    ASSUME Inv, ~Atop("data"), NEW s,
           \/ stack' = stack
           \/ \E f : /\ stack' = Append(stack, f) /\ f.kind = "block" /\ f.s = s
                     /\ res'[s].pending
           \/ stack' = Pop /\ Atop("block")
    PROVE  Over(s)
  <1>1. stack \in Seq(Frames) /\ Len(stack) \in Nat /\ Shape
    BY DEF Inv, Types
  <1>2. Len(stack) = 1 => stack[1].kind # "data"
    BY EmptySeq DEF Atop
  <1>3. CASE stack' = stack
    BY <1>2, <1>3 DEF Over
  <1>4. CASE \E f : /\ stack' = Append(stack, f) /\ f.kind = "block" /\ f.s = s
                    /\ res'[s].pending
    <2>1. PICK f : stack' = Append(stack, f) /\ f.kind = "block" /\ f.s = s
                   /\ res'[s].pending
      BY <1>4
    <2>2. /\ Len(stack') = Len(stack) + 1 /\ stack'[Len(stack) + 1] = f
          /\ \A j \in 1..Len(stack) : stack'[j] = stack[j]
      BY <1>1, <2>1
    <2>3. \A j \in 1..Len(stack') : j \in 1..Len(stack) \/ j = Len(stack) + 1
      BY <1>1, <2>2
    <2>4. Len(stack') = 1 => stack'[1] = f
      BY <1>1, <2>2
    <2>5. Len(stack) > 1 => Len(stack') > 1 /\ 1 \in 1..Len(stack) /\ 2 \in 1..Len(stack)
      BY <1>1, <2>2
    <2> QED
      BY <2>1, <2>2, <2>3, <2>4, <2>5 DEF Over
  <1>5. CASE stack' = Pop /\ Atop("block")
    <2> DEFINE n == Len(stack) - 1
    <2>1. Len(stack) > 0 /\ stack[Len(stack)].kind = "block"
      BY <1>1, <1>5, EmptySeq DEF Atop
    <2>2. stack' = SubSeq(stack, 1, n) /\ n \in 0..Len(stack)
      BY <1>1, <1>5, <2>1 DEF Pop
    <2>3. Len(stack) > 1 /\ stack[1].kind = "data" => n > 1
      BY <1>1, <2>1 DEF Shape
    <2>4. n = 1 => stack[1].kind # "data"
      <3>1. n = 1 => Len(stack) = 2
        BY <1>1
      <3>2. Len(stack) = 2 => stack[2].kind = "block" /\ Len(stack) > 1
        BY <2>1
      <3> QED
        BY <1>1, <3>1, <3>2 DEF Shape
    <2> HIDE DEF n
    <2>5. Len(stack') = n
      BY <1>1, <2>2, Cut
    <2>6. \A j \in 1..n : stack'[j] = stack[j] /\ j \in 1..Len(stack)
      BY <1>1, <2>2
    <2>7. (n > 1 => 1 \in 1..n /\ 2 \in 1..n) /\ (n = 1 => 1 \in 1..n)
      BY <2>2
    <2> QED
      BY <2>3, <2>4, <2>5, <2>6, <2>7 DEF Over
  <1> QED
    BY <1>3, <1>4, <1>5

(* A call of the application about s: it does not close the connection in  *)
(* its data handler, nor complete a last response there, and attaches a    *)
(* data handler in the request handler only.                               *)
LEMMA TurnCall ==
    ASSUME Inv, InTurn, NEW s \in Sockets, Keeps(s), ~Atop("data"), Over(s),
           request' = request,
           res'[s].body = res[s].body,
           \/ res'[s].inStream = res[s].inStream
           \/ /\ res'[s].inStream = request[s] /\ Atop("handler") /\ Top.s = s
              /\ stack' = stack,
           io'.closed = io.closed \/ (io'.closed = io.closed \cup {s} /\ ~InData(s)),
           InData(s) => \/ res'[s].pending \/ ~res'[s].close
                        \/ /\ res'[s].pending = res[s].pending
                           /\ res'[s].close = res[s].close
    PROVE  InTurn'
  <1>1. /\ Shape /\ Len(stack) \in Nat /\ Shape' /\ Len(stack') \in Nat
        /\ res \in [Sockets -> Conns] /\ stack \in Seq(Frames)
    BY DEF Keeps, Inv, Types
  <1>2. \A t : Awaits(t) => Awaits(t)'
    <2> SUFFICES ASSUME NEW t, Awaits(t) PROVE Awaits(t)'
      OBVIOUS
    <2>1. Len(stack) > 0 /\ stack[1].kind = "data" /\ stack[1].s = t
      BY DEF Awaits
    <2>2. CASE Len(stack) # 1
      <3>1. Len(stack') > 1 /\ stack'[1] = stack[1] /\ stack'[2] = stack[2]
        <4> DEFINE k == Len(stack)
        <4>1. k \in Nat /\ k # 1 /\ k > 0
          BY <1>1, <2>1, <2>2
        <4> HIDE DEF k
        <4>2. k > 1
          BY <4>1
        <4> QED
          BY <2>1, <4>2 DEF Over, k
      <3>2. stack[2].fin
        BY <2>2 DEF Awaits
      <3>3. Len(stack') > 0 /\ Len(stack') # 1
        BY <1>1, <3>1
      <3>4. stack'[1].kind = "data" /\ stack'[1].s = t /\ stack'[2].fin
        BY <2>1, <3>1, <3>2
      <3> QED
        BY <3>3, <3>4 DEF Awaits
    <2>3. CASE Len(stack) = 1
      <3>1. stack # <<>>
        <4>1. stack = <<>> => Len(stack) = 0
          OBVIOUS
        <4> QED
          BY <2>3, <4>1
      <3>2. stack[Len(stack)].kind = "data"
        BY <2>1, <2>3
      <3> QED
        BY <3>1, <3>2 DEF Atop
    <2> QED
      BY <2>2, <2>3
  <1>3. \A t : InData(t)' => InData(t)
    BY DEF Over, InData
  <1>4. \A t \in Sockets \ {s} : res'[t] = res[t]
    BY <1>1 DEF Keeps, About
  <1>5. DataToOwnHandler'
    BY DEF Over, InTurn, DataToOwnHandler
  <1>6. \A t \in Sockets \ io'.closed : Waiting(t)'
    <2> SUFFICES ASSUME NEW t \in Sockets \ io'.closed PROVE Waiting(t)'
      OBVIOUS
    <2>1. CASE t # s
      BY <1>2, <2>1, WaitingAside
    <2>2. CASE t = s
      <3>1. Waiting(s)
        BY <2>2 DEF InTurn
      <3>2. CASE res'[s].inStream = res[s].inStream
        BY <1>2, <2>2, <3>1, <3>2 DEF Waiting
      <3>3. CASE res'[s].inStream = request[s] /\ Atop("handler") /\ Top.s = s
        <4>1. Len(stack) = 2 /\ stack[1].kind = "data" /\ stack[1].s = s /\ Top = stack[2]
          BY <3>3, InCallback DEF DataFrames
        <4>2. stack[2].kind = "handler" /\ stack[2].s = s
          BY <3>3, <4>1 DEF Atop
        <4>3. res[s].body = "none" => stack[2].fin
          BY <4>1, <4>2 DEF InTurn
        <4>4. stack[2].fin => Awaits(s)
          BY <4>1 DEF Awaits
        <4> QED
          BY <1>2, <2>2, <3>3, <4>3, <4>4 DEF Waiting
      <3> QED
        BY <3>2, <3>3
    <2> QED
      BY <2>1, <2>2
  <1>7. Len(stack') = 1 => stack'[1].kind # "data"
    BY DEF Over
  <1>8. ASSUME Len(stack') > 1, stack'[2].kind \in {"stream", "handler"}
        PROVE  /\ stack'[2] = stack[2] /\ Len(stack) > 1
               /\ stack'[2].kind = "stream" => stack'[2].s \notin io'.closed
               /\ stack'[2].kind = "handler" /\ res'[stack'[2].s].body = "none" =>
                    stack'[2].fin
    <2>1. 2 \in 1..Len(stack')
      BY <1>1, <1>8
    <2>2. 2 \in 1..Len(stack) /\ stack'[2] = stack[2]
      BY <1>8, <2>1 DEF Over
    <2>3. Len(stack) > 1
      BY <1>1, <2>2
    <2>4. stack[2].kind = "stream" => stack[2].s \notin io.closed /\ InData(stack[2].s)
      BY <2>2, <2>3 DEF InTurn, InData
    <2>5. stack[2] \in Frames
      BY <1>1, <2>2, ElementOfSeq
    <2>6. stack[2].s \in Sockets
      BY <2>5 DEF Frames, DataFrames, StreamFrames, CallFrames
    <2>7. res'[stack[2].s].body = res[stack[2].s].body
      BY <1>4, <2>6
    <2>8. stack[2].kind = "handler" /\ res[stack[2].s].body = "none" => stack[2].fin
      BY <2>3 DEF InTurn
    <2> QED
      BY <2>2, <2>3, <2>4, <2>7, <2>8
  <1>9. ASSUME NEW j \in 1..Len(stack'), stack'[j].kind = "block", InData(stack[j].s)'
        PROVE  res'[stack'[j].s].pending \/ ~res'[stack'[j].s].close
    <2>1. CASE stack'[j].s = s /\ res'[s].pending
      BY <2>1
    <2>2. CASE j \in 1..Len(stack) /\ stack'[j] = stack[j]
      <3>1. InData(stack[j].s)
        BY <1>9, <2>2 DEF Over, InData
      <3>2. res[stack[j].s].pending \/ ~res[stack[j].s].close
        BY <1>9, <2>2, <3>1 DEF InTurn
      <3>3. stack[j].s \in Sockets
        <4>1. stack[j] \in Frames
          BY <1>1, <2>2, ElementOfSeq
        <4> QED
          BY <4>1 DEF Frames, DataFrames, StreamFrames, CallFrames
      <3> QED
        BY <1>4, <2>2, <3>1, <3>2, <3>3
    <2> QED
      BY <1>9, <2>1, <2>2 DEF Over
  <1> QED
    BY <1>5, <1>6, <1>7, <1>8, <1>9 DEF InTurn

(* The calls of the application that do not complete a response.           *)
LEMMA TurnCalls ==
    ASSUME Usage \cap {"late", "closing"} = {}, Inv, InTurn, NEW s \in Sockets,
           \/ \E room \in Rooms : WriteHeader(s, room) \/ WriteChunk(s, room)
           \/ AttachAborted(s) \/ AttachWritable(s) \/ AttachData(s)
           \/ Pause(s) \/ Resume(s) \/ Close(s) \/ CorkBegin(s)
    PROVE  InTurn'
  <1>1. res \in [Sockets -> Conns] /\ res[s] \in Conns /\ Types
    BY DEF Inv, Types
  <1>2. Keeps(s)
    <2>1. CASE \E room \in Rooms : WriteHeader(s, room) \/ WriteChunk(s, room)
      BY <2>1, WriteHeaderKeeps, WriteChunkKeeps
    <2>2. CASE AttachAborted(s) \/ AttachWritable(s)
      BY <2>2, AttachKeeps
    <2>3. CASE AttachData(s) \/ Pause(s) \/ Resume(s)
      BY <2>3, SettingsKeep
    <2>4. CASE Close(s)
      BY <2>4, CloseSocketKeeps DEF Close
    <2>5. CASE CorkBegin(s)
      BY <2>5, CorkBeginKeeps
    <2> QED
      BY <2>1, <2>2, <2>3, <2>4, <2>5
  <1>3. ~Atop("data") /\ res[s].pending /\ request' = request
    BY DEF WriteHeader, WriteChunk, AttachAborted, AttachWritable, AttachData,
           Pause, Resume, Close, CorkBegin, Usable
  <1>4. /\ res'[s].body = res[s].body /\ res'[s].pending
        /\ \/ res'[s].inStream = res[s].inStream
           \/ /\ res'[s].inStream = request[s] /\ Atop("handler") /\ Top.s = s
              /\ stack' = stack
    <2>1. CASE \E room \in Rooms : WriteHeader(s, room)
      BY <1>1, <1>3, <2>1 DEF WriteHeader, Conns
    <2>2. CASE \E room \in Rooms : WriteChunk(s, room)
      <3>1. PICK f : res' = [res EXCEPT ![s].status = TRUE, ![s].chunked = TRUE,
                                        ![s].timer = @ \/ f]
        BY <2>2 DEF WriteChunk
      <3> QED
        BY <1>1, <1>3, <3>1 DEF Conns
    <2>3. CASE AttachAborted(s)
      BY <1>1, <1>3, <2>3 DEF AttachAborted, Conns
    <2>4. CASE AttachWritable(s)
      BY <1>1, <1>3, <2>4 DEF AttachWritable, Conns
    <2>5. CASE AttachData(s)
      BY <1>1, <1>3, <2>5 DEF AttachData, Conns
    <2>6. CASE Pause(s)
      BY <1>1, <1>3, <2>6 DEF Pause, Conns
    <2>7. CASE Resume(s)
      BY <1>1, <1>3, <2>7 DEF Resume, Conns
    <2>8. CASE Close(s) \/ CorkBegin(s)
      BY <1>3, <2>8 DEF Close, CorkBegin
    <2> QED
      BY <2>1, <2>2, <2>3, <2>4, <2>5, <2>6, <2>7, <2>8
  <1>5. io'.closed = io.closed \/ (io'.closed = io.closed \cup {s} /\ ~InData(s))
    <2>1. CASE Close(s)
      BY <1>1, <2>1, CloseEffect DEF Close, CloseSocket, Types
    <2>2. CASE CorkBegin(s)
      BY <2>2 DEF CorkBegin, Cork
    <2>3. CASE \E room \in Rooms : WriteHeader(s, room) \/ WriteChunk(s, room)
      BY <2>3, WriteHeaderKeeps, WriteChunkKeeps
    <2>4. CASE \/ AttachAborted(s) \/ AttachWritable(s) \/ AttachData(s)
               \/ Pause(s) \/ Resume(s)
      BY <2>4 DEF AttachAborted, AttachWritable, AttachData, Pause, Resume
    <2> QED
      BY <2>1, <2>2, <2>3, <2>4
  <1>6. Over(s)
    <2>1. \/ stack' = stack
          \/ \E f : stack' = Append(stack, f) /\ f.kind = "block" /\ f.s = s
      <3>1. CASE CorkBegin(s)
        <4> DEFINE corks == ~IsCorked(io, s) /\ CanCork(io)
                   f == [kind |-> "block", s |-> s, r |-> 0, fin |-> corks]
        <4>1. stack' = Append(stack, f)
          BY <3>1 DEF CorkBegin, Push
        <4>2. f.kind = "block" /\ f.s = s
          OBVIOUS
        <4> HIDE DEF f
        <4> QED
          BY <4>1, <4>2
      <3>2. CASE ~CorkBegin(s)
        BY <3>2 DEF WriteHeader, WriteChunk, AttachAborted, AttachWritable, AttachData,
                    Pause, Resume, Close
      <3> QED
        BY <3>1, <3>2
    <2> QED
      BY <1>3, <1>4, <2>1, CallStack
  <1> QED
    BY <1>2, <1>3, <1>4, <1>5, <1>6, TurnCall

(* end(), endWithoutBody() and tryEnd(): a last response is not completed  *)
(* in a data handler.                                                      *)
LEMMA TurnEnds ==
    ASSUME Usage \cap {"late", "closing"} = {}, Inv, InTurn, NEW s \in Sockets,
           NEW n \in Bodies, NEW total \in Bodies,
           NEW close \in BOOLEAN, NEW room \in Rooms,
           \/ End(s, n, close, room) \/ EndWithoutBody(s, n, close, room)
           \/ TryEnd(s, n, total, close, room)
    PROVE  InTurn'
  <1>1. PICK m, sum, e :
          /\ ~Atop("data") /\ s \notin io.closed /\ res[s].open /\ res[s].pending
          /\ Ended(s, m, sum, close, e) /\ Conclude(s, e)
    BY EndSteps
  <1>2. Keeps(s)
    BY <1>1, ConcludeKeeps
  <1>3. InData(s) => ~close /\ ~res[s].close
    BY DEF End, EndWithoutBody, TryEnd, EndAllowed
  <1>4. /\ stack' = stack /\ request' = request /\ res' = [res EXCEPT ![s] = e.res]
        /\ e.res.body = res[s].body /\ e.res.inStream = res[s].inStream
        /\ e.res.close = (res[s].close \/ close)
    BY <1>1 DEF Conclude, Ended, Goes
  <1>5. res'[s] = e.res
    BY <1>4 DEF Inv, Types
  <1>6. io'.closed = io.closed \/ (io'.closed = io.closed \cup {s} /\ ~InData(s))
    <2>1. Call(io, e.io, s) /\ e.io.closed = io.closed
      BY <1>1, CallAside DEF Ended
    <2>2. CASE io' = e.io
      BY <2>1, <2>2
    <2>3. CASE io' = CloseIfLast(e.io, e.res, s)
      <3>1. Last(e.io, e.res, s, io')
        BY <2>1, <2>3, LastKeeps DEF Call
      <3> QED
        BY <1>3, <1>4, <2>1, <3>1 DEF Last, Closes
    <2> QED
      BY <1>1, <2>2, <2>3 DEF Conclude
  <1>7. Over(s)
    BY <1>1, <1>4, CallStack
  <1> QED
    BY <1>1, <1>2, <1>3, <1>4, <1>5, <1>6, <1>7, TurnCall

(* The rest of cork(): it does not close after a last response in a data   *)
(* handler either.                                                         *)
LEMMA TurnCorkEnd ==
    ASSUME Inv, InTurn, NEW room \in Rooms, CorkEnd(room)
    PROVE  InTurn'
  <1>1. PICK s \in Sockets : s = Top.s
    BY CorkEndKeeps DEF Keeps
  <1>2. /\ Keeps(s) /\ Atop("block") /\ stack' = Pop /\ request' = request
        /\ res \in [Sockets -> Conns] /\ res[s] \in Conns /\ Types
        /\ ~Atop("data")
    BY <1>1, CorkEndKeeps DEF CorkEnd, Inv, Types, Atop
  <1>3. /\ res'[s].body = res[s].body /\ res'[s].inStream = res[s].inStream
        /\ res'[s].pending = res[s].pending /\ res'[s].close = res[s].close
    <2>1. PICK f : UNCHANGED res \/ res' = [res EXCEPT ![s].timer = @ \/ f]
      BY <1>1 DEF CorkEnd
    <2> QED
      BY <1>2, <2>1 DEF Conns
  <1>4. io'.closed = io.closed
        \/ (io'.closed = io.closed \cup {s} /\ res[s].close /\ ~res[s].pending)
    <2> DEFINE r == Uncork(io, s, <<>>, room, FALSE)
    <2>1. CASE UNCHANGED io
      BY <2>1
    <2>2. CASE ~UNCHANGED io
      <3>1. Top.fin /\ io.corked # Nil
        BY <2>2 DEF CorkEnd, CanCork
      <3>2. io.corked = s
        BY <1>1, <1>2, <3>1, BlockOwns
      <3>3. io' = CloseIfLast(r.io, res[s], s)
        BY <1>1, <3>1, <3>2 DEF CorkEnd, CanCork, IsCorked
      <3>4. Freed(io, s, r)
        BY <1>2, FreedKeeps, HttpAssumption DEF Types
      <3> HIDE DEF r
      <3>5. Call(io, r.io, s) /\ r.io.closed = io.closed
        BY <3>4, CallAside DEF Freed
      <3>6. Last(r.io, res[s], s, io')
        BY <3>3, <3>5, LastKeeps DEF Call
      <3> QED
        BY <3>5, <3>6 DEF Last, Closes
    <2> QED
      BY <2>1, <2>2
  <1>5. InData(s) => res[s].pending \/ ~res[s].close
    <2>1. Len(stack) \in 1..Len(stack)
      BY <1>2, EmptySeq DEF Atop, Types
    <2> QED
      BY <1>1, <1>2, <2>1 DEF InTurn, Atop, Top
  <1>6. Over(s)
    BY <1>2, CallStack
  <1> QED
    BY <1>2, <1>3, <1>4, <1>5, <1>6, TurnCall

(* Every step of the handlers and of the application keeps the turns.      *)
LEMMA NextInTurn ==
    ASSUME Usage \cap {"late", "split", "closing"} = {}, Inv, InTurn, [Next]_vars
    PROVE  InTurn'
  <1>1. CASE UNCHANGED vars
    BY <1>1 DEF vars, InTurn, DataToOwnHandler, Waiting, Awaits, InData
  <1>2. CASE Handlers
    <2>1. CASE \E s \in Sockets, close \in BOOLEAN, body \in BodyKinds :
                 Request(s, close, body)
      BY <2>1, TurnRequest
    <2>2. CASE \E s \in Sockets :
                 \/ RequestRefused(s) \/ \E close \in BOOLEAN : RequestUnrouted(s, close)
                 \/ \E room \in Rooms : Malformed(s, room)
      BY <2>2, TurnStop
    <2>3. CASE \E s \in Sockets, fin \in BOOLEAN : PieceIgnored(s, fin)
      BY <2>3, TurnIgnored
    <2>4. CASE \E s \in Sockets, n \in 0..1, fin, heeded \in BOOLEAN :
                 PieceReceived(s, fin, n, heeded)
      BY <2>4, TurnReceived
    <2>5. CASE HandlerReturn
      BY <2>5, TurnHandlerReturn
    <2>6. CASE StreamReturn
      BY <2>6, TurnStreamReturn
    <2>7. CASE \E s \in Sockets :
                 \/ OnOpen(s) \/ OnData(s) \/ OnWritable(s) \/ OnEnd(s) \/ OnTimeout(s)
                 \/ \E room \in Rooms : OnWritableDrain(s, room)
      BY <2>7, TurnEvents
    <2>8. CASE (\E room \in Rooms : DataReturn(room)) \/ WritableReturn
      <3>1. PICK s \in Sockets : s = Top.s
        BY <2>8, DataReturnKeeps, WritableReturnKeeps DEF Keeps
      <3> QED
        BY <2>8, <3>1, TurnEvents
    <2> QED
      BY <1>2, <2>1, <2>2, <2>3, <2>4, <2>5, <2>6, <2>7, <2>8 DEF Handlers
  <1>3. CASE Application
    <2>1. CASE \E s \in Sockets :
                 \/ \E room \in Rooms : WriteHeader(s, room) \/ WriteChunk(s, room)
                 \/ AttachAborted(s) \/ AttachWritable(s) \/ AttachData(s)
                 \/ Pause(s) \/ Resume(s) \/ Close(s) \/ CorkBegin(s)
      BY <2>1, TurnCalls
    <2>2. CASE \E s \in Sockets, n, total \in Bodies, close \in BOOLEAN, room \in Rooms :
                 \/ End(s, n, close, room) \/ EndWithoutBody(s, n, close, room)
                 \/ TryEnd(s, n, total, close, room)
      BY <2>2, TurnEnds
    <2>3. CASE \E room \in Rooms : CorkEnd(room)
      BY <2>3, TurnCorkEnd
    <2> QED
      BY <1>3, <2>1, <2>2, <2>3 DEF Application
  <1> QED
    BY <1>1, <1>2, <1>3 DEF Next

(* No connection is open at first.                                        *)
LEMMA TurnInit ==
    ASSUME Init
    PROVE  InTurn
  <1>1. \A s \in Sockets : res[s].inStream = 0
    BY DEF Init, Fresh
  <1> QED
    BY <1>1 DEF Init, InTurn, Waiting, DataToOwnHandler

(* The invariant of this section holds of every behaviour.                 *)
LEMMA InTurnHolds ==
    ASSUME Usage \cap {"late", "split", "closing"} = {}
    PROVE  Spec => []InTurn
  <1>1. Inv /\ InTurn /\ [Next]_vars => InTurn'
    BY NextInTurn
  <1> QED
    BY <1>1, TurnInit, Invariant, PTL DEF Spec

(* The data and writable handlers that run are those of the request in     *)
(* progress, and none is left behind when its body is over: the data       *)
(* handler is reset with the last piece of the body, also of an empty one. *)
THEOREM HandlersKeepTurn ==
    ASSUME Usage \cap {"late", "split", "closing"} = {}
    PROVE  Spec => []HandlersInTurn
  <1>1. Inv /\ InTurn => HandlersInTurn
    <2> SUFFICES ASSUME InTurn PROVE NoHandlerForgotten
      BY DEF InTurn, HandlersInTurn
    <2> QED
      BY EmptySeq DEF InTurn, Waiting, Awaits, NoHandlerForgotten, Connected
  <1> QED
    BY <1>1, Invariant, InTurnHolds, PTL

(* The callbacks that go up on the stack are the parser's, of the          *)
(* connection it parses for; nothing else runs a handler of the            *)
(* application that handles requests or their bodies.                      *)
LEMMA PushesOpen ==
    ASSUME Inv, InTurn, Next, Len(stack') > Len(stack),
           stack'[Len(stack')].kind \in {"handler", "stream"}
    PROVE  stack'[Len(stack')].s \notin io.closed
  <1>1. stack \in Seq(Frames) /\ Len(stack) \in Nat
    BY DEF Inv, Types
  <1>2. CASE \E s \in Sockets, close \in BOOLEAN, body \in BodyKinds :
               Request(s, close, body)
    <2>1. PICK s \in Sockets, close \in BOOLEAN, body \in BodyKinds :
                 Request(s, close, body)
      BY <1>2
    <2> DEFINE f == HandlerFrame(s, body)
               d == [Top EXCEPT !.at = "parse", !.first = FALSE]
    <2>2. Parsing(s, "parse") /\ stack' = Append(Goto("parse"), f)
      BY <2>1 DEF Request, Arrives
    <2>3. Atop("data") /\ s \notin io.closed
      BY <2>2, TurnParsing
    <2>4. stack' = Append(<<d>>, f)
      BY <2>2, <2>3, InParser
    <2>5. f.s = s
      BY DEF HandlerFrame
    <2> HIDE DEF d, f
    <2>6. stack'[Len(stack')] = f
      BY <2>4
    <2> QED
      BY <2>3, <2>5, <2>6
  <1>3. CASE \E s \in Sockets, n \in 0..1, fin, heeded \in BOOLEAN :
               PieceReceived(s, fin, n, heeded)
    <2>1. PICK s \in Sockets, n \in 0..1, fin \in BOOLEAN, heeded \in BOOLEAN :
                 PieceReceived(s, fin, n, heeded)
      BY <1>3
    <2> DEFINE f == [kind |-> "stream", s |-> s, r |-> res[s].inStream,
                     fin |-> fin, heeded |-> heeded]
               d == [Top EXCEPT !.at = AfterPiece(s, fin), !.first = FALSE]
    <2>2. Piece(s, fin, heeded) /\ stack' = Append(Goto(AfterPiece(s, fin)), f)
      BY <2>1 DEF PieceReceived
    <2>3. Atop("data") /\ s \notin io.closed
      BY <2>2, PieceParsing, TurnParsing
    <2>4. stack' = Append(<<d>>, f)
      BY <2>2, <2>3, InParser
    <2>5. f.s = s
      OBVIOUS
    <2> HIDE DEF d, f
    <2>6. stack'[Len(stack')] = f
      BY <2>4
    <2> QED
      BY <2>3, <2>5, <2>6
  <1>4. CASE \E a : Atop("data") /\ stack' = Goto(a)
    <2>1. PICK a : Atop("data") /\ stack' = Goto(a)
      BY <1>4
    <2> DEFINE d == [Top EXCEPT !.at = a, !.first = FALSE]
    <2>2. stack' = <<d>> /\ Len(stack) = 1
      BY <2>1, InParser
    <2> HIDE DEF d
    <2>3. Len(stack') = 1
      BY <2>2
    <2> QED
      BY <2>2, <2>3
  <1>5. CASE HandlerReturn \/ StreamReturn
    <2>1. \E a : stack' = Pop \/ stack' = [Pop EXCEPT ![Len(Pop)].at = a]
      BY <1>5 DEF HandlerReturn, StreamReturn
    <2>2. \E d : stack' = <<d>>
      BY <1>5, <2>1, InCallback DEF HandlerReturn, StreamReturn
    <2>3. Len(stack) = 2
      BY <1>5, InCallback DEF HandlerReturn, StreamReturn
    <2>4. Len(stack') = 1
      BY <2>2
    <2> QED
      BY <2>3, <2>4
  <1>6. CASE \E f : /\ f.kind \in {"data", "writable", "block"}
                    /\ stack' = <<f>> \/ stack' = Append(stack, f)
    <2>1. PICK f : /\ f.kind \in {"data", "writable", "block"}
                   /\ stack' = <<f>> \/ stack' = Append(stack, f)
      BY <1>6
    <2>2. stack'[Len(stack')] = f
      BY <1>1, <2>1
    <2> QED
      BY <2>1, <2>2
  <1>7. CASE stack' = stack \/ stack' = <<>>
    <2>1. Len(stack') = Len(stack) \/ Len(stack') = 0
      BY <1>7
    <2> QED
      BY <1>1, <2>1
  <1>8. CASE stack # <<>> /\ stack' = Pop
    <2> DEFINE n == Len(stack) - 1
    <2>1. n \in 0..Len(stack) /\ stack' = SubSeq(stack, 1, n)
      BY <1>1, <1>8, EmptySeq DEF Pop
    <2>2. n < Len(stack)
      BY <1>1
    <2> HIDE DEF n
    <2>3. Len(stack') = n
      BY <1>1, <2>1, Cut
    <2> QED
      BY <1>1, <2>1, <2>2, <2>3
  <1>9. CASE Handlers
    <2>1. CASE \E s \in Sockets :
                 \/ RequestRefused(s) \/ \E close \in BOOLEAN : RequestUnrouted(s, close)
                 \/ \E room \in Rooms : Malformed(s, room)
      <3>1. \E s \in Sockets : Parsing(s, "parse") /\ stack' = Goto("stop")
        BY <2>1 DEF RequestRefused, RequestUnrouted, Malformed, Arrives
      <3>2. \E a : Atop("data") /\ stack' = Goto(a)
        BY <3>1 DEF Parsing
      <3> QED
        BY <1>4, <3>2
    <2>2. CASE \E s \in Sockets, fin \in BOOLEAN : PieceIgnored(s, fin)
      <3>1. PICK s \in Sockets, fin \in BOOLEAN :
                   /\ \E heeded \in BOOLEAN : Piece(s, fin, heeded)
                   /\ stack' = Goto(AfterPiece(s, fin))
        BY <2>2 DEF PieceIgnored
      <3>2. Atop("data")
        BY <3>1 DEF Piece, Parsing
      <3>3. \E a : Atop("data") /\ stack' = Goto(a)
        BY <3>1, <3>2
      <3> QED
        BY <1>4, <3>3
    <2>3. CASE \E s \in Sockets : OnData(s)
      <3>1. PICK s \in Sockets : stack' = <<DataFrame(s)>>
        BY <2>3 DEF OnData
      <3>2. DataFrame(s).kind = "data"
        BY DEF DataFrame
      <3> QED
        BY <1>6, <3>1, <3>2
    <2>4. CASE \E s \in Sockets : OnWritable(s)
      <3>1. PICK s \in Sockets : stack = <<>> /\ stack' = Push("writable", s, res[s].onWritable, FALSE)
        BY <2>4 DEF OnWritable
      <3> DEFINE f == [kind |-> "writable", s |-> s, r |-> res[s].onWritable, fin |-> FALSE]
      <3>2. stack' = Append(stack, f) /\ f.kind = "writable"
        BY <3>1 DEF Push
      <3> HIDE DEF f
      <3> QED
        BY <1>6, <3>2
    <2>5. CASE WritableReturn
      BY <1>8, <2>5 DEF WritableReturn, Atop
    <2>6. CASE \/ \E s \in Sockets : OnOpen(s) \/ OnEnd(s) \/ OnTimeout(s)
               \/ \E s \in Sockets, room \in Rooms : OnWritableDrain(s, room)
               \/ \E room \in Rooms : DataReturn(room)
      BY <1>7, <2>6 DEF OnOpen, OnEnd, OnTimeout, OnWritableDrain, DataReturn
    <2> QED
      BY <1>2, <1>3, <1>5, <1>9, <2>1, <2>2, <2>3, <2>4, <2>5, <2>6 DEF Handlers
  <1>10. CASE Application
    <2>1. CASE \E s \in Sockets : CorkBegin(s)
      <3>1. PICK s \in Sockets : CorkBegin(s)
        BY <2>1
      <3> DEFINE corks == ~IsCorked(io, s) /\ CanCork(io)
                 f == [kind |-> "block", s |-> s, r |-> 0, fin |-> corks]
      <3>2. stack' = Append(stack, f) /\ f.kind = "block"
        BY <3>1 DEF CorkBegin, Push
      <3> HIDE DEF f
      <3> QED
        BY <1>6, <3>2
    <2>2. CASE \E room \in Rooms : CorkEnd(room)
      BY <1>8, <2>2 DEF CorkEnd, Atop
    <2>3. CASE \E s \in Sockets, n, total \in Bodies, close \in BOOLEAN, room \in Rooms :
                 \/ End(s, n, close, room) \/ EndWithoutBody(s, n, close, room)
                 \/ TryEnd(s, n, total, close, room)
      <3>1. stack' = stack
        BY <2>3, EndSteps DEF Conclude
      <3> QED
        BY <1>7, <3>1
    <2>4. CASE \E s \in Sockets :
                 \/ \E room \in Rooms : WriteHeader(s, room) \/ WriteChunk(s, room)
                 \/ AttachAborted(s) \/ AttachWritable(s) \/ AttachData(s)
                 \/ Pause(s) \/ Resume(s) \/ Close(s)
      <3>1. stack' = stack
        BY <2>4 DEF WriteHeader, WriteChunk, AttachAborted, AttachWritable, AttachData,
                    Pause, Resume, Close
      <3> QED
        BY <1>7, <3>1
    <2> QED
      BY <1>10, <2>1, <2>2, <2>3, <2>4 DEF Application
  <1> QED
    BY <1>9, <1>10 DEF Next

(* The parser calls back no handler of the application for a connection    *)
(* that was closed in an earlier callback, whatever closed it.             *)
THEOREM NothingFollowsClose ==
    ASSUME Usage \cap {"late", "split", "closing"} = {}
    PROVE  Spec => NothingAfterClose
  <1>1. Inv /\ InTurn /\ [Next]_vars =>
          [Len(stack') > Len(stack) /\ stack'[Len(stack')].kind \in {"handler", "stream"}
             => stack'[Len(stack')].s \notin io.closed]_vars
    <2> SUFFICES ASSUME Inv, InTurn, Next, Len(stack') > Len(stack),
                        stack'[Len(stack')].kind \in {"handler", "stream"}
                 PROVE  stack'[Len(stack')].s \notin io.closed
      OBVIOUS
    <2> QED
      BY PushesOpen
  <1> QED
    BY <1>1, Invariant, InTurnHolds, PTL DEF Spec, NothingAfterClose

-----------------------------------------------------------------------------
(* The responses of a connection come one after the other, and each is     *)
(* whole when it is complete, where an application that asks to close does *)
(* so before the head of the response is written: a later                  *)
(* "Connection: close" would go into the body.                             *)

(* What is made of the response in progress: its status and headers, or    *)
(* chunks behind its head, or part of a body whose length was announced.   *)
Starts(m, r, first) ==
    first \in DOMAIN m /\ Own(m, r) = first..Len(m) /\ m[first].k = "status"

HeadTo(m, r, first, mid) ==
    /\ Starts(m, r, first) /\ mid \in DOMAIN m /\ first < mid
    /\ \A j \in first + 1..mid - 1 : m[j].k = "header"

InHead(m, r) ==
    \E first \in DOMAIN m :
        Starts(m, r, first) /\ \A j \in first + 1..Len(m) : m[j].k = "header"

InChunks(m, r) ==
    \E first, mid \in DOMAIN m :
        /\ HeadTo(m, r, first, mid) /\ m[mid].k = "chunked"
        /\ \A j \in mid + 1..Len(m) : m[j].k = "chunk"

InBody(m, r, total, n) ==
    \E first, mid \in DOMAIN m :
        /\ HeadTo(m, r, first, mid) /\ m[mid].k = "length" /\ m[mid].i = total
        /\ Len(m) = mid + n
        /\ \A j \in mid + 1..Len(m) : m[j].k = "data" /\ m[j].i = j - mid

(* What is made is in place behind what was.                               *)
LEMMA Joins ==
    ASSUME NEW m \in Seq(Tokens), NEW src \in Seq(Tokens)
    PROVE  LET n == m \o src
           IN  /\ n \in Seq(Tokens) /\ Len(m) \in Nat /\ Len(src) \in Nat
               /\ Len(n) = Len(m) + Len(src)
               /\ DOMAIN m = 1..Len(m) /\ DOMAIN n = 1..Len(n)
               /\ \A j \in 1..Len(m) : n[j] = m[j]
               /\ \A j \in 1..Len(src) : n[Len(m) + j] = src[j]
               /\ \A j \in Len(m) + 1..Len(n) :
                    j - Len(m) \in 1..Len(src) /\ n[j] = src[j - Len(m)]
<1> DEFINE n == m \o src
<1>1. /\ n \in Seq(Tokens) /\ Len(m) \in Nat /\ Len(src) \in Nat
      /\ Len(n) = Len(m) + Len(src) /\ DOMAIN m = 1..Len(m)
      /\ \A j \in 1..Len(m) + Len(src) :
            n[j] = IF j <= Len(m) THEN m[j] ELSE src[j - Len(m)]
  BY ConcatProperties, LenProperties
<1>2. DOMAIN n = 1..Len(n)
  BY <1>1, LenProperties
<1> HIDE DEF n
<1>3. \A j \in 1..Len(m) : n[j] = m[j]
  BY <1>1
<1>4. \A j \in 1..Len(src) : n[Len(m) + j] = src[j]
  <2> SUFFICES ASSUME NEW j \in 1..Len(src) PROVE n[Len(m) + j] = src[j]
    OBVIOUS
  <2>1. /\ Len(m) + j \in 1..Len(m) + Len(src) /\ ~(Len(m) + j <= Len(m))
        /\ (Len(m) + j) - Len(m) = j
    BY <1>1
  <2> QED
    BY <1>1, <2>1
<1>5. \A j \in Len(m) + 1..Len(n) : j - Len(m) \in 1..Len(src) /\ n[j] = src[j - Len(m)]
  BY <1>1
<1> QED
  BY <1>1, <1>2, <1>3, <1>4, <1>5 DEF n

(* It belongs to one response.                                             *)
LEMMA OwnGrows ==
    ASSUME NEW m \in Seq(Tokens), NEW src \in Seq(Tokens), NEW r \in Nat,
           \A j \in 1..Len(src) : src[j].r = r
    PROVE  /\ Own(m \o src, r) = Own(m, r) \cup (Len(m) + 1..Len(m \o src))
           /\ \A q \in Nat \ {r} : Own(m \o src, q) = Own(m, q)
<1> DEFINE n == m \o src
<1>1. /\ Len(m) \in Nat /\ Len(n) \in Nat /\ Len(m) <= Len(n)
      /\ DOMAIN m = 1..Len(m) /\ DOMAIN n = 1..Len(n)
      /\ \A j \in 1..Len(m) : n[j] = m[j]
      /\ \A j \in Len(m) + 1..Len(n) : n[j].r = r
  BY Joins
<1> HIDE DEF n
<1>2. Own(n, r) = Own(m, r) \cup (Len(m) + 1..Len(n))
  BY <1>1 DEF Own
<1>3. ASSUME NEW q \in Nat \ {r} PROVE Own(n, q) = Own(m, q)
  BY <1>1 DEF Own
<1> QED
  BY <1>2, <1>3 DEF n

(* The complete responses before it are left alone.                        *)
LEMMA WholeStays ==
    ASSUME NEW m \in Seq(Tokens), NEW src \in Seq(Tokens), NEW r \in Nat,
           \A j \in 1..Len(src) : src[j].r = r,
           NEW q \in Nat \ {r}, WellFormed(m, q)
    PROVE  WellFormed(m \o src, q)
<1> DEFINE n == m \o src
<1>1. /\ Len(m) \in Nat /\ Len(n) \in Nat /\ Len(m) <= Len(n)
      /\ DOMAIN m = 1..Len(m) /\ DOMAIN n = 1..Len(n)
      /\ \A j \in 1..Len(m) : n[j] = m[j]
  BY Joins
<1>2. Own(n, q) = Own(m, q)
  BY OwnGrows
<1> HIDE DEF n
<1>3. PICK first \in DOMAIN m, mid \in DOMAIN m, last \in DOMAIN m :
        /\ Own(m, q) = first..last /\ first < mid /\ mid <= last
        /\ m[first].k = "status"
        /\ \A j \in first + 1..mid - 1 : m[j].k = "header"
        /\ \/ /\ m[mid].k = "chunked" /\ mid < last /\ m[last].k = "last"
              /\ \A j \in mid + 1..last - 1 : m[j].k = "chunk"
           \/ /\ m[mid].k = "length" /\ last - mid \in {0, m[mid].i}
              /\ \A j \in mid + 1..last : m[j].k = "data" /\ m[j].i = j - mid
  BY DEF WellFormed
<1>4. /\ first \in DOMAIN n /\ mid \in DOMAIN n /\ last \in DOMAIN n
      /\ n[first] = m[first] /\ n[mid] = m[mid] /\ n[last] = m[last]
      /\ \A j \in first..last : n[j] = m[j]
  BY <1>1
<1>5. \A j \in first + 1..mid - 1 : n[j].k = "header"
  BY <1>1, <1>3, <1>4
<1>6. \/ /\ n[mid].k = "chunked" /\ mid < last /\ n[last].k = "last"
         /\ \A j \in mid + 1..last - 1 : n[j].k = "chunk"
      \/ /\ n[mid].k = "length" /\ last - mid \in {0, n[mid].i}
         /\ \A j \in mid + 1..last : n[j].k = "data" /\ n[j].i = j - mid
  <2>1. CASE /\ m[mid].k = "chunked" /\ mid < last /\ m[last].k = "last"
             /\ \A j \in mid + 1..last - 1 : m[j].k = "chunk"
    <3>1. \A j \in mid + 1..last - 1 : n[j].k = "chunk"
      BY <1>1, <1>3, <1>4, <2>1
    <3> QED
      BY <1>4, <2>1, <3>1
  <2>2. CASE /\ m[mid].k = "length" /\ last - mid \in {0, m[mid].i}
             /\ \A j \in mid + 1..last : m[j].k = "data" /\ m[j].i = j - mid
    <3>1. \A j \in mid + 1..last : n[j].k = "data" /\ n[j].i = j - mid
      BY <1>1, <1>3, <1>4, <2>2
    <3> QED
      BY <1>4, <2>2, <3>1
  <2> QED
    BY <1>3, <2>1, <2>2
<1>7. WellFormed(n, q)
  <2>1. Own(n, q) = first..last /\ n[first].k = "status"
    BY <1>2, <1>3, <1>4
  <2> QED
    BY ONLY <1>3, <1>4, <1>5, <1>6, <2>1 DEF WellFormed
<1> QED
  BY <1>7 DEF n

(* One token more of a response.                                           *)
LEMMA TokenAdded ==
    ASSUME NEW m \in Seq(Tokens), NEW t \in Tokens
    PROVE  LET n == m \o <<t>>
           IN  /\ n \in Seq(Tokens) /\ Len(m) \in Nat /\ Len(n) = Len(m) + 1
               /\ DOMAIN m = 1..Len(m) /\ DOMAIN n = 1..Len(m) + 1
               /\ \A j \in 1..Len(m) : n[j] = m[j]
               /\ n[Len(m) + 1] = t
               /\ Own(n, t.r) = Own(m, t.r) \cup {Len(m) + 1}
<1> DEFINE n == m \o <<t>>
<1>1. <<t>> \in Seq(Tokens) /\ Len(<<t>>) = 1 /\ <<t>>[1] = t /\ t.r \in Nat
  BY DEF Tokens
<1>2. /\ n \in Seq(Tokens) /\ Len(m) \in Nat /\ Len(n) = Len(m) + 1
      /\ DOMAIN m = 1..Len(m) /\ DOMAIN n = 1..Len(n)
      /\ \A j \in 1..Len(m) : n[j] = m[j]
      /\ \A j \in 1..1 : n[Len(m) + j] = <<t>>[j]
  BY <1>1, Joins
<1>3. n[Len(m) + 1] = t
  BY <1>1, <1>2
<1>4. Own(n, t.r) = Own(m, t.r) \cup (Len(m) + 1..Len(n))
  <2> DEFINE src == <<t>>
  <2>1. src \in Seq(Tokens) /\ t.r \in Nat /\ \A j \in 1..Len(src) : src[j].r = t.r
    BY <1>1
  <2> HIDE DEF src
  <2>2. Own(m \o src, t.r) = Own(m, t.r) \cup (Len(m) + 1..Len(m \o src))
    BY <2>1, OwnGrows
  <2> QED
    BY <2>2 DEF src
<1> HIDE DEF n
<1>5. Len(m) + 1..Len(n) = {Len(m) + 1}
  BY <1>2
<1> QED
  BY <1>2, <1>3, <1>4, <1>5 DEF n

(* The status is the first one.                                            *)
LEMMA StatusAdded ==
    ASSUME NEW m \in Seq(Tokens), NEW t \in Tokens, Own(m, t.r) = {}, t.k = "status"
    PROVE  InHead(m \o <<t>>, t.r)
<1> DEFINE n == m \o <<t>>
<1>1. /\ Len(m) \in Nat /\ Len(n) = Len(m) + 1 /\ DOMAIN n = 1..Len(m) + 1
      /\ n[Len(m) + 1] = t /\ Own(n, t.r) = Own(m, t.r) \cup {Len(m) + 1}
  BY TokenAdded
<1> HIDE DEF n
<1>2. Starts(n, t.r, Len(m) + 1)
  BY <1>1 DEF Starts
<1>3. \A j \in Len(m) + 1 + 1..Len(n) : n[j].k = "header"
  BY <1>1
<1>4. InHead(n, t.r)
  BY <1>1, <1>2, <1>3 DEF InHead
<1> QED
  BY <1>4 DEF n

(* A token that is not the first leaves the start of the response.         *)
LEMMA StartStays ==
    ASSUME NEW m \in Seq(Tokens), NEW t \in Tokens, NEW first, Starts(m, t.r, first)
    PROVE  Starts(m \o <<t>>, t.r, first)
<1> DEFINE n == m \o <<t>>
<1>1. /\ Len(m) \in Nat /\ Len(n) = Len(m) + 1 /\ DOMAIN n = 1..Len(m) + 1
      /\ DOMAIN m = 1..Len(m) /\ \A j \in 1..Len(m) : n[j] = m[j]
      /\ Own(n, t.r) = Own(m, t.r) \cup {Len(m) + 1}
  BY TokenAdded
<1> HIDE DEF n
<1>2. Starts(n, t.r, first)
  BY <1>1 DEF Starts
<1> QED
  BY <1>2 DEF n

(* Nor does one behind the head disturb the head.                          *)
LEMMA HeadStays ==
    ASSUME NEW m \in Seq(Tokens), NEW t \in Tokens, NEW first, NEW mid,
           HeadTo(m, t.r, first, mid)
    PROVE  HeadTo(m \o <<t>>, t.r, first, mid)
<1> DEFINE n == m \o <<t>>
<1>1. /\ Len(m) \in Nat /\ Len(n) = Len(m) + 1 /\ DOMAIN n = 1..Len(m) + 1
      /\ DOMAIN m = 1..Len(m) /\ \A j \in 1..Len(m) : n[j] = m[j]
  BY TokenAdded
<1>2. Starts(n, t.r, first) /\ first \in DOMAIN m
  BY StartStays DEF HeadTo, Starts
<1> HIDE DEF n
<1>3. \A j \in first + 1..mid - 1 : n[j].k = "header"
  BY <1>1, <1>2 DEF HeadTo
<1>4. HeadTo(n, t.r, first, mid)
  BY <1>1, <1>2, <1>3 DEF HeadTo
<1> QED
  BY <1>4 DEF n

(* Headers come behind the status.                                         *)
LEMMA HeaderAdded ==
    ASSUME NEW m \in Seq(Tokens), NEW t \in Tokens, InHead(m, t.r), t.k = "header"
    PROVE  InHead(m \o <<t>>, t.r)
<1> DEFINE n == m \o <<t>>
<1>1. /\ Len(m) \in Nat /\ Len(n) = Len(m) + 1 /\ DOMAIN n = 1..Len(m) + 1
      /\ DOMAIN m = 1..Len(m) /\ \A j \in 1..Len(m) : n[j] = m[j]
      /\ n[Len(m) + 1] = t
  BY TokenAdded
<1>2. PICK first \in DOMAIN m :
        Starts(m, t.r, first) /\ \A j \in first + 1..Len(m) : m[j].k = "header"
  BY DEF InHead
<1>3. Starts(n, t.r, first)
  BY <1>2, StartStays
<1> HIDE DEF n
<1>4. \A j \in first + 1..Len(n) : n[j].k = "header"
  BY <1>1, <1>2
<1>5. InHead(n, t.r)
  BY <1>1, <1>2, <1>3, <1>4 DEF InHead
<1> QED
  BY <1>5 DEF n

(* What ends the head.                                                     *)
LEMMA HeadEnds ==
    ASSUME NEW m \in Seq(Tokens), NEW t \in Tokens, InHead(m, t.r)
    PROVE  LET n == m \o <<t>>
           IN  \E first \in DOMAIN n :
                 HeadTo(n, t.r, first, Len(n)) /\ Len(n) \in DOMAIN n /\ n[Len(n)] = t
<1> DEFINE n == m \o <<t>>
<1>1. /\ Len(m) \in Nat /\ Len(n) = Len(m) + 1 /\ DOMAIN n = 1..Len(m) + 1
      /\ DOMAIN m = 1..Len(m) /\ \A j \in 1..Len(m) : n[j] = m[j]
      /\ n[Len(m) + 1] = t
  BY TokenAdded
<1>2. PICK first \in DOMAIN m :
        Starts(m, t.r, first) /\ \A j \in first + 1..Len(m) : m[j].k = "header"
  BY DEF InHead
<1>3. Starts(n, t.r, first)
  BY <1>2, StartStays
<1> HIDE DEF n
<1>4. \A j \in first + 1..Len(n) - 1 : n[j].k = "header"
  BY <1>1, <1>2
<1>5. HeadTo(n, t.r, first, Len(n)) /\ first \in DOMAIN n /\ n[Len(n)] = t
  BY <1>1, <1>2, <1>3, <1>4 DEF HeadTo
<1> QED
  BY <1>1, <1>5 DEF n

(* Transfer-Encoding: chunked ends it,                                     *)
LEMMA ChunkedAdded ==
    ASSUME NEW m \in Seq(Tokens), NEW t \in Tokens, InHead(m, t.r), t.k = "chunked"
    PROVE  InChunks(m \o <<t>>, t.r)
<1> DEFINE n == m \o <<t>>
<1>1. Len(n) \in Nat
  BY TokenAdded
<1>2. \E first \in DOMAIN n :
        HeadTo(n, t.r, first, Len(n)) /\ Len(n) \in DOMAIN n /\ n[Len(n)] = t
  BY HeadEnds
<1> HIDE DEF n
<1>3. \A j \in Len(n) + 1..Len(n) : n[j].k = "chunk"
  BY <1>1
<1>4. InChunks(n, t.r)
  BY <1>2, <1>3 DEF InChunks
<1> QED
  BY <1>4 DEF n

(* and Content-Length does.                                                *)
LEMMA LengthAdded ==
    ASSUME NEW m \in Seq(Tokens), NEW t \in Tokens, InHead(m, t.r), t.k = "length"
    PROVE  InBody(m \o <<t>>, t.r, t.i, 0)
<1> DEFINE n == m \o <<t>>
<1>1. Len(n) \in Nat
  BY TokenAdded
<1>2. \E first \in DOMAIN n :
        HeadTo(n, t.r, first, Len(n)) /\ Len(n) \in DOMAIN n /\ n[Len(n)] = t
  BY HeadEnds
<1> HIDE DEF n
<1>3. \A j \in Len(n) + 1..Len(n) : n[j].k = "data" /\ n[j].i = j - Len(n)
  BY <1>1
<1>4. Len(n) = Len(n) + 0
  BY <1>1
<1>5. InBody(n, t.r, t.i, 0)
  BY <1>2, <1>3, <1>4 DEF InBody
<1> QED
  BY <1>5 DEF n

(* Chunks follow each other.                                               *)
LEMMA ChunkAdded ==
    ASSUME NEW m \in Seq(Tokens), NEW t \in Tokens, InChunks(m, t.r), t.k = "chunk"
    PROVE  InChunks(m \o <<t>>, t.r)
<1> DEFINE n == m \o <<t>>
<1>1. /\ Len(m) \in Nat /\ Len(n) = Len(m) + 1 /\ DOMAIN n = 1..Len(m) + 1
      /\ DOMAIN m = 1..Len(m) /\ \A j \in 1..Len(m) : n[j] = m[j]
      /\ n[Len(m) + 1] = t
  BY TokenAdded
<1>2. PICK first \in DOMAIN m, mid \in DOMAIN m :
        /\ HeadTo(m, t.r, first, mid) /\ m[mid].k = "chunked"
        /\ \A j \in mid + 1..Len(m) : m[j].k = "chunk"
  BY DEF InChunks
<1>3. HeadTo(n, t.r, first, mid)
  BY <1>2, HeadStays
<1> HIDE DEF n
<1>4. \A j \in mid + 1..Len(n) : n[j].k = "chunk"
  BY <1>1, <1>2
<1>5. InChunks(n, t.r)
  BY <1>1, <1>2, <1>3, <1>4 DEF InChunks
<1> QED
  BY <1>5 DEF n

(* The last one completes the response.                                    *)
LEMMA LastAdded ==
    ASSUME NEW m \in Seq(Tokens), NEW t \in Tokens, InChunks(m, t.r), t.k = "last"
    PROVE  WellFormed(m \o <<t>>, t.r)
<1> DEFINE n == m \o <<t>>
           last == Len(m) + 1
<1>1. /\ Len(m) \in Nat /\ Len(n) = last /\ DOMAIN n = 1..last
      /\ DOMAIN m = 1..Len(m) /\ \A j \in 1..Len(m) : n[j] = m[j]
      /\ n[last] = t
  BY TokenAdded
<1>2. PICK first \in DOMAIN m, mid \in DOMAIN m :
        /\ HeadTo(m, t.r, first, mid) /\ m[mid].k = "chunked"
        /\ \A j \in mid + 1..Len(m) : m[j].k = "chunk"
  BY DEF InChunks
<1>3. HeadTo(n, t.r, first, mid)
  BY <1>2, HeadStays
<1> HIDE DEF n
<1>4. \A j \in mid + 1..last - 1 : n[j].k = "chunk"
  BY <1>1, <1>2
<1>5. /\ Own(n, t.r) = first..last /\ first \in DOMAIN n /\ mid \in DOMAIN n
      /\ last \in DOMAIN n /\ first < mid /\ mid < last /\ mid <= last
      /\ n[first].k = "status" /\ n[mid].k = "chunked" /\ n[last].k = "last"
      /\ \A j \in first + 1..mid - 1 : n[j].k = "header"
  BY <1>1, <1>2, <1>3 DEF HeadTo, Starts
<1> HIDE DEF last
<1>6. WellFormed(n, t.r)
  BY <1>4, <1>5 DEF WellFormed
<1> QED
  BY <1>6 DEF n

(* The bytes of the body follow each other.                                *)
LEMMA BodyAdded ==
    ASSUME NEW m \in Seq(Tokens), NEW r \in Nat, NEW total \in Nat, NEW o \in Nat,
           InBody(m, r, total, o), NEW d \in Seq(Tokens),
           \A j \in 1..Len(d) : d[j].r = r /\ d[j].k = "data" /\ d[j].i = o + j
    PROVE  InBody(m \o d, r, total, o + Len(d))
<1> DEFINE n == m \o d
<1>1. /\ Len(m) \in Nat /\ Len(d) \in Nat /\ Len(n) = Len(m) + Len(d)
      /\ DOMAIN n = 1..Len(n) /\ DOMAIN m = 1..Len(m)
      /\ \A j \in 1..Len(m) : n[j] = m[j]
      /\ \A j \in Len(m) + 1..Len(n) : j - Len(m) \in 1..Len(d) /\ n[j] = d[j - Len(m)]
  BY Joins
<1>2. Own(n, r) = Own(m, r) \cup (Len(m) + 1..Len(n))
  BY OwnGrows
<1> HIDE DEF n
<1>3. PICK first \in DOMAIN m, mid \in DOMAIN m :
        /\ HeadTo(m, r, first, mid) /\ m[mid].k = "length" /\ m[mid].i = total
        /\ Len(m) = mid + o
        /\ \A j \in mid + 1..Len(m) : m[j].k = "data" /\ m[j].i = j - mid
  BY DEF InBody
<1>4. /\ first \in 1..Len(m) /\ mid \in 1..Len(m) /\ first < mid
      /\ Own(m, r) = first..Len(m) /\ m[first].k = "status"
      /\ \A j \in first + 1..mid - 1 : m[j].k = "header"
  BY <1>1, <1>3 DEF HeadTo, Starts
<1>5. Own(n, r) = first..Len(n)
  BY <1>1, <1>2, <1>4
<1>6. HeadTo(n, r, first, mid) /\ n[mid] = m[mid]
  <2>1. \A j \in first + 1..mid - 1 : n[j].k = "header"
    BY <1>1, <1>4
  <2> QED
    BY <1>1, <1>4, <1>5, <2>1 DEF HeadTo, Starts
<1>7. ASSUME NEW j \in mid + 1..Len(n) PROVE n[j].k = "data" /\ n[j].i = j - mid
  <2>1. CASE j <= Len(m)
    BY <1>1, <1>3, <1>4, <2>1
  <2>2. CASE ~(j <= Len(m))
    <3>1. j \in Len(m) + 1..Len(n)
      BY <1>1, <1>4, <2>2
    <3>2. n[j].k = "data" /\ n[j].i = o + (j - Len(m))
      BY <1>1, <3>1
    <3>3. o + (j - Len(m)) = j - mid
      <4>1. Len(m) \in Nat /\ mid \in Int /\ j \in Int /\ o \in Nat
        BY <1>1, <1>4, <3>1
      <4>2. Len(m) = mid + o
        BY <1>3
      <4> QED
        BY <4>1, <4>2
    <3> QED
      BY <3>2, <3>3
  <2> QED
    BY <2>1, <2>2
<1>8. Len(n) = mid + (o + Len(d)) /\ first \in DOMAIN n /\ mid \in DOMAIN n
  BY <1>1, <1>3, <1>4
<1>9. InBody(n, r, total, o + Len(d))
  BY <1>3, <1>6, <1>7, <1>8 DEF InBody
<1> QED
  BY <1>9 DEF n

(* A body of the length announced is whole, and so is none at all.         *)
LEMMA BodyWhole ==
    ASSUME NEW m \in Seq(Tokens), NEW r \in Nat, NEW total \in Nat, NEW n \in {0, total},
           InBody(m, r, total, n)
    PROVE  WellFormed(m, r)
<1>1. Len(m) \in Nat /\ DOMAIN m = 1..Len(m)
  BY LenProperties
<1>2. PICK first \in DOMAIN m, mid \in DOMAIN m :
        /\ HeadTo(m, r, first, mid) /\ m[mid].k = "length" /\ m[mid].i = total
        /\ Len(m) = mid + n
        /\ \A j \in mid + 1..Len(m) : m[j].k = "data" /\ m[j].i = j - mid
  BY DEF InBody
<1> DEFINE last == Len(m)
<1>3. last \in DOMAIN m /\ mid <= last /\ last - mid \in {0, m[mid].i}
  BY <1>1, <1>2
<1>4. /\ Own(m, r) = first..last /\ first < mid /\ m[first].k = "status"
      /\ \A j \in first + 1..mid - 1 : m[j].k = "header"
  BY <1>2 DEF HeadTo, Starts
<1> HIDE DEF last
<1>5. \A j \in mid + 1..last : m[j].k = "data" /\ m[j].i = j - mid
  BY <1>2 DEF last
<1> QED
  BY <1>2, <1>3, <1>4, <1>5 DEF WellFormed

-----------------------------------------------------------------------------
(* What is made of the response to request r agrees with the bits of       *)
(* HttpResponseData.                                                       *)
Underway(m, r, c) ==
    /\ ~c.ended => c.offset = 0
    /\ \/ ~c.status /\ ~c.chunked /\ ~c.ended /\ Own(m, r) = {}
       \/ c.status /\ ~c.chunked /\ ~c.ended /\ InHead(m, r)
       \/ c.status /\ c.chunked /\ ~c.ended /\ InChunks(m, r)
       \/ c.status /\ ~c.chunked /\ c.ended /\ InBody(m, r, c.total, c.offset)

InOrder(m, r) ==
    /\ \A j \in 1..Len(m) : m[j].r <= r
    /\ \A j \in 1..Len(m) - 1 : m[j].r <= m[j + 1].r

(* The responses before it are whole.                                      *)
Told(s) ==
    /\ InOrder(made[s], request[s])
    /\ \A q \in done[s] : WellFormed(made[s], q)
    /\ \A q \in 1..request[s] : q < request[s] => q \in done[s]
    /\ ~res[s].pending => request[s] = 0 \/ request[s] \in done[s]
    /\ ~res[s].open => ~res[s].pending
    /\ Connected(s) /\ res[s].pending => Underway(made[s], request[s], res[s])

(* The parser works for connections that have been opened.                 *)
OpenData == Len(stack) > 0 /\ stack[1].kind = "data" => res[stack[1].s].open

Unmixed == OpenData /\ \A s \in Sockets : Told(s)

OfRequest(src, r) == \A j \in 1..Len(src) : src[j].r = r

(* Tokens of the last request keep the order.                              *)
LEMMA OrderStays ==
    ASSUME NEW m \in Seq(Tokens), NEW src \in Seq(Tokens), NEW r \in Nat,
           OfRequest(src, r), InOrder(m, r)
    PROVE  InOrder(m \o src, r)
<1> DEFINE n == m \o src
<1>1. /\ Len(m) \in Nat /\ Len(src) \in Nat /\ Len(n) = Len(m) + Len(src)
      /\ \A j \in 1..Len(m) : n[j] = m[j] /\ m[j].r \in Nat /\ m[j].r <= r
      /\ \A j \in Len(m) + 1..Len(n) : n[j].r = r
  <2>1. ASSUME NEW j \in 1..Len(m) PROVE m[j].r \in Nat /\ m[j].r <= r
    <3>1. m[j] \in Tokens
      BY ElementOfSeq
    <3> QED
      BY <3>1 DEF InOrder, Tokens
  <2> QED
    BY <2>1, Joins DEF OfRequest
<1> HIDE DEF n
<1>2. \A j \in 1..Len(n) : n[j].r <= r
  BY <1>1
<1>3. ASSUME NEW j \in 1..Len(n) - 1 PROVE n[j].r <= n[j + 1].r
  <2>1. CASE j + 1 <= Len(m)
    BY <1>1, <2>1 DEF InOrder
  <2>2. CASE ~(j + 1 <= Len(m))
    <3>1. n[j + 1].r = r
      BY <1>1, <2>2
    <3> QED
      BY <1>2, <3>1
  <2> QED
    BY <2>1, <2>2
<1> QED
  BY <1>2, <1>3 DEF InOrder, n

(* The same response, as far as it has been made.                          *)
Same(c, d) ==
    /\ d.open = c.open /\ d.pending = c.pending /\ d.status = c.status
    /\ d.chunked = c.chunked /\ d.ended = c.ended /\ d.offset = c.offset
    /\ d.total = c.total

(* A step that makes nothing of a response, and one about another          *)
(* connection.                                                             *)
LEMMA ToldSame ==
    ASSUME NEW s \in Sockets, Told(s), io.closed \subseteq io'.closed,
           made'[s] = made[s], request'[s] = request[s], done'[s] = done[s],
           Same(res[s], res'[s])
    PROVE  Told(s)'
<1>1. Underway(made[s], request[s], res[s]) => Underway(made[s], request[s], res'[s])
  BY DEF Underway, Same
<1> QED
  BY <1>1 DEF Told, Same, Connected

(* A step of one connection leaves what the others have told.              *)
LEMMA ToldAside ==
    ASSUME Inv, NEW s, Keeps(s), NEW t \in Sockets, t # s, Told(t)
    PROVE  Told(t)'
<1>1. PICK src \in Seq(Tokens) : About(s, src)
  BY DEF Keeps
<1>2. /\ io.closed \subseteq io'.closed
      /\ made' = [made EXCEPT ![s] = @ \o src]
      /\ \E c \in Conns : res' = [res EXCEPT ![s] = c]
      /\ \E q \in Nat : request' = [request EXCEPT ![s] = q]
      /\ \E d \in SUBSET Nat : done' = [done EXCEPT ![s] = d]
      /\ Types
  BY <1>1 DEF About, Effect, Aside, Inv
<1>3. /\ made'[t] = made[t] /\ res'[t] = res[t] /\ request'[t] = request[t]
      /\ done'[t] = done[t]
  BY <1>2 DEF Types
<1> QED
  BY <1>2, <1>3, ToldSame DEF Same

(* What a step does to the bottom of the stack.                            *)
Bottom(s) ==
    \/ stack' = stack \/ stack' = Pop \/ stack' = <<>>
    \/ \E f : stack' = Append(stack, f) /\ f.kind # "data"
    \/ Atop("data") /\ \E a : stack' = Goto(a)
    \/ Atop("data") /\ \E a, f : stack' = Append(Goto(a), f)
    \/ (Atop("handler") \/ Atop("stream"))
       /\ \E a : stack' = [Pop EXCEPT ![Len(Pop)].at = a]
    \/ stack' = <<DataFrame(s)>> /\ res'[s].open

(* No connection is closed for good while the parser works for it.         *)
LEMMA OpenStays ==
    ASSUME Inv, Inv', OpenData, NEW s \in Sockets, Bottom(s),
           \A t \in Sockets : res[t].open => res'[t].open
    PROVE  OpenData'
<1> SUFFICES ASSUME Len(stack') > 0, stack'[1].kind = "data"
             PROVE  res'[stack'[1].s].open
  BY DEF OpenData
<1>1. /\ stack \in Seq(Frames) /\ Len(stack) \in Nat
      /\ stack' \in Seq(Frames) /\ Len(stack') \in Nat
  BY DEF Inv, Types
<1>2. ASSUME Len(stack) > 0, stack[1].kind = "data", stack'[1].s = stack[1].s
      PROVE  res'[stack'[1].s].open
  <2>1. stack[1] \in Frames
    BY <1>1, <1>2, ElementOfSeq
  <2>2. stack[1].s \in Sockets
    BY <2>1 DEF Frames, DataFrames, StreamFrames, CallFrames
  <2> QED
    BY <1>2, <2>2 DEF OpenData
<1>3. CASE stack' = stack
  BY <1>2, <1>3
<1>4. CASE stack' = Pop
  <2> DEFINE n == Len(stack) - 1
  <2>1. CASE Len(stack) = 0
    <3>1. stack = <<>>
      BY <1>1, <2>1, EmptySeq
    <3>2. Len(SubSeq(stack, 1, 0 - 1)) = 0
      BY <3>1
    <3> QED
      BY <1>4, <2>1, <3>2 DEF Pop
  <2>2. CASE Len(stack) > 0
    <3>1. stack' = SubSeq(stack, 1, n) /\ n \in 0..Len(stack)
      BY <1>1, <1>4, <2>2 DEF Pop
    <3> HIDE DEF n
    <3>2. Len(stack') = n
      BY <1>1, <3>1, Cut
    <3>3. stack'[1] = stack[1]
      BY <1>1, <3>1, <3>2
    <3> QED
      BY <1>2, <2>2, <3>3
  <2> QED
    BY <1>1, <2>1, <2>2
<1>5. CASE stack' = <<>>
  BY <1>5, EmptySeq
<1>6. CASE \E f : stack' = Append(stack, f) /\ f.kind # "data"
  <2>1. PICK f : stack' = Append(stack, f) /\ f.kind # "data"
    BY <1>6
  <2>2. CASE Len(stack) = 0
    <3>1. stack'[1] = f
      BY <1>1, <2>1, <2>2
    <3> QED
      BY <2>1, <3>1
  <2>3. CASE Len(stack) > 0
    <3>1. stack'[1] = stack[1]
      BY <1>1, <2>1, <2>3
    <3> QED
      BY <1>2, <2>3, <3>1
  <2> QED
    BY <1>1, <2>2, <2>3
<1>7. CASE Atop("data") /\ \E a : stack' = Goto(a)
  <2>1. PICK a : stack' = <<[Top EXCEPT !.at = a, !.first = FALSE]>>
    BY <1>7, InParser
  <2>2. Top \in DataFrames /\ stack[1] = Top /\ Len(stack) = 1
    BY <1>7, InParser
  <2>3. stack'[1].s = stack[1].s /\ stack[1].kind = "data"
    BY <2>1, <2>2 DEF DataFrames
  <2> QED
    BY <1>2, <2>2, <2>3
<1>8. CASE Atop("data") /\ \E a, f : stack' = Append(Goto(a), f)
  <2>1. PICK a, f : stack' = Append(Goto(a), f)
    BY <1>8
  <2> DEFINE d == [Top EXCEPT !.at = a, !.first = FALSE]
  <2>2. Top \in DataFrames /\ stack[1] = Top /\ Len(stack) = 1 /\ Goto(a) = <<d>>
    BY <1>8, InParser
  <2>3. d.s = Top.s /\ Top.kind = "data"
    BY <2>2 DEF DataFrames
  <2> HIDE DEF d
  <2>4. stack' = Append(<<d>>, f)
    BY <2>1, <2>2
  <2>5. stack'[1] = d
    BY <2>4
  <2> QED
    BY <1>2, <2>2, <2>3, <2>5
<1>9. CASE /\ Atop("handler") \/ Atop("stream")
           /\ \E a : stack' = [Pop EXCEPT ![Len(Pop)].at = a]
  <2>1. PICK a : stack' = [Pop EXCEPT ![Len(Pop)].at = a]
    BY <1>9
  <2>2. /\ stack[1] \in DataFrames /\ Len(stack) = 2
        /\ [Pop EXCEPT ![Len(Pop)].at = a] = <<[stack[1] EXCEPT !.at = a]>>
    BY <1>9, InCallback
  <2>3. stack'[1].s = stack[1].s /\ stack[1].kind = "data"
    BY <2>1, <2>2 DEF DataFrames
  <2> QED
    BY <1>2, <2>2, <2>3
<1>10. CASE stack' = <<DataFrame(s)>> /\ res'[s].open
  <2>1. stack'[1].s = s
    BY <1>10 DEF DataFrame
  <2> QED
    BY <1>10, <2>1
<1> QED
  BY <1>3, <1>4, <1>5, <1>6, <1>7, <1>8, <1>9, <1>10 DEF Bottom

(* A step about s keeps the responses apart if it keeps those of s.        *)
LEMMA UnmixedKept ==
    ASSUME Inv, Unmixed, NEW s \in Sockets, Keeps(s), Bottom(s), Told(s)',
           res[s].open => res'[s].open
    PROVE  Unmixed'
<1>1. PICK src \in Seq(Tokens) : About(s, src)
  BY DEF Keeps
<1>2. \A t \in Sockets : res[t].open => res'[t].open
  BY <1>1 DEF About, Inv, Types
<1>3. OpenData'
  BY <1>2, OpenStays DEF Keeps, Unmixed
<1>4. \A t \in Sockets : Told(t)'
  BY ToldAside DEF Unmixed
<1> QED
  BY <1>3, <1>4 DEF Unmixed

(* Most steps make nothing of a response.                                  *)
LEMMA UnmixedSame ==
    ASSUME Inv, Unmixed, Next, NEW s \in Sockets, Keeps(s), Bottom(s),
           UNCHANGED <<request, made, done>>, Same(res[s], res'[s])
    PROVE  Unmixed'
<1>1. io.closed \subseteq io'.closed
  BY ClosedStays
<1>2. Told(s)'
  BY <1>1, ToldSame DEF Unmixed
<1> QED
  BY <1>2, UnmixedKept DEF Same

(* Those that refuse a request close the connection.                       *)
LEMMA UnmixedClosed ==
    ASSUME Inv, Unmixed, NEW s \in Sockets, Keeps(s), Bottom(s),
           UNCHANGED <<request, made, done>>, s \in io'.closed, res[s].open,
           res'[s].open, res'[s].pending
    PROVE  Unmixed'
<1>1. Told(s)'
  BY DEF Unmixed, Told, Connected
<1> QED
  BY <1>1, UnmixedKept

(* The parser is at work for a connection that has been opened.            *)
LEMMA ParsingOpen ==
    ASSUME Inv, OpenData, NEW s, NEW at, Parsing(s, at)
    PROVE  s \in Sockets /\ res[s].open /\ Atop("data")
<1>1. /\ Atop("data") /\ s = Top.s /\ Top \in DataFrames /\ Len(stack) = 1
      /\ stack[1] = Top
  BY InParser DEF Parsing
<1> QED
  BY <1>1 DEF OpenData, DataFrames

(* A connection is opened once, and no request was given for it.           *)
LEMMA UnmixedOpen ==
    ASSUME Inv, Unmixed, NEW s \in Sockets, OnOpen(s)
    PROVE  Unmixed'
<1>1. Keeps(s) /\ Bottom(s) /\ ~res[s].open
  BY OnOpenKeeps DEF OnOpen, Bottom
<1>2. res'[s].open /\ ~res'[s].pending
  <2>1. res \in [Sockets -> Conns]
    BY DEF Inv, Types
  <2> QED
    BY <2>1 DEF OnOpen, Fresh
<1>3. Told(s)'
  BY <1>1, <1>2 DEF Unmixed, Told, OnOpen
<1> QED
  BY <1>1, <1>3, UnmixedKept

(* The next request is given once the response before it is complete.      *)
LEMMA UnmixedRequest ==
    ASSUME Inv, Unmixed, NEW s \in Sockets, NEW close \in BOOLEAN,
           NEW body \in BodyKinds, Request(s, close, body)
    PROVE  Unmixed'
<1> DEFINE r == request[s]
           c == res'[s]
<1>1. /\ Parsing(s, "parse") /\ ~res[s].pending /\ made' = made /\ done' = done
      /\ request' = [request EXCEPT ![s] = @ + 1]
      /\ res' = [res EXCEPT ![s] = Requested(res[s], close, body)]
      /\ stack' = Append(Goto("parse"), HandlerFrame(s, body))
  BY DEF Request, Arrives
<1>2. /\ r \in Nat /\ res \in [Sockets -> Conns] /\ made[s] \in Seq(Tokens)
      /\ request'[s] = r + 1 /\ Len(made[s]) \in Nat
      /\ DOMAIN made[s] = 1..Len(made[s])
  BY <1>1, LenProperties DEF Inv, Types
<1>3. Keeps(s) /\ Bottom(s) /\ res[s].open
  BY <1>1, RequestKeeps, ParsingOpen DEF Unmixed, Bottom
<1>4. /\ c.open /\ c.pending /\ ~c.status /\ ~c.chunked /\ ~c.ended /\ c.offset = 0
  BY <1>1, <1>2, <1>3 DEF Requested, Conns
<1>5. Told(s)
  BY DEF Unmixed
<1>6. ASSUME NEW j \in 1..Len(made[s]) PROVE made[s][j].r \in Nat /\ made[s][j].r <= r
  <2>1. made[s][j] \in Tokens
    BY <1>2, <1>6, ElementOfSeq
  <2> QED
    BY <1>5, <2>1 DEF Told, InOrder, Tokens
<1> HIDE DEF r, c
<1>7. Own(made[s], r + 1) = {}
  BY <1>2, <1>6 DEF Own, r
<1>8. Underway(made[s], r + 1, c)
  BY <1>4, <1>7 DEF Underway
<1>9. InOrder(made[s], r + 1)
  BY <1>2, <1>5, <1>6 DEF Told, InOrder, r
<1>10. \A q \in 1..r + 1 : q < r + 1 => q \in done[s]
  <2> SUFFICES ASSUME NEW q \in 1..r + 1, q < r + 1 PROVE q \in done[s]
    OBVIOUS
  <2>1. q \in 1..r /\ (q < r \/ q = r) /\ r # 0
    BY <1>2 DEF r
  <2> QED
    BY <1>1, <1>5, <2>1 DEF Told, r
<1>11. Told(s)'
  <2>1. /\ made'[s] = made[s] /\ done'[s] = done[s] /\ request'[s] = r + 1
        /\ res'[s] = c /\ \A q \in done[s] : WellFormed(made[s], q)
    BY <1>1, <1>2, <1>5 DEF Told, r, c
  <2> QED
    BY <1>4, <1>8, <1>9, <1>10, <2>1 DEF Told
<1> QED
  BY <1>3, <1>4, <1>11, UnmixedKept DEF c

(* Any other request, and its connection, is refused.                      *)
LEMMA UnmixedRefused ==
    ASSUME Inv, Unmixed, NEW s \in Sockets,
           RequestRefused(s) \/ \E close \in BOOLEAN : RequestUnrouted(s, close)
    PROVE  Unmixed'
<1>1. res \in [Sockets -> Conns]
  BY DEF Inv, Types
<1>2. /\ Parsing(s, "parse") /\ CloseSocket(s) /\ UNCHANGED <<request, made, done>>
      /\ stack' = Goto("stop")
  BY DEF RequestRefused, RequestUnrouted, Arrives
<1>3. Keeps(s) /\ Bottom(s) /\ res[s].open
  BY <1>2, RequestRefusedKeeps, RequestUnroutedKeeps, ParsingOpen DEF Unmixed, Bottom
<1>4. s \in io'.closed
  <2>1. s \in ClosedIO(io, s).closed
    BY DEF ClosedIO, Clear, Inv, Types, IOInv, IOSafe, IOType
  <2> QED
    BY <1>2, <2>1 DEF CloseSocket
<1>5. res'[s].open /\ res'[s].pending
  <2>1. CASE RequestRefused(s)
    BY <1>1, <1>3, <2>1 DEF RequestRefused, Conns
  <2>2. CASE \E close \in BOOLEAN : RequestUnrouted(s, close)
    <3>1. PICK close \in BOOLEAN : RequestUnrouted(s, close)
      BY <2>2
    <3>2. res' = [res EXCEPT ![s] = Requested(res[s], close, "none")]
      BY <3>1 DEF RequestUnrouted
    <3> QED
      BY <1>1, <1>3, <3>2 DEF Requested, Conns
  <2> QED
    BY <2>1, <2>2
<1> QED
  BY <1>2, <1>3, <1>4, <1>5, UnmixedClosed

(* The rest of the handlers leave responses alone.                         *)
LEMMA UnmixedHandlers ==
    ASSUME Inv, Unmixed, Next, NEW s \in Sockets,
           \/ OnData(s) \/ OnWritable(s) \/ OnEnd(s) \/ OnTimeout(s)
           \/ \E fin \in BOOLEAN : PieceIgnored(s, fin)
           \/ \E n \in 0..1, fin, heeded \in BOOLEAN : PieceReceived(s, fin, n, heeded)
           \/ \E room \in Rooms : Malformed(s, room) \/ OnWritableDrain(s, room)
    PROVE  Unmixed'
<1>1. res \in [Sockets -> Conns] /\ res[s] \in Conns
  BY DEF Inv, Types
<1>2. UNCHANGED <<request, made, done>>
  BY DEF OnData, OnWritable, OnEnd, OnTimeout, PieceIgnored, PieceReceived, Malformed,
         OnWritableDrain
<1>3. Keeps(s)
  <2>1. CASE OnEnd(s) \/ OnTimeout(s)
    BY <2>1, CloseSocketKeeps DEF OnEnd, OnTimeout
  <2> QED
    BY <2>1, OnDataKeeps, OnWritableKeeps, PieceIgnoredKeeps, PieceReceivedKeeps,
       MalformedKeeps, OnWritableDrainKeeps
<1>4. Same(res[s], res'[s])
  <2>1. CASE OnData(s) \/ OnEnd(s) \/ OnTimeout(s) \/ \E room \in Rooms : Malformed(s, room)
    BY <2>1 DEF OnData, OnEnd, OnTimeout, Malformed, Same
  <2>2. CASE OnWritable(s)
    BY <1>1, <2>2 DEF OnWritable, Same, Conns
  <2>3. CASE \E room \in Rooms : OnWritableDrain(s, room)
    BY <1>1, <2>3 DEF OnWritableDrain, Same, Conns
  <2>4. CASE \E fin \in BOOLEAN : PieceIgnored(s, fin)
    BY <1>1, <2>4 DEF PieceIgnored, Same, Conns
  <2>5. CASE \E n \in 0..1, fin, heeded \in BOOLEAN : PieceReceived(s, fin, n, heeded)
    <3>1. PICK n \in 0..1, fin \in BOOLEAN, heeded \in BOOLEAN :
            PieceReceived(s, fin, n, heeded)
      BY <2>5
    <3> DEFINE enough == res[s].received + n >= Throughput
               c == [res[s] EXCEPT
                       !.timer = ~fin /\ (@ \/ enough),
                       !.received = IF fin THEN @ ELSE IF enough THEN 0 ELSE @ + n,
                       !.body = IF fin THEN "none" ELSE @]
    <3>2. res' = [res EXCEPT ![s] = c]
      BY <1>1, <3>1 DEF PieceReceived
    <3>3. Same(res[s], c)
      BY <1>1 DEF Same, Conns
    <3> HIDE DEF c
    <3> QED
      BY <1>1, <3>2, <3>3
  <2> QED
    BY <2>1, <2>2, <2>3, <2>4, <2>5
<1>5. Bottom(s)
  <2>1. CASE OnData(s)
    BY <1>1, <1>4, <2>1 DEF OnData, Bottom, Connected, Same
  <2>2. CASE OnWritable(s)
    <3>1. stack' = Append(stack, [kind |-> "writable", s |-> s,
                                  r |-> res[s].onWritable, fin |-> FALSE])
      BY <2>2 DEF OnWritable, Push
    <3> QED
      BY <3>1 DEF Bottom
  <2>3. CASE OnEnd(s) \/ OnTimeout(s) \/ \E room \in Rooms : OnWritableDrain(s, room)
    BY <2>3 DEF OnEnd, OnTimeout, OnWritableDrain, Bottom
  <2>4. CASE \E room \in Rooms : Malformed(s, room)
    BY <2>4 DEF Malformed, Parsing, Bottom
  <2>5. CASE \E fin \in BOOLEAN : PieceIgnored(s, fin)
    BY <2>5, PieceParsing DEF PieceIgnored, Parsing, Bottom
  <2>6. CASE \E n \in 0..1, fin, heeded \in BOOLEAN : PieceReceived(s, fin, n, heeded)
    BY <2>6, PieceParsing DEF PieceReceived, Parsing, Bottom
  <2> QED
    BY <2>1, <2>2, <2>3, <2>4, <2>5, <2>6
<1> QED
  BY <1>2, <1>3, <1>4, <1>5, UnmixedSame

(* And so do their returns.                                                *)
LEMMA UnmixedReturns ==
    ASSUME Inv, Unmixed, Next,
           \/ HandlerReturn \/ StreamReturn \/ WritableReturn
           \/ \E room \in Rooms : DataReturn(room)
    PROVE  Unmixed'
<1> DEFINE s == Top.s
<1>1. Keeps(s) /\ s \in Sockets
  BY HandlerReturnKeeps, StreamReturnKeeps, WritableReturnKeeps, DataReturnKeeps DEF Keeps
<1> HIDE DEF s
<1>2. res \in [Sockets -> Conns] /\ res[s] \in Conns
  BY <1>1 DEF Inv, Types
<1>3. UNCHANGED <<request, made, done>>
  BY DEF HandlerReturn, StreamReturn, WritableReturn, DataReturn
<1>4. Same(res[s], res'[s])
  <2>1. CASE HandlerReturn
    BY <1>1, <1>2, <2>1 DEF HandlerReturn, Same, Conns, s
  <2>2. CASE StreamReturn
    BY <1>1, <1>2, <2>2 DEF StreamReturn, Same, Conns, s
  <2>3. CASE WritableReturn
    BY <2>3 DEF WritableReturn, Same
  <2>4. CASE \E room \in Rooms : DataReturn(room)
    <3>1. res' = res \/ \E f : res' = [res EXCEPT ![s].timer = @ \/ f]
      BY <2>4 DEF DataReturn, s
    <3>2. CASE \E f : res' = [res EXCEPT ![s].timer = @ \/ f]
      BY <1>1, <1>2, <3>2 DEF Same, Conns
    <3> QED
      BY <3>1, <3>2 DEF Same
  <2> QED
    BY <2>1, <2>2, <2>3, <2>4
<1>5. Bottom(s)
  BY DEF HandlerReturn, StreamReturn, WritableReturn, DataReturn, Bottom
<1> QED
  BY <1>1, <1>3, <1>4, <1>5, UnmixedSame

(* And so do the calls of the application that write nothing.              *)
LEMMA UnmixedCalls ==
    ASSUME Inv, Unmixed, Next, NEW s \in Sockets,
           \/ AttachAborted(s) \/ AttachWritable(s) \/ AttachData(s)
           \/ Pause(s) \/ Resume(s) \/ Close(s) \/ CorkBegin(s)
    PROVE  Unmixed'
<1>1. res \in [Sockets -> Conns] /\ res[s] \in Conns
  BY DEF Inv, Types
<1>2. UNCHANGED <<request, made, done>>
  BY DEF AttachAborted, AttachWritable, AttachData, Pause, Resume, Close, CorkBegin
<1>3. Keeps(s)
  <2>1. CASE Close(s)
    BY <2>1, CloseSocketKeeps DEF Close
  <2> QED
    BY <2>1, AttachKeeps, SettingsKeep, CorkBeginKeeps
<1>4. Same(res[s], res'[s])
  <2>1. CASE AttachAborted(s)
    BY <1>1, <2>1 DEF AttachAborted, Same, Conns
  <2>2. CASE AttachWritable(s)
    BY <1>1, <2>2 DEF AttachWritable, Same, Conns
  <2>3. CASE AttachData(s)
    BY <1>1, <2>3 DEF AttachData, Same, Conns
  <2>4. CASE Pause(s)
    BY <1>1, <2>4 DEF Pause, Same, Conns
  <2>5. CASE Resume(s)
    BY <1>1, <2>5 DEF Resume, Same, Conns
  <2>6. CASE Close(s) \/ CorkBegin(s)
    BY <2>6 DEF Close, CorkBegin, Same
  <2> QED
    BY <2>1, <2>2, <2>3, <2>4, <2>5, <2>6
<1>5. Bottom(s)
  <2>1. CASE CorkBegin(s)
    <3>1. PICK b : stack' = Append(stack, [kind |-> "block", s |-> s, r |-> 0, fin |-> b])
      BY <2>1 DEF CorkBegin, Push
    <3> QED
      BY <3>1 DEF Bottom
  <2> QED
    BY <2>1 DEF AttachAborted, AttachWritable, AttachData, Pause, Resume, Close, Bottom
<1> QED
  BY <1>2, <1>3, <1>4, <1>5, UnmixedSame

(* Even the end of a block.                                                *)
LEMMA UnmixedCorkEnd ==
    ASSUME Inv, Unmixed, Next, NEW room \in Rooms, CorkEnd(room)
    PROVE  Unmixed'
<1> DEFINE s == Top.s
<1>1. Keeps(s) /\ s \in Sockets
  BY CorkEndKeeps DEF Keeps
<1> HIDE DEF s
<1>2. res \in [Sockets -> Conns] /\ res[s] \in Conns
  BY <1>1 DEF Inv, Types
<1>3. UNCHANGED <<request, made, done>> /\ Bottom(s)
  BY DEF CorkEnd, Bottom
<1>4. Same(res[s], res'[s])
  <2>1. res' = res \/ \E f : res' = [res EXCEPT ![s].timer = @ \/ f]
    BY DEF CorkEnd, s
  <2>2. CASE \E f : res' = [res EXCEPT ![s].timer = @ \/ f]
    BY <1>1, <1>2, <2>2 DEF Same, Conns
  <2> QED
    BY <2>1, <2>2 DEF Same
<1> QED
  BY <1>1, <1>3, <1>4, UnmixedSame

-----------------------------------------------------------------------------
(* What a call makes of the response in progress keeps the order, if the   *)
(* bits it leaves agree with what is then made.                            *)
LEMMA ToldMakes ==
    ASSUME Inv, Unmixed, NEW s \in Sockets, s \notin io.closed, res[s].pending,
           NEW src \in Seq(Tokens), OfRequest(src, request[s]),
           made'[s] = made[s] \o src, request'[s] = request[s], res'[s].open,
           \/ /\ res'[s].pending /\ done'[s] = done[s]
              /\ Underway(made[s] \o src, request[s], res'[s])
           \/ /\ ~res'[s].pending /\ done'[s] = done[s] \cup {request[s]}
              /\ WellFormed(made[s] \o src, request[s])
    PROVE  Told(s)'
<1> DEFINE r == request[s]
           n == made[s] \o src
<1>1. Told(s) /\ made[s] \in Seq(Tokens) /\ r \in Nat
  BY DEF Unmixed, Inv, Types
<1>2. done[s] \subseteq Nat \ {r}
  BY <1>1 DEF Inv, Types, Outcome, Sound
<1>3. InOrder(n, r)
  BY <1>1, OrderStays DEF Told
<1>4. \A q \in done[s] : WellFormed(n, q)
  BY <1>1, <1>2, WholeStays DEF OfRequest, Told
<1> HIDE DEF n
<1>5. \A q \in done'[s] : WellFormed(n, q)
  BY <1>4 DEF n
<1>6. /\ \A q \in 1..r : q < r => q \in done'[s]
      /\ ~res'[s].pending => r = 0 \/ r \in done'[s]
  BY <1>1 DEF Told
<1>7. made'[s] = n /\ request'[s] = r
  BY DEF n
<1> HIDE DEF r
<1>8. res'[s].pending => Underway(n, r, res'[s])
  BY DEF n, r
<1> QED
  BY <1>3, <1>5, <1>6, <1>7, <1>8 DEF Told

(* The tokens of a call are of the request in progress.                    *)
LEMMA TokenOfRequest ==
    ASSUME Types, NEW s \in Sockets, NEW k \in Kinds, NEW i \in Nat
    PROVE  LET t == Token(s, k, i)
           IN  /\ t \in Tokens /\ t.r = request[s] /\ t.k = k /\ t.i = i
               /\ <<t>> \in Seq(Tokens) /\ OfRequest(<<t>>, request[s])
<1> DEFINE t == Token(s, k, i)
<1>1. t \in Tokens /\ t.r = request[s] /\ t.k = k /\ t.i = i
  BY DEF Types, Tokens, Token
<1> HIDE DEF t
<1>2. <<t>> \in Seq(Tokens) /\ OfRequest(<<t>>, request[s])
  BY <1>1, Single DEF OfRequest
<1> QED
  BY <1>1, <1>2 DEF t

(* What is made of one request in two parts.                               *)
LEMMA BothOfRequest ==
    ASSUME NEW a \in Seq(Tokens), NEW b \in Seq(Tokens), NEW r,
           OfRequest(a, r), OfRequest(b, r)
    PROVE  a \o b \in Seq(Tokens) /\ OfRequest(a \o b, r)
<1> DEFINE c == a \o b
<1>1. /\ c \in Seq(Tokens) /\ Len(a) \in Nat /\ Len(c) \in Nat
      /\ \A j \in 1..Len(a) : c[j] = a[j]
      /\ \A j \in Len(a) + 1..Len(c) : j - Len(a) \in 1..Len(b) /\ c[j] = b[j - Len(a)]
  BY Joins
<1> HIDE DEF c
<1>2. OfRequest(c, r)
  BY <1>1 DEF OfRequest
<1> QED
  BY <1>1, <1>2 DEF c

(* And nothing is made of any.                                             *)
LEMMA NoneOfRequest ==
    ASSUME NEW r
    PROVE  <<>> \in Seq(Tokens) /\ Len(<<>>) = 0 /\ OfRequest(<<>>, r)
  BY EmptySeq DEF OfRequest

(* The status comes first, where the head has not been ended.              *)
LEMMA StatusPut ==
    ASSUME Types, NEW s \in Sockets, Underway(made[s], request[s], res[s])
    PROVE  /\ Status(s) \in Seq(Tokens) /\ OfRequest(Status(s), request[s])
           /\ ~res[s].chunked /\ ~res[s].ended =>
                InHead(made[s] \o Status(s), request[s])
           /\ res[s].chunked \/ res[s].ended => Status(s) = <<>>
<1> DEFINE t == Token(s, "status", 0)
<1>1. made[s] \in Seq(Tokens) /\ made[s] \o <<>> = made[s]
  BY ConcatEmptySeq DEF Types
<1>2. /\ t \in Tokens /\ t.r = request[s] /\ t.k = "status"
      /\ <<t>> \in Seq(Tokens) /\ OfRequest(<<t>>, request[s])
  BY TokenOfRequest DEF Kinds
<1>3. Status(s) = IF res[s].status THEN <<>> ELSE <<t>>
  BY DEF Status
<1> HIDE DEF t
<1>4. Status(s) \in Seq(Tokens) /\ OfRequest(Status(s), request[s])
  BY <1>2, <1>3, NoneOfRequest
<1>5. res[s].chunked \/ res[s].ended => Status(s) = <<>>
  BY <1>3 DEF Underway
<1>6. ASSUME ~res[s].chunked, ~res[s].ended
      PROVE  InHead(made[s] \o Status(s), request[s])
  <2>1. CASE res[s].status
    BY <1>1, <1>3, <1>6, <2>1 DEF Underway
  <2>2. CASE ~res[s].status
    <3>1. Own(made[s], t.r) = {}
      BY <1>2, <1>6, <2>2 DEF Underway
    <3>2. InHead(made[s] \o <<t>>, t.r)
      BY <1>1, <1>2, <3>1, StatusAdded
    <3> QED
      BY <1>2, <1>3, <2>2, <3>2
  <2> QED
    BY <2>1, <2>2
<1> QED
  BY <1>4, <1>5, <1>6

(* "Connection: close" is a header, or is not written.                     *)
LEMMA FarewellPut ==
    ASSUME Types, NEW s \in Sockets, NEW close \in BOOLEAN, NEW m \in Seq(Tokens)
    PROVE  /\ Farewell(s, close) \in Seq(Tokens)
           /\ OfRequest(Farewell(s, close), request[s])
           /\ InHead(m, request[s]) => InHead(m \o Farewell(s, close), request[s])
           /\ ~close \/ res[s].close => Farewell(s, close) = <<>>
<1> DEFINE t == Token(s, "header", 0)
<1>1. m \o <<>> = m
  BY ConcatEmptySeq
<1>2. /\ t \in Tokens /\ t.r = request[s] /\ t.k = "header"
      /\ <<t>> \in Seq(Tokens) /\ OfRequest(<<t>>, request[s])
  BY TokenOfRequest DEF Kinds
<1>3. Farewell(s, close) = IF close /\ ~res[s].close THEN <<t>> ELSE <<>>
  BY DEF Farewell
<1> HIDE DEF t
<1>4. InHead(m, request[s]) => InHead(m \o <<t>>, request[s])
  BY <1>2, HeaderAdded
<1> QED
  BY <1>1, <1>2, <1>3, <1>4, NoneOfRequest

(* writeHeader().                                                          *)
LEMMA UnmixedHeader ==
    ASSUME Inv, Unmixed, Next, NEW s \in Sockets, NEW room \in Rooms,
           WriteHeader(s, room)
    PROVE  Unmixed'
<1> DEFINE t == Token(s, "header", 0)
           m == made[s]
           r == request[s]
           head == Status(s) \o <<t>>
<1>1. /\ Types /\ m \in Seq(Tokens) /\ res \in [Sockets -> Conns]
      /\ made \in [Sockets -> Seq(Tokens)] /\ r \in Nat
  BY DEF Inv, Types
<1>2. /\ made' = [made EXCEPT ![s] = @ \o head] /\ UNCHANGED <<stack, request, done>>
      /\ res' = [res EXCEPT ![s].status = TRUE] /\ ~res[s].status
      /\ s \notin io.closed /\ res[s].open /\ res[s].pending
  BY DEF WriteHeader, Makes, Usable, Connected
<1>3. Underway(m, r, res[s])
  BY <1>2 DEF Unmixed, Told, Connected
<1>4. /\ Status(s) \in Seq(Tokens) /\ OfRequest(Status(s), r)
      /\ ~res[s].chunked /\ ~res[s].ended /\ res[s].offset = 0
      /\ InHead(m \o Status(s), r)
  <2>1. ~res[s].chunked /\ ~res[s].ended /\ res[s].offset = 0
    BY <1>2, <1>3 DEF Underway
  <2> QED
    BY <1>1, <1>3, <2>1, StatusPut
<1>5. /\ t \in Tokens /\ t.r = r /\ t.k = "header"
      /\ <<t>> \in Seq(Tokens) /\ OfRequest(<<t>>, r)
  BY <1>1, TokenOfRequest DEF Kinds
<1> HIDE DEF t, m, r
<1>6. head \in Seq(Tokens) /\ OfRequest(head, r)
  BY <1>4, <1>5, BothOfRequest
<1>7. InHead(m \o head, r)
  <2>1. m \o Status(s) \in Seq(Tokens)
    BY <1>1, <1>4, ConcatProperties
  <2>2. InHead((m \o Status(s)) \o <<t>>, r)
    BY <1>4, <1>5, <2>1, HeaderAdded
  <2>3. (m \o Status(s)) \o <<t>> = m \o (Status(s) \o <<t>>)
    <3>1. m \in Seq(Tokens) /\ Status(s) \in Seq(Tokens) /\ <<t>> \in Seq(Tokens)
      BY <1>1, <1>4, <1>5
    <3> QED
      BY ONLY <3>1, ConcatAssociative
  <2> QED
    BY <2>2, <2>3 DEF head
<1> HIDE DEF head
<1>8. /\ res'[s].open /\ res'[s].pending /\ res'[s].status /\ ~res'[s].chunked
      /\ ~res'[s].ended /\ res'[s].offset = 0
  BY <1>1, <1>2, <1>4 DEF Conns
<1>9. Underway(m \o head, r, res'[s])
  BY <1>7, <1>8 DEF Underway
<1>10. made'[s] = made[s] \o head
  BY <1>1, <1>2
<1>11. Told(s)'
  BY <1>2, <1>6, <1>8, <1>9, <1>10, ToldMakes DEF m, r
<1>12. Keeps(s) /\ Bottom(s)
  BY <1>2, WriteHeaderKeeps DEF Bottom
<1> QED
  BY <1>8, <1>11, <1>12, UnmixedKept

(* write() of a chunk.                                                     *)
LEMMA UnmixedChunk ==
    ASSUME Inv, Unmixed, Next, NEW s \in Sockets, NEW room \in Rooms,
           WriteChunk(s, room)
    PROVE  Unmixed'
<1> DEFINE t == Token(s, "chunk", 0)
           u == Token(s, "chunked", 0)
           m == made[s]
           r == request[s]
           mark == IF res[s].chunked THEN <<>> ELSE <<u>>
           head == Status(s) \o mark
           tokens == head \o <<t>>
<1>1. /\ Types /\ m \in Seq(Tokens) /\ res \in [Sockets -> Conns]
      /\ made \in [Sockets -> Seq(Tokens)] /\ r \in Nat
  BY DEF Inv, Types
<1>2. /\ made' = [made EXCEPT ![s] = @ \o tokens] /\ UNCHANGED <<stack, request, done>>
      /\ \E f : res' = [res EXCEPT ![s].status = TRUE, ![s].chunked = TRUE,
                                   ![s].timer = @ \/ f]
      /\ ~res[s].ended /\ s \notin io.closed /\ res[s].open /\ res[s].pending
  BY DEF WriteChunk, Makes, Usable, Connected
<1>3. Underway(m, r, res[s])
  BY <1>2 DEF Unmixed, Told, Connected
<1>4. /\ Status(s) \in Seq(Tokens) /\ OfRequest(Status(s), r)
      /\ ~res[s].chunked => InHead(m \o Status(s), r)
      /\ res[s].chunked => Status(s) = <<>> /\ InChunks(m, r)
      /\ res[s].offset = 0
  BY <1>1, <1>2, <1>3, StatusPut DEF Underway
<1>5. /\ t \in Tokens /\ t.r = r /\ t.k = "chunk"
      /\ <<t>> \in Seq(Tokens) /\ OfRequest(<<t>>, r)
      /\ u \in Tokens /\ u.r = r /\ u.k = "chunked"
      /\ <<u>> \in Seq(Tokens) /\ OfRequest(<<u>>, r)
  BY <1>1, TokenOfRequest DEF Kinds
<1> HIDE DEF t, u, m, r
<1>6. mark \in Seq(Tokens) /\ OfRequest(mark, r)
  BY <1>5, NoneOfRequest
<1>7. InChunks((m \o Status(s)) \o mark, r) /\ m \o Status(s) \in Seq(Tokens)
  <2>1. m \o Status(s) \in Seq(Tokens)
    BY <1>1, <1>4, ConcatProperties
  <2>2. CASE res[s].chunked
    <3>1. (m \o <<>>) \o <<>> = m
      BY <1>1, ConcatEmptySeq
    <3> QED
      BY <1>4, <2>1, <2>2, <3>1
  <2>3. CASE ~res[s].chunked
    BY <1>4, <1>5, <2>1, <2>3, ChunkedAdded
  <2> QED
    BY <2>1, <2>2, <2>3
<1> HIDE DEF mark
<1>8. head \in Seq(Tokens) /\ OfRequest(head, r) /\ m \o head = (m \o Status(s)) \o mark
  <2>1. head \in Seq(Tokens) /\ OfRequest(head, r)
    BY <1>4, <1>6, BothOfRequest
  <2>2. m \o (Status(s) \o mark) = (m \o Status(s)) \o mark
    <3>1. m \in Seq(Tokens) /\ Status(s) \in Seq(Tokens) /\ mark \in Seq(Tokens)
      BY <1>1, <1>4, <1>6
    <3> QED
      BY ONLY <3>1, ConcatAssociative
  <2> QED
    BY <2>1, <2>2
<1> HIDE DEF head
<1>9. /\ tokens \in Seq(Tokens) /\ OfRequest(tokens, r)
      /\ m \o tokens = (m \o head) \o <<t>>
  <2>1. tokens \in Seq(Tokens) /\ OfRequest(tokens, r)
    BY <1>5, <1>8, BothOfRequest
  <2>2. m \o (head \o <<t>>) = (m \o head) \o <<t>>
    <3>1. m \in Seq(Tokens) /\ head \in Seq(Tokens) /\ <<t>> \in Seq(Tokens)
      BY <1>1, <1>5, <1>8
    <3> QED
      BY ONLY <3>1, ConcatAssociative
  <2> QED
    BY <2>1, <2>2
<1>10. InChunks((m \o head) \o <<t>>, r)
  <2>1. m \o head \in Seq(Tokens) /\ InChunks(m \o head, r)
    BY <1>1, <1>7, <1>8, ConcatProperties
  <2> QED
    BY <1>5, <2>1, ChunkAdded
<1> HIDE DEF tokens
<1>11. /\ res'[s].open /\ res'[s].pending /\ res'[s].status /\ res'[s].chunked
       /\ ~res'[s].ended /\ res'[s].offset = 0
  BY <1>1, <1>2, <1>4 DEF Conns
<1>12. Underway(m \o tokens, r, res'[s])
  BY <1>9, <1>10, <1>11 DEF Underway
<1>13. made'[s] = made[s] \o tokens
  BY <1>1, <1>2
<1>14. Told(s)'
  BY <1>2, <1>9, <1>11, <1>12, <1>13, ToldMakes DEF m, r
<1>15. Keeps(s) /\ Bottom(s)
  BY <1>2, WriteChunkKeeps DEF Bottom
<1> QED
  BY <1>11, <1>14, <1>15, UnmixedKept

(* What fits is the body's part that counts as written.                    *)
LEMMA BodyCut ==
    ASSUME Types, NEW s \in Sockets, NEW n \in Nat, NEW k \in 0..n
    PROVE  /\ SubSeq(Body(s, n), 1, k) = Body(s, k)
           /\ Body(s, k) \in Seq(Tokens) /\ Len(Body(s, k)) = k
           /\ \A j \in 1..k : /\ Body(s, k)[j].r = request[s] /\ Body(s, k)[j].k = "data"
                              /\ Body(s, k)[j].i = res[s].offset + j
<1> DEFINE b == Body(s, n)
           c == Body(s, k)
           d == SubSeq(b, 1, k)
<1>1. k \in Nat /\ b \in Seq(Tokens) /\ Len(b) = n /\ c \in Seq(Tokens) /\ Len(c) = k
  BY TokenTypes
<1>2. /\ \A j \in 1..k : b[j] = Token(s, "data", res[s].offset + j)
      /\ \A j \in 1..k : c[j] = Token(s, "data", res[s].offset + j)
  BY DEF Body
<1>3. \A j \in 1..k : /\ c[j].r = request[s] /\ c[j].k = "data"
                      /\ c[j].i = res[s].offset + j
  <2> SUFFICES ASSUME NEW j \in 1..k
               PROVE  /\ c[j].r = request[s] /\ c[j].k = "data"
                      /\ c[j].i = res[s].offset + j
    OBVIOUS
  <2>1. c[j] = Token(s, "data", res[s].offset + j)
    BY <1>2
  <2> HIDE DEF c
  <2> QED
    BY <2>1 DEF Token
<1> HIDE DEF b, c
<1>4. d \in Seq(Tokens) /\ Len(d) = k /\ \A j \in 1..k : d[j] = b[j]
  BY <1>1, Cut
<1> HIDE DEF d
<1>5. d = c
  BY <1>1, <1>2, <1>4, SeqEqual
<1> QED
  BY <1>1, <1>3, <1>5 DEF b, c, d

(* What internalEnd() with a length makes and leaves: k bytes of the n     *)
(* given count as written, all of them unless the write was optional.      *)
LengthMade(s, n, total, optionally, close, e) ==
    \E k \in 0..n :
      /\ ~optionally => k = n
      /\ e.made = (Status(s)
                   \o Farewell(s, close)
                   \o (IF res[s].ended THEN <<>>
                       ELSE <<Token(s, "length", total)>>)) \o Body(s, k)
      /\ e.res.open = res[s].open /\ e.res.status /\ e.res.ended
      /\ e.res.chunked = res[s].chunked
      /\ e.res.offset = res[s].offset + k /\ e.res.total = total
      /\ e.res.pending =
           (res[s].pending /\ res[s].offset + k # total /\ n # 0)

(* internalEnd() with a length makes the head, unless it has, and the part *)
(* of the body that counts as written: all of it, where it must be.        *)
LEMMA LengthMakes ==
    ASSUME Types, NEW s \in Sockets, s \notin io.closed, NEW n \in Nat,
           NEW total \in Nat, NEW optionally \in BOOLEAN, NEW close \in BOOLEAN,
           NEW room \in Nat, NEW e,
           e = EndWithLength(s, n, total, optionally, close, room),
           Fits(io, s, e.made)
    PROVE  LengthMade(s, n, total, optionally, close, e)
<1> DEFINE head == Status(s)
                   \o Farewell(s, close)
                   \o (IF res[s].ended THEN <<>> ELSE <<Token(s, "length", total)>>)
           data == Body(s, n)
           w == WriteBoth(s, head, data, room, optionally)
           k == w.written
           part == SubSeq(data, 1, k)
           offset == res[s].offset + k
           success == n = 0 \/ (w.written = n /\ ~w.failed)
           after == [res[s] EXCEPT !.status = TRUE, !.ended = TRUE,
                       !.close = @ \/ close, !.offset = offset, !.total = total,
                       !.timer = @ \/ ~success \/ offset = total]
           d == IF offset = total \/ n = 0 THEN MarkDone(after) ELSE after
<1>1. e.res = d /\ e.made = head \o (IF optionally THEN part ELSE data)
  BY DEF EndWithLength
<1>2. IOInv(io, Tokens) /\ res[s] \in Conns /\ res[s].offset \in Nat
  BY DEF Types, Conns
<1>3. head \in Seq(Tokens) /\ data \in Seq(Tokens) /\ Len(data) = n
  <2>1. <<>> \in Seq(Tokens)
    BY EmptySeq
  <2>2. /\ <<Token(s, "length", total)>> \in Seq(Tokens)
        /\ Status(s) \in Seq(Tokens) /\ Farewell(s, close) \in Seq(Tokens)
        /\ data \in Seq(Tokens) /\ Len(data) = n
    BY TokenTypes DEF Kinds
  <2> HIDE DEF data
  <2> QED
    BY <2>1, <2>2
<1> HIDE DEF head, data
<1>4. Both(s, head, data, optionally, w)
  BY <1>2, <1>3, WriteBothKeeps
<1>5. k \in 0..n
  BY <1>3, <1>4 DEF Both
<1> HIDE DEF w
<1>6. optionally \/ k = n
  <2> SUFFICES ASSUME ~optionally PROVE k = n
    OBVIOUS
  <2>1. e.made = head \o data /\ Len(e.made) = Len(head) + Len(data)
    <3>1. e.made = head \o data
      BY <1>1
    <3>2. Len(head \o data) = Len(head) + Len(data)
      BY <1>3, ConcatProperties
    <3> QED
      BY <3>1, <3>2
  <2>2. Fits(io, s, head)
    <3>1. Len(head) \in Nat /\ Len(data) \in Nat
      BY <1>3, LenProperties
    <3>2. Len(e.made) \in Nat /\ Len(head) \in 0..Len(e.made)
      BY <2>1, <3>1
    <3> QED
      BY <1>2, <3>2, FitsPart
  <2> QED
    BY <1>3, <1>4, <2>1, <2>2 DEF Both
<1> HIDE DEF k
<1>7. part = Body(s, k) /\ (k = n => data = Body(s, k))
  BY <1>5, BodyCut DEF data
<1> HIDE DEF part
<1>8. e.made = head \o Body(s, k)
  BY <1>1, <1>6, <1>7
<1>9. /\ d.open = res[s].open /\ d.status /\ d.ended /\ d.chunked = res[s].chunked
      /\ d.offset = offset /\ d.total = total
      /\ d.pending = (res[s].pending /\ offset # total /\ n # 0)
  <2> HIDE DEF offset, success
  <2>1. /\ after.pending = res[s].pending /\ after.ended /\ after.status
        /\ after.open = res[s].open /\ after.chunked = res[s].chunked
        /\ after.offset = offset /\ after.total = total
        /\ after = [after EXCEPT !.timer = after.timer]
        /\ MarkDone(after).pending = FALSE /\ MarkDone(after).open = after.open
        /\ MarkDone(after).ended = after.ended /\ MarkDone(after).status = after.status
        /\ MarkDone(after).chunked = after.chunked
        /\ MarkDone(after).offset = after.offset /\ MarkDone(after).total = after.total
    BY <1>2 DEF Conns, MarkDone
  <2> HIDE DEF after
  <2>2. CASE offset = total \/ n = 0
    <3>1. d = MarkDone(after)
      BY <2>2
    <3> HIDE DEF d
    <3> QED
      BY <2>1, <2>2, <3>1
  <2>3. CASE ~(offset = total \/ n = 0)
    <3>1. d = after
      BY <2>3
    <3> HIDE DEF d
    <3>2. res[s].pending \in BOOLEAN
      BY <1>2 DEF Conns
    <3> QED
      BY <2>1, <2>3, <3>1, <3>2
  <2> QED
    BY <2>2, <2>3
<1> HIDE DEF d, after, success
<1> QED
  BY <1>1, <1>5, <1>6, <1>8, <1>9 DEF head, LengthMade

(* The end of a chunked response: perhaps a chunk, and the last one.       *)
LEMMA ChunkedEnds ==
    ASSUME Types, NEW s \in Sockets, Underway(made[s], request[s], res[s]),
           res[s].chunked, NEW n \in Nat, NEW total, NEW optionally,
           NEW close \in BOOLEAN, ~close \/ res[s].close, NEW room, NEW e,
           e = EndChunked(s, n, total, optionally, close, room)
    PROVE  /\ e.made \in Seq(Tokens) /\ OfRequest(e.made, request[s])
           /\ e.res.open = res[s].open /\ ~e.res.pending
           /\ WellFormed(made[s] \o e.made, request[s])
<1> DEFINE t == Token(s, "chunk", 0)
           u == Token(s, "last", 0)
           m == made[s]
           r == request[s]
           c == IF n > 0 THEN <<t>> ELSE <<>>
           d == [MarkDone(res[s]) EXCEPT !.status = TRUE, !.timer = TRUE,
                                         !.close = @ \/ close]
<1>1. e.made = Status(s) \o Farewell(s, close) \o c \o <<u>> /\ e.res = d
  BY DEF EndChunked
<1>2. m \in Seq(Tokens) /\ res[s] \in Conns /\ InChunks(m, r)
  BY DEF Types, Underway
<1>3. d.open = res[s].open /\ ~d.pending
  BY <1>2 DEF Conns, MarkDone
<1> HIDE DEF d
<1>4. Status(s) = <<>> /\ Farewell(s, close) = <<>>
  BY <1>2, StatusPut, FarewellPut
<1>5. /\ t \in Tokens /\ t.r = r /\ t.k = "chunk"
      /\ <<t>> \in Seq(Tokens) /\ OfRequest(<<t>>, r)
      /\ u \in Tokens /\ u.r = r /\ u.k = "last"
      /\ <<u>> \in Seq(Tokens) /\ OfRequest(<<u>>, r)
  BY TokenOfRequest DEF Kinds
<1> HIDE DEF t, u, m, r
<1>6. /\ c \in Seq(Tokens) /\ OfRequest(c, r) /\ m \o c \in Seq(Tokens)
      /\ InChunks(m \o c, r)
  <2>1. <<>> \in Seq(Tokens) /\ OfRequest(<<>>, r) /\ m \o <<>> = m
    BY <1>2, NoneOfRequest, ConcatEmptySeq
  <2>2. InChunks(m \o <<t>>, r) /\ m \o <<t>> \in Seq(Tokens)
    BY <1>2, <1>5, ChunkAdded, ConcatProperties
  <2> QED
    BY <1>2, <1>5, <2>1, <2>2
<1> HIDE DEF c
<1>7. e.made = c \o <<u>>
  <2>1. <<>> \o <<>> = <<>> /\ <<>> \o c = c
    BY <1>6, NoneOfRequest, ConcatEmptySeq
  <2> QED
    BY <1>1, <1>4, <2>1
<1>8. c \o <<u>> \in Seq(Tokens) /\ OfRequest(c \o <<u>>, r)
  BY <1>5, <1>6, BothOfRequest
<1>9. WellFormed((m \o c) \o <<u>>, r)
  BY <1>5, <1>6, LastAdded
<1>10. (m \o c) \o <<u>> = m \o (c \o <<u>>)
  <2>1. m \in Seq(Tokens) /\ c \in Seq(Tokens) /\ <<u>> \in Seq(Tokens)
    BY <1>2, <1>5, <1>6
  <2> QED
    BY ONLY <2>1, ConcatAssociative
<1> QED
  BY <1>1, <1>3, <1>7, <1>8, <1>9, <1>10 DEF m, r

(* What the call leaves: the response told so far, or the whole of it.     *)
Answers(s, e) ==
    /\ e.made \in Seq(Tokens) /\ OfRequest(e.made, request[s])
    /\ e.res.open = res[s].open
    /\ IF e.res.pending THEN Underway(made[s] \o e.made, request[s], e.res)
       ELSE WellFormed(made[s] \o e.made, request[s])

(* How the calls count: only tryEnd() writes optionally, never nothing,    *)
(* and keeps to the length it has told; the other two write all or nothing *)
(* of a body whose length is not yet told.                                 *)
Counted(s, n, total, optionally) ==
    /\ ~optionally => ~res[s].ended /\ n \in {0, total}
    /\ optionally => n # 0 /\ (res[s].ended => total = res[s].total)

(* The end of a response with a length, or as much of it as is written     *)
(* now.                                                                    *)
LEMMA LengthEnds ==
    ASSUME Types, NEW s \in Sockets, s \notin io.closed, res[s].pending,
           Underway(made[s], request[s], res[s]),
           ~res[s].chunked, NEW n \in Nat, NEW total \in Nat, NEW optionally \in BOOLEAN,
           NEW close \in BOOLEAN, res[s].ended => ~close \/ res[s].close,
           Counted(s, n, total, optionally),
           NEW room \in Nat, NEW e,
           e = EndWithLength(s, n, total, optionally, close, room),
           Fits(io, s, e.made)
    PROVE  Answers(s, e)
<1>0. LengthMade(s, n, total, optionally, close, e)
  BY LengthMakes
<1> DEFINE t == Token(s, "length", total)
           m == made[s]
           r == request[s]
           o == res[s].offset
           f == Farewell(s, close)
           h == IF res[s].ended THEN <<>> ELSE <<t>>
           head == Status(s) \o f \o h
<1>1. PICK k \in 0..n :
        /\ ~optionally => k = n
        /\ e.made = head \o Body(s, k)
        /\ e.res.open = res[s].open /\ e.res.status /\ e.res.ended
        /\ e.res.chunked = res[s].chunked
        /\ e.res.offset = o + k /\ e.res.total = total
        /\ e.res.pending = (res[s].pending /\ o + k # total /\ n # 0)
  BY <1>0 DEF LengthMade
<1>2. m \in Seq(Tokens) /\ res[s] \in Conns /\ o \in Nat /\ k \in Nat /\ r \in Nat
  BY DEF Types, Conns
<1> DEFINE b == Body(s, k)
<1>3. /\ b \in Seq(Tokens) /\ Len(b) = k
      /\ \A j \in 1..Len(b) : b[j].r = r /\ b[j].k = "data" /\ b[j].i = o + j
  BY <1>2, BodyCut
<1>4. /\ t \in Tokens /\ t.r = r /\ t.k = "length" /\ t.i = total
      /\ <<t>> \in Seq(Tokens) /\ OfRequest(<<t>>, r)
  BY TokenOfRequest DEF Kinds
<1>5. /\ Status(s) \in Seq(Tokens) /\ OfRequest(Status(s), r)
      /\ ~res[s].ended => InHead(m \o Status(s), r) /\ o = 0
      /\ res[s].ended => Status(s) = <<>> /\ InBody(m, r, res[s].total, o)
  BY StatusPut DEF Underway
<1>6. m \o Status(s) \in Seq(Tokens)
  BY <1>2, <1>5, ConcatProperties
<1>7. /\ f \in Seq(Tokens) /\ OfRequest(f, r)
      /\ ~res[s].ended => InHead((m \o Status(s)) \o f, r)
      /\ res[s].ended => f = <<>>
  BY <1>5, <1>6, FarewellPut
<1> HIDE DEF t, m, r, o, f, b
<1>8. h \in Seq(Tokens) /\ OfRequest(h, r)
  BY <1>4, NoneOfRequest
<1>9. (m \o Status(s)) \o f \in Seq(Tokens)
  BY <1>6, <1>7, ConcatProperties
<1>10. InBody(((m \o Status(s)) \o f) \o h, r, total, o)
  <2>1. CASE res[s].ended
    <3>1. ((m \o <<>>) \o <<>>) \o <<>> = m
      BY <1>2, ConcatEmptySeq
    <3>2. total = res[s].total
      BY <2>1 DEF Counted
    <3>3. Status(s) = <<>> /\ f = <<>> /\ h = <<>>
      BY <1>5, <1>7, <2>1
    <3> QED
      BY <1>5, <2>1, <3>1, <3>2, <3>3
  <2>2. CASE ~res[s].ended
    BY <1>4, <1>5, <1>7, <1>9, <2>2, LengthAdded
  <2> QED
    BY <2>1, <2>2
<1> HIDE DEF h
<1>11. /\ head \in Seq(Tokens) /\ OfRequest(head, r)
       /\ m \o head = ((m \o Status(s)) \o f) \o h
  <2>1. Status(s) \o f \in Seq(Tokens) /\ OfRequest(Status(s) \o f, r)
    BY <1>5, <1>7, BothOfRequest
  <2>2. head \in Seq(Tokens) /\ OfRequest(head, r)
    BY <1>8, <2>1, BothOfRequest
  <2>3. (m \o Status(s)) \o f = m \o (Status(s) \o f)
    <3>1. m \in Seq(Tokens) /\ Status(s) \in Seq(Tokens) /\ f \in Seq(Tokens)
      BY <1>2, <1>5, <1>7
    <3> QED
      BY ONLY <3>1, ConcatAssociative
  <2>4. (m \o (Status(s) \o f)) \o h = m \o ((Status(s) \o f) \o h)
    <3>1. PICK g : g = Status(s) \o f
      OBVIOUS
    <3>2. m \in Seq(Tokens) /\ g \in Seq(Tokens) /\ h \in Seq(Tokens)
      BY <1>2, <1>8, <2>1, <3>1
    <3>3. (m \o g) \o h = m \o (g \o h)
      BY ONLY <3>2, ConcatAssociative
    <3> QED
      BY <3>1, <3>3
  <2> QED
    BY <2>2, <2>3, <2>4
<1>12. InBody(m \o head, r, total, o)
  BY <1>10, <1>11
<1> HIDE DEF head
<1>13. /\ head \o b \in Seq(Tokens) /\ OfRequest(head \o b, r)
       /\ m \o (head \o b) = (m \o head) \o b
  <2>1. OfRequest(b, r)
    BY <1>3 DEF OfRequest
  <2>2. head \o b \in Seq(Tokens) /\ OfRequest(head \o b, r)
    BY <1>3, <1>11, <2>1, BothOfRequest
  <2>3. m \o (head \o b) = (m \o head) \o b
    <3>1. m \in Seq(Tokens) /\ head \in Seq(Tokens) /\ b \in Seq(Tokens)
      BY <1>2, <1>3, <1>11
    <3> QED
      BY ONLY <3>1, ConcatAssociative
  <2> QED
    BY <2>2, <2>3
<1>14. InBody(m \o (head \o b), r, total, o + k)
  <2>1. m \o head \in Seq(Tokens)
    BY <1>2, <1>11, ConcatProperties
  <2>2. InBody((m \o head) \o b, r, total, o + Len(b))
    BY <1>2, <1>3, <1>12, <2>1, BodyAdded
  <2> QED
    BY <1>3, <1>13, <2>2
<1>15. e.made = head \o b /\ m \o (head \o b) \in Seq(Tokens)
  BY <1>1, <1>2, <1>13, ConcatProperties DEF b
<1>16. CASE e.res.pending
  <2>1. Underway(m \o e.made, r, e.res)
    BY <1>1, <1>14, <1>15, <1>16 DEF Underway, o
  <2> QED
    BY <1>1, <1>13, <1>15, <1>16, <2>1 DEF m, r, Answers
<1>17. CASE ~e.res.pending
  <2>1. o + k \in {0, total}
    <3>1. o + k = total \/ n = 0
      BY <1>1, <1>17
    <3> QED
      BY <1>1, <1>2, <1>5, <3>1 DEF Counted
  <2>2. WellFormed(m \o e.made, r)
    BY <1>2, <1>14, <1>15, <2>1, BodyWhole
  <2> QED
    BY <1>1, <1>13, <1>15, <1>17, <2>2 DEF m, r, Answers
<1> QED
  BY <1>16, <1>17

(* What a call makes fits the cork buffer.                                 *)
LEMMA FitsMade ==
    ASSUME Inv, NEW s \in Sockets, NEW src \in Seq(Tokens),
           made' = [made EXCEPT ![s] = @ \o src], CorkFits
    PROVE  Fits(io, s, src)
<1> DEFINE a == Len(io.cork)
           b == Len(made[s])
           c == Len(src)
<1>1. made \in [Sockets -> Seq(Tokens)] /\ made[s] \in Seq(Tokens)
  BY DEF Inv, Types
<1>2. made'[s] = made[s] \o src /\ Len(made[s] \o src) = b + c
  BY <1>1, ConcatProperties
<1>3. a \in Nat /\ b \in Nat /\ c \in Nat /\ CorkSize \in Nat
  BY <1>1, LenProperties, Components, CorkAssumption DEF Inv, Types, IOInv, IOSafe
<1>4. io.corked = s => a + (b + c) <= CorkSize + b
  BY <1>2 DEF CorkFits
<1> HIDE DEF a, b, c
<1>5. io.corked = s => a + c <= CorkSize
  BY <1>3, <1>4
<1> QED
  BY <1>5 DEF Fits, a, c

(* The end of internalEnd().                                               *)
LEMMA UnmixedConclude ==
    ASSUME Inv, Unmixed, NEW s \in Sockets, s \notin io.closed, res[s].pending,
           Keeps(s), NEW e, Conclude(s, e), e.made \in Seq(Tokens),
           OfRequest(e.made, request[s]), e.res.open,
           IF e.res.pending THEN Underway(made[s] \o e.made, request[s], e.res)
           ELSE WellFormed(made[s] \o e.made, request[s])
    PROVE  Unmixed'
<1>1. /\ made' = [made EXCEPT ![s] = @ \o e.made] /\ res' = [res EXCEPT ![s] = e.res]
      /\ UNCHANGED <<stack, request>>
      /\ done' = IF e.res.pending THEN done
                 ELSE [done EXCEPT ![s] = @ \cup {request[s]}]
  BY DEF Conclude, Makes
<1>2. /\ made'[s] = made[s] \o e.made /\ res'[s] = e.res /\ request'[s] = request[s]
      /\ done'[s] = IF e.res.pending THEN done[s] ELSE done[s] \cup {request[s]}
  BY <1>1 DEF Inv, Types
<1>3. Told(s)'
  BY <1>2, ToldMakes
<1>4. Bottom(s)
  BY <1>1 DEF Bottom
<1> QED
  BY <1>2, <1>3, <1>4, UnmixedKept

(* end(), endWithoutBody() and tryEnd().                                   *)
LEMMA UnmixedEnds ==
    ASSUME "lateclose" \notin Usage, Inv, Unmixed, Next, CorkFits, NEW s \in Sockets,
           NEW n \in Bodies, NEW total \in Bodies, NEW close \in BOOLEAN,
           NEW room \in Rooms,
           \/ End(s, n, close, room) \/ EndWithoutBody(s, n, close, room)
           \/ TryEnd(s, n, total, close, room)
    PROVE  Unmixed'
<1>1. Types /\ n \in Nat /\ total \in Nat /\ room \in Nat
  BY HttpAssumption DEF Inv
<1>2. Keeps(s)
  BY EndsKeep
<1>3. EndAllowed(s, close) /\ Usable(s)
  BY DEF End, EndWithoutBody, TryEnd, InternalEnd
<1>4. /\ s \notin io.closed /\ res[s].open /\ res[s].pending
      /\ Underway(made[s], request[s], res[s])
      /\ res[s].chunked \/ res[s].ended => ~close \/ res[s].close
  BY <1>3 DEF Usable, Connected, EndAllowed, Unmixed, Told
<1>5. ASSUME NEW m \in Nat, NEW sum \in Nat, NEW optionally \in BOOLEAN,
             InternalEnd(s, m, sum, optionally, close, room),
             Counted(s, m, sum, optionally)
      PROVE  Unmixed'
  <2>1. CASE res[s].chunked
    <3> DEFINE e == EndChunked(s, m, sum, optionally, close, room)
    <3>1. Conclude(s, e)
      BY <1>5, <2>1 DEF InternalEnd
    <3>2. /\ e.made \in Seq(Tokens) /\ OfRequest(e.made, request[s])
          /\ e.res.open = res[s].open /\ ~e.res.pending
          /\ WellFormed(made[s] \o e.made, request[s])
      BY <1>1, <1>4, <2>1, ChunkedEnds
    <3> HIDE DEF e
    <3> QED
      BY <1>2, <1>4, <3>1, <3>2, UnmixedConclude
  <2>2. CASE ~res[s].chunked
    <3>1. PICK e : e = EndWithLength(s, m, sum, optionally, close, room)
      OBVIOUS
    <3>2. Conclude(s, e)
      BY <1>5, <2>2, <3>1 DEF InternalEnd
    <3>3. e.made \in Seq(Tokens)
      BY <1>1, <1>4, <3>1, EndWithLengthKeeps DEF Ended
    <3>4. Fits(io, s, e.made)
      BY <3>2, <3>3, FitsMade DEF Conclude, Makes
    <3>5. res[s].ended => ~close \/ res[s].close
      BY <1>4
    <3>6. Answers(s, e)
      BY <1>1, <1>4, <1>5, <2>2, <3>1, <3>4, <3>5, LengthEnds
    <3> QED
      BY <1>2, <1>4, <3>2, <3>6, UnmixedConclude DEF Answers
  <2> QED
    BY <2>1, <2>2
<1>6. CASE End(s, n, close, room)
  BY <1>1, <1>5, <1>6 DEF End, Counted
<1>7. CASE EndWithoutBody(s, n, close, room)
  BY <1>1, <1>5, <1>7 DEF EndWithoutBody, Counted
<1>8. CASE TryEnd(s, n, total, close, room)
  <2>1. n # 0
    BY <1>1, <1>8 DEF TryEnd
  <2> QED
    BY <1>1, <1>5, <1>8, <2>1 DEF TryEnd, Counted
<1> QED
  BY <1>6, <1>7, <1>8

(* Every step keeps the responses apart, if what it makes fits.            *)
LEMMA NextUnmixed ==
    ASSUME "lateclose" \notin Usage, Inv, Unmixed, [Next]_vars, [CorkFits]_vars
    PROVE  Unmixed'
<1>1. CASE UNCHANGED vars
  BY <1>1 DEF vars, Unmixed, OpenData, Told, Connected
<1>2. CASE Next /\ Handlers
  <2>1. CASE \E s \in Sockets : OnOpen(s)
    BY <2>1, UnmixedOpen
  <2>2. CASE \E s \in Sockets, close \in BOOLEAN, body \in BodyKinds :
               Request(s, close, body)
    BY <2>2, UnmixedRequest
  <2>3. CASE \E s \in Sockets :
               RequestRefused(s) \/ \E close \in BOOLEAN : RequestUnrouted(s, close)
    BY <2>3, UnmixedRefused
  <2>4. CASE \E s \in Sockets :
               \/ OnData(s) \/ OnWritable(s) \/ OnEnd(s) \/ OnTimeout(s)
               \/ \E fin \in BOOLEAN : PieceIgnored(s, fin)
               \/ \E n \in 0..1, fin, heeded \in BOOLEAN : PieceReceived(s, fin, n, heeded)
               \/ \E room \in Rooms : Malformed(s, room) \/ OnWritableDrain(s, room)
    BY <1>2, <2>4, UnmixedHandlers
  <2>5. CASE \/ HandlerReturn \/ StreamReturn \/ WritableReturn
             \/ \E room \in Rooms : DataReturn(room)
    BY <1>2, <2>5, UnmixedReturns
  <2> QED
    BY <1>2, <2>1, <2>2, <2>3, <2>4, <2>5 DEF Handlers
<1>3. CASE Next /\ Application /\ ~UNCHANGED vars
  <2>1. CASE \E s \in Sockets, room \in Rooms : WriteHeader(s, room)
    BY <1>3, <2>1, UnmixedHeader
  <2>2. CASE \E s \in Sockets, room \in Rooms : WriteChunk(s, room)
    BY <1>3, <2>2, UnmixedChunk
  <2>3. CASE \E s \in Sockets, n, total \in Bodies, close \in BOOLEAN, room \in Rooms :
               \/ End(s, n, close, room) \/ EndWithoutBody(s, n, close, room)
               \/ TryEnd(s, n, total, close, room)
    BY <1>3, <2>3, UnmixedEnds
  <2>4. CASE \E s \in Sockets :
               \/ AttachAborted(s) \/ AttachWritable(s) \/ AttachData(s)
               \/ Pause(s) \/ Resume(s) \/ Close(s) \/ CorkBegin(s)
    BY <1>3, <2>4, UnmixedCalls
  <2>5. CASE \E room \in Rooms : CorkEnd(room)
    BY <1>3, <2>5, UnmixedCorkEnd
  <2> QED
    BY <1>3, <2>1, <2>2, <2>3, <2>4, <2>5 DEF Application
<1> QED
  BY <1>1, <1>2, <1>3 DEF Next

(* No response is begun at first.                                          *)
LEMMA UnmixedInit ==
    ASSUME Init
    PROVE  Unmixed
<1>1. stack = <<>> /\ Len(<<>>) = 0
  BY EmptySeq DEF Init
<1>2. ASSUME NEW s \in Sockets PROVE Told(s)
  <2>1. /\ made[s] = <<>> /\ request[s] = 0 /\ done[s] = {} /\ ~res[s].pending
    BY DEF Init, Fresh
  <2>2. InOrder(<<>>, 0)
    BY <1>1 DEF InOrder
  <2> QED
    BY <2>1, <2>2 DEF Told
<1> QED
  BY <1>1, <1>2 DEF Unmixed, OpenData

(* Responses come in the order of the requests, and each is well formed    *)
(* and complete when the application is told it is, however it was         *)
(* written, corked and drained: of every execution in which no call        *)
(* overfills the cork buffer.                                              *)
THEOREM ResponsesKeptApart ==
    ASSUME "lateclose" \notin Usage
    PROVE  Spec /\ [][CorkFits]_vars => []ResponsesNotMixed
<1>1. Inv /\ Unmixed /\ [Next]_vars /\ [CorkFits]_vars => Unmixed'
  BY NextUnmixed
<1>2. Unmixed => ResponsesNotMixed
  BY DEF Unmixed, Told, InOrder, ResponsesNotMixed
<1> QED
  BY <1>1, <1>2, UnmixedInit, Invariant, PTL DEF Spec

(* And so of every instance whose responses are no longer than the cork    *)
(* buffer.                                                                 *)
THEOREM ResponsesKeptApartBounded ==
    ASSUME "lateclose" \notin Usage, MaxTokens <= CorkSize
    PROVE  Spec => []ResponsesNotMixed
<1>1. Inv /\ Intact /\ Unmixed /\ [Next]_vars => Unmixed'
  BY BoundFits, NextUnmixed
<1>2. Unmixed => ResponsesNotMixed
  BY DEF Unmixed, Told, InOrder, ResponsesNotMixed
<1> QED
  BY <1>1, <1>2, UnmixedInit, Invariant, IntactBounded, PTL DEF Spec

=============================================================================
