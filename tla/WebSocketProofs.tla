---------------------------- MODULE WebSocketProofs ----------------------------
(***************************************************************************)
(* Proofs about WebSocket, for any number of sockets, any nesting of       *)
(* handlers and cork blocks, any sizes of frames and buffers and any       *)
(* number of published messages, of applications that upgrade only what is *)
(* parsed inside the parser and call nothing in a dropped handler.         *)
(***************************************************************************)
EXTENDS WebSocket, AsyncSocketProofs

(* A call has added the bytes to the stream of its socket, unless that is  *)
(* closed, and at most has freed the cork its socket had.                  *)
Moved(o, p, s, bytes) ==
    /\ IOInv(p, Nat)
    /\ OnlyOf(o, p, s)
    /\ p.corked = o.corked \/ (o.corked = s /\ p.corked = Nil)
    /\ o.corked # s => p.cork = o.cork
    /\ s \notin o.closed => Stream(p, s) = Stream(o, s) \o bytes

(* What a send of the frame has become.                                    *)
SentOff(o, s, frame, r) ==
    /\ Moved(o, r.io, s, frame)
    /\ r.status \in {"SUCCESS", "BACKPRESSURE"}
    /\ r.status = "SUCCESS" /\ r.io.corked # s => r.io.raw[s] = <<>>

(* A long send keeps the stream whether or not the kernel takes all of it. *)
LEMMA LongSendKeeps ==
    ASSUME NEW o, IOInv(o, Nat), NEW s \in Sockets, NEW frame \in Seq(Nat),
           NEW room \in Nat, TotalLength(o, s) = 0, o.cork = <<>>
    PROVE  SentOff(o, s, frame, LongSend(o, s, frame, room))
  <1> DEFINE n == Takes(o, s, room, Len(frame))
             first == SubSeq(frame, 1, n)
             rest == SubSeq(frame, n + 1, Len(frame))
             after == KernelWrite(o, s, first)
             r == LongSend(o, s, frame, room)
  <1>1. Len(frame) \in Nat /\ n \in 0..Len(frame) /\ n <= room
    BY TakesBound
  <1> HIDE DEF n
  <1>2. /\ first \in Seq(Nat) /\ rest \in Seq(Nat) /\ first \o rest = frame
        /\ n = Len(frame) => first = frame
    BY <1>1, Cut, SubSeqFull
  <1>3. /\ IOSafe(o, Nat) /\ Pending(o, s) \in Seq(Nat)
        /\ o.raw[s] = <<>> /\ Stream(o, s) = Pending(o, s)
    <2>1. IOSafe(o, Nat)
      BY DEF IOInv
    <2>2. o.raw[s] \in Seq(Nat) /\ Len(o.raw[s]) = 0
      BY <2>1, Components DEF IOSafe, TotalLength
    <2> QED
      BY <2>1, <2>2, EmptySeq, PendingType, StreamEnds
  <1> HIDE DEF first, rest, r
  <1>4. /\ IOSafe(after, Nat) /\ OnlyOf(o, after, s)
        /\ after.corked = o.corked /\ after.cork = <<>>
        /\ after.raw[s] = <<>>
        /\ Pending(after, s) = Pending(o, s) \o first
    <2>1. IOSafe(o, Nat) /\ first \in Seq(Nat) /\ o.raw[s] = <<>>
      BY <1>2, <1>3
    <2> QED
      BY <2>1, PassKeeps
  <1> HIDE DEF after
  <1> SUFFICES SentOff(o, s, frame, r)
    BY DEF r
  <1>5. CASE n = Len(frame)
    <2>1. r.io = after /\ r.status = "SUCCESS"
      BY <1>5 DEF r, LongSend, n, first, after
    <2>2. Stream(after, s) = Pending(after, s)
      BY <1>4, StreamEnds
    <2> QED
      BY <1>2, <1>3, <1>4, <1>5, <2>1, <2>2 DEF SentOff, Moved, IOInv, CorkOwned
  <1>6. CASE n # Len(frame)
    <2> DEFINE q == AppendRaw(after, s, rest)
               p == UncorkWithoutSending(q, s)
    <2>1. r.io = p /\ r.status = "BACKPRESSURE"
      BY <1>6 DEF r, LongSend, n, first, rest, after
    <2>2. /\ IOSafe(q, Nat) /\ OnlyOf(after, q, s) /\ q.corked = after.corked
          /\ q.cork = after.cork /\ Pending(q, s) = Pending(after, s) \o rest
      <3>1. IOSafe(after, Nat) /\ rest \in Seq(Nat)
        BY <1>2, <1>4
      <3> QED
        BY <3>1, AppendKeeps, SMTT(60)
    <2> HIDE DEF q
    <2>3. /\ IOType(p, Nat) /\ CorkOnly(q, p) /\ p.cork = <<>>
          /\ p.corked = IF q.corked = s THEN Nil ELSE q.corked
      BY <1>4, <2>2 DEF UncorkWithoutSending, IsCorked, CorkOnly, IOSafe, IOType
    <2> HIDE DEF p
    <2>4. IOSafe(p, Nat) /\ OnlyOf(q, p, s) /\ Pending(p, s) = Pending(q, s)
      <3>1. Len(p.cork) <= CorkSize
        BY <2>3, EmptySeq, CorkAssumption
      <3> QED
        BY <2>2, <2>3, <3>1, CorkOnlyKeeps
    <2>5. Stream(p, s) = Stream(o, s) \o frame
      <3> DEFINE x == Pending(o, s)
      <3>1. x \in Seq(Nat) /\ first \in Seq(Nat) /\ rest \in Seq(Nat)
        BY <1>2, <1>3
      <3>2. Stream(p, s) = (x \o first) \o rest
        BY <1>4, <2>2, <2>3, <2>4, StreamEnds
      <3> HIDE DEF x
      <3>3. (x \o first) \o rest = x \o (first \o rest)
        BY <3>1, ConcatAssociative, SMTT(30)
      <3> QED
        BY <1>2, <1>3, <3>2, <3>3 DEF x
    <2>6. OnlyOf(o, p, s)
      BY <1>4, <2>2, <2>4 DEF OnlyOf
    <2> QED
      BY <1>4, <2>1, <2>2, <2>3, <2>4, <2>5, <2>6 DEF SentOff, Moved, IOInv, CorkOwned
  <1> QED
    BY <1>5, <1>6

(* So does a send by way of the cork buffer, which never takes the cork    *)
(* from whoever has it.                                                    *)
LEMMA BufferedSendKeeps ==
    ASSUME NEW o, IOInv(o, Nat), NEW s \in Sockets, s \notin o.closed,
           NEW frame \in Seq(Nat), NEW room \in Nat
    PROVE  LET r == BufferedSend(o, s, frame, room)
           IN  SentOff(o, s, frame, r) /\ r.io.corked = o.corked
  <1> DEFINE b == GetSendBuffer(o, s, frame)
             r == BufferedSend(o, s, frame, room)
             wd == Write(b.io, s, <<>>, room, FALSE)
             wu == Uncork(b.io, s, <<>>, room, FALSE)
  <1>1. Buffered(o, Nat, s, frame, b)
    BY GetSendBufferKeeps
  <1> HIDE DEF b
  <1>2. /\ IOInv(b.io, Nat) /\ OnlyOf(o, b.io, s) /\ b.io.closed = o.closed
        /\ Stream(b.io, s) = Stream(o, s) \o frame
    BY <1>1 DEF Buffered, OnlyOf
  <1>3. ASSUME NEW w, Drained(b.io, Nat, s, w)
        PROVE  /\ IOInv(w.io, Nat) /\ OnlyOf(o, w.io, s)
               /\ Stream(w.io, s) = Stream(o, s) \o frame
               /\ ~w.failed => w.io.raw[s] = <<>>
               /\ b.io.corked # s => w.io.cork = b.io.cork
    BY <1>2, <1>3 DEF Drained, OnlyOf
  <1> HIDE DEF r, wd, wu
  <1> SUFFICES SentOff(o, s, frame, r) /\ r.io.corked = o.corked
    BY DEF r
  <1>4. CASE b.attribute = "NEEDS_NOTHING"
    <2>1. r.io = b.io /\ r.status = "SUCCESS"
      BY <1>4 DEF r, BufferedSend, b, Result
    <2>2. b.io.corked = s /\ o.corked = s /\ b.io.raw[s] = <<>>
      BY <1>1, <1>4 DEF Buffered
    <2> QED
      BY <1>2, <2>1, <2>2 DEF SentOff, Moved
  <1>5. CASE b.attribute = "NEEDS_DRAIN"
    <2>1. r.io = wd.io /\ r.status = IF wd.failed THEN "BACKPRESSURE" ELSE "SUCCESS"
      BY <1>5 DEF r, BufferedSend, b, wd
    <2>2. Drained(b.io, Nat, s, wd) /\ wd.io.corked = b.io.corked
      <3>1. IOInv(b.io, Nat)
        BY <1>2
      <3> QED
        BY <3>1, DrainKeeps DEF wd
    <2>3. b.io.corked = o.corked /\ (o.corked # s => b.io.cork = o.cork)
      BY <1>1, <1>5 DEF Buffered
    <2> QED
      BY <1>3, <2>1, <2>2, <2>3 DEF SentOff, Moved
  <1>6. CASE b.attribute = "NEEDS_UNCORK"
    <2>1. r.io = wu.io /\ r.status = IF wu.failed THEN "BACKPRESSURE" ELSE "SUCCESS"
      BY <1>6 DEF r, BufferedSend, b, wu
    <2>2. b.io.corked = s /\ o.corked = Nil
      BY <1>1, <1>6 DEF Buffered
    <2>3. Drained(b.io, Nat, s, wu) /\ wu.io.corked = Nil
      <3>1. IOInv(b.io, Nat) /\ b.io.corked = s
        BY <1>2, <2>2
      <3>2. Uncorked(b.io, Nat, s, wu)
        BY <3>1, UncorkDrains DEF wu
      <3> QED
        BY <3>1, <3>2 DEF Uncorked
    <2>4. IOInv(wu.io, Nat) /\ wu.io.cork = <<>> /\ o.cork = <<>>
      BY <1>3, <2>2, <2>3 DEF IOInv, CorkOwned
    <2> QED
      BY <1>3, <2>1, <2>2, <2>3, <2>4 DEF SentOff, Moved
  <1> QED
    BY <1>1, <1>4, <1>5, <1>6 DEF Buffered

(* A send is refused over the limit, or it is one of these; only one on    *)
(* the path of long sends may leave its socket without the cork.           *)
LEMMA SendResultKeeps ==
    ASSUME IOInv(io, Nat), NEW s \in Sockets, s \notin io.closed,
           NEW frame \in Seq(Nat), NEW room \in Nat, NEW special \in BOOLEAN
    PROVE  LET r == SendResult(s, frame, room, special)
           IN  /\ \/ r.status = "DROPPED" /\ r.io = io /\ MaxBackpressure > 0
                  \/ r.status # "DROPPED" /\ SentOff(io, s, frame, r)
               /\ ~special => r.io.corked = io.corked
  <1> DEFINE r == SendResult(s, frame, room, special)
             over == OverLimit(s)
             long == /\ special /\ Len(frame) >= CorkSize
                     /\ TotalLength(io, s) = 0 /\ io.cork = <<>>
  <1>1. CASE over
    BY <1>1 DEF SendResult, OverLimit
  <1>2. CASE ~over /\ long
    <2>1. r = LongSend(io, s, frame, room)
      BY <1>2 DEF SendResult
    <2> HIDE DEF r
    <2>2. SentOff(io, s, frame, r)
      BY <1>2, <2>1, LongSendKeeps
    <2> QED
      BY <1>2, <2>2 DEF SentOff, r
  <1>3. CASE ~over /\ ~long
    <2>1. r = BufferedSend(io, s, frame, room)
      BY <1>3 DEF SendResult
    <2> HIDE DEF r
    <2>2. SentOff(io, s, frame, r) /\ r.io.corked = io.corked
      BY <2>1, BufferedSendKeeps
    <2> QED
      BY <2>2 DEF SentOff, r
  <1> QED
    BY <1>1, <1>2, <1>3

(* uncork() adds nothing, and frees the cork if it was the socket's.       *)
LEMMA FreeKeeps ==
    ASSUME IOInv(io, Nat), NEW s \in Sockets, NEW room \in Nat
    PROVE  LET r == Uncork(io, s, <<>>, room, FALSE)
           IN  /\ Moved(io, r.io, s, <<>>) /\ r.io.corked # s
               /\ io.corked # s => r.io = io
  <1> DEFINE r == Uncork(io, s, <<>>, room, FALSE)
  <1>1. Uncorked(io, Nat, s, r)
    BY UncorkDrains
  <1> HIDE DEF r
  <1>2. Stream(io, s) \o <<>> = Stream(io, s) /\ s # Nil
    BY PendingType, ConcatEmptySeq, SocketAssumption DEF IOInv
  <1>3. CASE io.corked = s
    BY <1>1, <1>2, <1>3 DEF Uncorked, Drained, Moved, r
  <1>4. CASE io.corked # s
    BY <1>1, <1>2, <1>4 DEF Uncorked, Moved, OnlyOf, r
  <1> QED
    BY <1>3, <1>4


-----------------------------------------------------------------------------
(* The inductive invariant.                                                *)

(* What the application leaves alone: upgrades of other responses inside   *)
(* the HTTP parser, and calls in a dropped handler.                        *)
Careful == "upgrade" \notin Usage /\ "dropped" \notin Usage

Calls == {"http", "data", "block", "response"}
Drains == {"drain", "dropped"}
Waits == {"send", "end"}
Frames == [kind : Calls \cup Drains \cup Waits, s : Sockets,
           uncork : BOOLEAN, left : Nat]

(* Every byte of an open socket is accounted for, and a socket that is no  *)
(* WebSocket yet has none.                                                 *)
Bytes ==
    /\ IOInv(io, Nat)
    /\ upgraded \subseteq Sockets
    /\ io.fin \subseteq upgraded /\ io.closed \subseteq upgraded
    /\ accepted \in [Sockets -> Nat]
    /\ \A s \in Sockets \ io.closed : Stream(io, s) = Counted(accepted[s])
    /\ \A s \in Sockets \ upgraded : accepted[s] = 0

(* The types of what the handlers keep.                                    *)
Kept ==
    /\ slot \in upgraded \cup {Nil}
    /\ shuttingDown \subseteq upgraded /\ timedOut \subseteq upgraded
    /\ timer \in [Sockets -> {"first", "rearmed", "second"}]
    /\ subscribed \subseteq upgraded
    /\ queued \in [Sockets -> Nat]
    /\ needsUncork \in BOOLEAN
    /\ refused \subseteq shuttingDown
    /\ closeEvents \in [Sockets -> Nat]

(* A data handler is outermost; a drain is innermost, and a send or an     *)
(* end() that waits for it is right outside it.                            *)
Nested(st) ==
    /\ st \in Seq(Frames)
    /\ \A i \in 1..Len(st) :
        /\ st[i].kind \in {"http", "data"} => i = 1
        /\ i < Len(st) =>
            \/ st[i].kind \in Calls
            \/ st[i].kind \in Waits /\ i + 1 = Len(st) /\ st[i + 1].kind \in Drains

(* Nothing closes the socket of a drain, or of what waits for one; a drain *)
(* that corked will uncork.                                                *)
Fine(f) ==
    /\ f.kind \in Drains \cup Waits => f.s \in upgraded \ io.closed
    /\ f.kind \in Drains /\ f.uncork => needsUncork
    /\ f.kind \in Waits => ~f.uncork
    /\ f.kind = "end" => f.s \in shuttingDown

(* The innermost of those who will release the cork buffer is who holds    *)
(* it, if anybody does.                                                    *)
Owned(st, c) ==
    c # Nil => \E i \in 1..Len(st) :
                   /\ st[i].uncork /\ st[i].s = c
                   /\ \A j \in (i + 1)..Len(st) : ~st[j].uncork

(* The slot is for the socket whose request is parsed.                     *)
Slotted ==
    /\ slot # Nil => Parsed(slot)
    /\ Parsing /\ stack[1].s \in upgraded => slot # Nil

Stacked ==
    /\ Nested(stack)
    /\ \A i \in 1..Len(stack) : Fine(stack[i])
    /\ Owned(stack, io.corked)
    /\ Slotted

Inv == Bytes /\ Kept /\ Stacked /\ CloseOnce

-----------------------------------------------------------------------------
(* A step about one socket.                                                *)
(* Nothing of another socket has changed, the cork it may have included.   *)
Aside(o, p, s) ==
    /\ IOInv(p, Nat)
    /\ p.fin \subseteq o.fin \cup {s}
    /\ o.closed \subseteq p.closed /\ p.closed \subseteq o.closed \cup {s}
    /\ \A t \in Sockets \ {s} :
        /\ p.raw[t] = o.raw[t] /\ p.removed[t] = o.removed[t]
        /\ p.sent[t] = o.sent[t]
        /\ p.corked = t <=> o.corked = t
        /\ o.corked = t => p.cork = o.cork

(* A call for a socket leaves other sockets alone.                         *)
LEMMA MovedAside ==
    ASSUME NEW o, IOInv(o, Nat), NEW s \in Sockets, NEW p, NEW bytes,
           Moved(o, p, s, bytes)
    PROVE  Aside(o, p, s)
  BY SocketAssumption DEF Moved, Aside, OnlyOf

(* FIN changes nothing else.                                               *)
Finned(o, p, s, q) ==
    /\ Aside(o, q, s) /\ Stream(q, s) = Stream(p, s)
    /\ q.corked = p.corked /\ q.raw = p.raw /\ q.sent = p.sent
    /\ q.closed = p.closed
    /\ q.fin = IF s \in p.closed THEN p.fin ELSE p.fin \cup {s}

(* us_socket_shutdown() of a socket.                                       *)
LEMMA ShutdownKeeps ==
    ASSUME NEW o, NEW s \in Sockets, NEW p, Aside(o, p, s)
    PROVE  Finned(o, p, s, Shutdown(p, s))
  <1> DEFINE q == Shutdown(p, s)
  <1>1. IOInv(p, Nat) /\ IOType(p, Nat)
    BY DEF Aside, IOInv, IOSafe
  <1>2. /\ CorkOnly([p EXCEPT !.fin = {}], [q EXCEPT !.fin = {}])
        /\ IOType(q, Nat) /\ q.corked = p.corked /\ q.cork = p.cork
        /\ q.raw = p.raw /\ q.removed = p.removed /\ q.sent = p.sent
        /\ q.closed = p.closed
        /\ q.fin = IF s \in p.closed THEN p.fin ELSE p.fin \cup {s}
    BY <1>1 DEF IOType, Shutdown, CorkOnly
  <1> HIDE DEF q
  <1>3. IOInv(q, Nat)
    BY <1>1, <1>2 DEF IOInv, IOSafe, Exact, CorkOwned
  <1>4. Stream(q, s) = Stream(p, s)
    BY <1>2 DEF Stream, Pending, Data, IsCorked
  <1>5. Aside(o, q, s)
    BY <1>2, <1>3 DEF Aside
  <1> QED
    BY <1>2, <1>4, <1>5 DEF q, Finned

(* What leaves a socket alone leaves its stream alone.                     *)
LEMMA AsideStream ==
    ASSUME NEW o, NEW s \in Sockets, NEW p, Aside(o, p, s),
           NEW t \in Sockets \ {s}
    PROVE  Stream(p, t) = Stream(o, t)
  BY DEF Aside, Stream, Pending, Data, IsCorked

(* The next n bytes.                                                       *)
LEMMA FrameNext ==
    ASSUME NEW s \in Sockets, accepted[s] \in Nat, NEW n \in Nat
    PROVE  /\ Frame(s, n) \in Seq(Nat) /\ Len(Frame(s, n)) = n
           /\ Counted(accepted[s]) \o Frame(s, n) = Counted(accepted[s] + n)
  <1> DEFINE a == accepted[s]
             f == Frame(s, n)
             c == Counted(a)
             d == Counted(a + n)
  <1>1. f \in Seq(Nat) /\ Len(f) = n /\ \A i \in 1..n : f[i] = a + i
    BY DEF Frame
  <1>2. c \in Seq(Nat) /\ Len(c) = a /\ \A i \in 1..a : c[i] = i
    BY DEF Counted
  <1>3. d \in Seq(Nat) /\ Len(d) = a + n /\ \A i \in 1..(a + n) : d[i] = i
    BY DEF Counted
  <1> HIDE DEF f, c, d, a
  <1>4. a \in Nat
    BY DEF a
  <1>5. /\ c \o f \in Seq(Nat) /\ Len(c \o f) = a + n
        /\ \A i \in 1..(a + n) :
             (c \o f)[i] = IF i <= a THEN c[i] ELSE f[i - a]
    BY <1>1, <1>2, <1>4, ConcatProperties
  <1>6. c \o f = d
    <2>1. ASSUME NEW i \in 1..(a + n) PROVE (c \o f)[i] = d[i]
      <3>1. CASE i <= a
        BY <1>2, <1>3, <1>4, <1>5, <3>1
      <3>2. CASE ~(i <= a)
        <4>1. i - a \in 1..n
          BY <1>4, <3>2
        <4>2. f[i - a] = a + (i - a)
          BY <1>1, <4>1
        <4>3. f[i - a] = i
          BY <1>4, <4>2
        <4>4. (c \o f)[i] = f[i - a]
          BY <1>5, <3>2
        <4>5. d[i] = i
          BY <1>3
        <4> QED
          BY <4>3, <4>4, <4>5
      <3> QED
        BY <3>1, <3>2
    <2> QED
      BY <1>3, <1>5, <2>1, SeqEqual
  <1> QED
    BY <1>1, <1>6 DEF f, c, d, a


(* What the invariant says of the parts that every action reads.           *)
LEMMA Facts ==
    ASSUME Inv
    PROVE  /\ IOInv(io, Nat) /\ upgraded \subseteq Sockets
           /\ io.closed \subseteq upgraded /\ io.fin \subseteq upgraded
           /\ accepted \in [Sockets -> Nat] /\ Room \subseteq Nat
           /\ \A s \in Sockets \ io.closed : Stream(io, s) = Counted(accepted[s])
           /\ \A s \in Sockets : Aside(io, io, s)
           /\ io.corked \in Sockets \cup {Nil}
           /\ stack \in Seq(Frames) /\ Len(stack) \in Nat
           /\ \A i \in 1..Len(stack) : stack[i] \in Frames
           /\ stack = <<>> <=> Len(stack) = 0
           /\ stack = <<>> => io.corked = Nil
  <1>1. Bytes /\ IOInv(io, Nat) /\ stack \in Seq(Frames)
    BY DEF Inv, Bytes, Stacked, Nested
  <1>2. io.corked \in Sockets \cup {Nil}
    BY <1>1 DEF IOInv, IOSafe, IOType
  <1>3. /\ Len(stack) \in Nat /\ stack = <<>> <=> Len(stack) = 0
        /\ \A i \in 1..Len(stack) : stack[i] \in Frames
    BY <1>1, EmptySeq
  <1>4. stack = <<>> => io.corked = Nil
    BY <1>3 DEF Inv, Stacked, Owned
  <1>5. \A s \in Sockets : Aside(io, io, s)
    BY <1>1 DEF Aside
  <1>6. Room \subseteq Nat
    BY ConfigAssumption DEF Room
  <1> QED
    BY <1>1, <1>2, <1>3, <1>4, <1>5, <1>6 DEF Bytes

(* What a step about one socket leaves to show of the bytes.               *)
LEMMA Apart ==
    ASSUME Inv, NEW s \in Sockets, Aside(io, io', s),
           upgraded' \in {upgraded, upgraded \cup {s}},
           s \in io'.fin \cup io'.closed => s \in upgraded',
           accepted' \in [Sockets -> Nat],
           \A t \in Sockets \ {s} : accepted'[t] = accepted[t],
           s \notin upgraded' => accepted'[s] = 0,
           s \in io'.closed \/ Stream(io', s) = Counted(accepted'[s])
    PROVE  Bytes'
  <1>1. IOInv(io', Nat) /\ upgraded' \subseteq Sockets
    BY Facts DEF Aside
  <1>2. io'.fin \subseteq upgraded' /\ io'.closed \subseteq upgraded'
    BY Facts DEF Aside
  <1>3. ASSUME NEW t \in Sockets \ io'.closed
        PROVE  Stream(io', t) = Counted(accepted'[t])
    <2>1. CASE t = s
      BY <1>3, <2>1
    <2>2. CASE t # s
      <3>1. t \in Sockets \ {s} /\ t \notin io.closed
        BY <1>3, <2>2 DEF Aside
      <3>2. Stream(io', t) = Stream(io, t) /\ Stream(io, t) = Counted(accepted[t])
        BY <3>1, AsideStream, Facts
      <3> QED
        BY <3>1, <3>2
    <2> QED
      BY <2>1, <2>2
  <1>4. \A t \in Sockets \ upgraded' : accepted'[t] = 0
    <2>1. \A t \in Sockets \ upgraded : accepted[t] = 0
      BY DEF Inv, Bytes
    <2> QED
      BY <2>1
  <1>5. \A t \in Sockets \ io'.closed : Stream(io', t) = Counted(accepted'[t])
    BY <1>3
  <1> QED
    BY <1>1, <1>2, <1>4, <1>5 DEF Bytes

(* A step that sends nothing.                                              *)
LEMMA Still ==
    ASSUME Inv, NEW s \in Sockets, Aside(io, io', s),
           s \notin io'.closed => Stream(io', s) = Stream(io, s),
           s \in io'.fin \cup io'.closed => s \in upgraded,
           UNCHANGED <<upgraded, accepted>>
    PROVE  Bytes'
  <1>1. /\ accepted' \in [Sockets -> Nat]
        /\ \A t \in Sockets \ {s} : accepted'[t] = accepted[t]
        /\ s \notin upgraded' => accepted'[s] = 0
    BY Facts DEF Inv, Bytes
  <1>2. s \in io'.closed \/ Stream(io', s) = Counted(accepted'[s])
    <2>1. s \notin io'.closed => s \notin io.closed
      BY DEF Aside
    <2> QED
      BY <1>1, <2>1, Facts
  <1> QED
    BY <1>1, <1>2, Apart

-----------------------------------------------------------------------------
(* What the calls of the handlers leave of the record.                     *)

(* A send: whether it was refused, and what it leaves buffered.            *)
Sending(s, n, r) ==
    /\ Aside(io, r.io, s)
    /\ r.io.closed = io.closed /\ r.io.fin = io.fin
    /\ r.io.corked \in {io.corked, Nil}
    /\ Stream(r.io, s) =
         Counted(accepted[s] + IF r.status = "DROPPED" THEN 0 ELSE n)
    /\ r.status \in {"SUCCESS", "BACKPRESSURE", "DROPPED"}
    /\ r.status = "DROPPED" => r.io = io /\ MaxBackpressure > 0
    /\ r.status = "SUCCESS" /\ r.io.corked # s => r.io.raw[s] = <<>>

(* A frame that was sent off.                                              *)
LEMMA SentSteps ==
    ASSUME Inv, NEW s \in Sockets \ io.closed, NEW n \in Nat,
           NEW r, SentOff(io, s, Frame(s, n), r)
    PROVE  Sending(s, n, r)
  <1> DEFINE f == Frame(s, n)
  <1>1. IOInv(io, Nat) /\ accepted[s] \in Nat /\ Stream(io, s) = Counted(accepted[s])
    BY Facts
  <1>2. Counted(accepted[s]) \o f = Counted(accepted[s] + n)
    BY <1>1, FrameNext
  <1>3. Moved(io, r.io, s, f)
    BY DEF SentOff
  <1> HIDE DEF f
  <1>4. Aside(io, r.io, s)
    BY <1>1, <1>3, MovedAside
  <1>5. Stream(r.io, s) = Counted(accepted[s] + n)
    BY <1>1, <1>2, <1>3 DEF Moved
  <1> QED
    BY <1>3, <1>4, <1>5 DEF Sending, SentOff, Moved, OnlyOf

(* send() of a frame, in the cork buffer or past it.                       *)
LEMMA SendSteps ==
    ASSUME Inv, NEW s \in Sockets \ io.closed, NEW n \in Nat,
           NEW room \in Room, NEW special \in BOOLEAN
    PROVE  LET r == SendResult(s, Frame(s, n), room, special)
           IN  Sending(s, n, r) /\ (~special => r.io.corked = io.corked)
  <1> DEFINE f == Frame(s, n)
             r == SendResult(s, f, room, special)
  <1>1. IOInv(io, Nat) /\ accepted[s] \in Nat /\ Aside(io, io, s) /\ room \in Nat
        /\ Stream(io, s) = Counted(accepted[s])
    BY Facts
  <1>2. f \in Seq(Nat)
    BY <1>1, FrameNext
  <1>3. /\ \/ r.status = "DROPPED" /\ r.io = io /\ MaxBackpressure > 0
           \/ r.status # "DROPPED" /\ SentOff(io, s, f, r)
        /\ ~special => r.io.corked = io.corked
    <2> HIDE DEF f
    <2> QED
      BY <1>1, <1>2, SendResultKeeps
  <1> HIDE DEF r
  <1>4. CASE r.status = "DROPPED" /\ r.io = io /\ MaxBackpressure > 0
    BY <1>1, <1>3, <1>4 DEF Sending, r
  <1>5. CASE SentOff(io, s, f, r)
    BY <1>3, <1>5, SentSteps DEF r
  <1> QED
    BY <1>3, <1>4, <1>5

(* The rest of a send after its drain.                                     *)
LEMMA RestSteps ==
    ASSUME Inv, NEW s \in Sockets \ io.closed, NEW n \in Nat, NEW room \in Room
    PROVE  LET r == BufferedSend(io, s, Frame(s, n), room)
           IN  /\ Sending(s, n, r) /\ r.status # "DROPPED"
               /\ r.io.corked = io.corked
  <1> DEFINE f == Frame(s, n)
             r == BufferedSend(io, s, f, room)
  <1>1. IOInv(io, Nat) /\ accepted[s] \in Nat /\ room \in Nat
    BY Facts
  <1>2. f \in Seq(Nat)
    BY <1>1, FrameNext
  <1>3. SentOff(io, s, f, r) /\ r.io.corked = io.corked
    <2> HIDE DEF f
    <2> QED
      BY <1>1, <1>2, BufferedSendKeeps
  <1> HIDE DEF r
  <1>4. Sending(s, n, r)
    BY <1>3, SentSteps
  <1> QED
    BY <1>3, <1>4 DEF r, SentOff

(* The uncork() at the end of a handler, a block or a drain.               *)
Freed(s, r) ==
    /\ Aside(io, r.io, s) /\ r.io.fin = io.fin /\ r.io.closed = io.closed
    /\ s \notin io.closed => Stream(r.io, s) = Stream(io, s)
    /\ r.io.corked \in {io.corked, Nil} /\ r.io.corked # s
    /\ r.io.raw[s] \in Seq(Nat)
    /\ io.corked # s => r.io = io /\ ~r.failed
    /\ io.corked = s /\ s \notin io.closed /\ ~r.failed => r.io.raw[s] = <<>>
    /\ s \notin io.closed /\ r.failed => r.io.raw[s] # <<>>

LEMMA FreeSteps ==
    ASSUME Inv, NEW s \in Sockets, NEW room \in Room
    PROVE  Freed(s, Uncork(io, s, <<>>, room, FALSE))
  <1> DEFINE r == Uncork(io, s, <<>>, room, FALSE)
  <1>1. room \in Nat /\ IOInv(io, Nat)
    BY Facts
  <1>2. /\ Uncorked(io, Nat, s, r) /\ Moved(io, r.io, s, <<>>) /\ r.io.corked # s
        /\ s \notin io.closed /\ r.failed => r.io.raw[s] # <<>>
    BY <1>1, UncorkDrains, FreeKeeps, UncorkFails
  <1> HIDE DEF r
  <1>3. Aside(io, r.io, s)
    BY <1>1, <1>2, MovedAside
  <1>4. r.io.raw[s] \in Seq(Nat)
    BY <1>3, Components DEF Aside, IOInv, IOSafe
  <1>5. Stream(io, s) \o <<>> = Stream(io, s)
    BY <1>1, PendingType, ConcatEmptySeq DEF IOInv
  <1>6. Freed(s, r)
    BY <1>2, <1>3, <1>4, <1>5 DEF Uncorked, Drained, Moved, OnlyOf, Freed
  <1> QED
    BY <1>6 DEF r

(* write() of nothing in the writable handler.                             *)
LEMMA DrainSteps ==
    ASSUME Inv, NEW s \in Sockets, NEW room \in Room
    PROVE  LET r == Write(io, s, <<>>, room, FALSE)
           IN  /\ Aside(io, r.io, s) /\ r.io.corked = io.corked
               /\ r.io.fin = io.fin /\ r.io.closed = io.closed
               /\ r.io.raw[s] \in Seq(Nat)
               /\ s \notin io.closed => Stream(r.io, s) = Stream(io, s)
  <1> DEFINE r == Write(io, s, <<>>, room, FALSE)
  <1>1. room \in Nat /\ IOInv(io, Nat)
    BY Facts
  <1>2. Drained(io, Nat, s, r) /\ r.io.corked = io.corked
    BY <1>1, DrainKeeps
  <1> HIDE DEF r
  <1>3. Moved(io, r.io, s, <<>>)
    <2>1. Stream(io, s) \o <<>> = Stream(io, s)
      BY <1>1, PendingType, ConcatEmptySeq DEF IOInv
    <2> QED
      BY <1>2, <2>1 DEF Drained, Moved
  <1>4. r.io.raw[s] \in Seq(Nat)
    BY <1>2, Components DEF Drained, IOInv, IOSafe
  <1>5. Aside(io, r.io, s)
    BY <1>1, <1>3, MovedAside
  <1> QED
    BY <1>2, <1>4, <1>5 DEF Drained, OnlyOf, r

(* cork() of a free buffer, or none.                                       *)
LEMMA CorkKeeps ==
    ASSUME Inv, NEW s \in Sockets, NEW p,
           p = IF CanCork(io) THEN Cork(io, s) ELSE io
    PROVE  /\ Aside(io, p, s) /\ Stream(p, s) = Stream(io, s)
           /\ p.corked = IF io.corked = Nil THEN s ELSE io.corked
           /\ p.closed = io.closed /\ p.fin = io.fin /\ p.raw = io.raw
  <1> DEFINE q == Cork(io, s)
  <1>1. CASE io.corked # Nil
    BY <1>1, Facts DEF CanCork
  <1>2. CASE io.corked = Nil
    <2>1. /\ IOSafe(io, Nat) /\ IOType(io, Nat) /\ io.cork = <<>>
          /\ s # Nil /\ Len(io.cork) <= CorkSize
      BY <1>2, Facts, SocketAssumption DEF IOInv, IOSafe, CorkOwned
    <2>2. /\ IOType(q, Nat) /\ CorkOnly(io, q) /\ q.corked = s /\ q.cork = <<>>
      BY <2>1 DEF Cork, IOType, CorkOnly
    <2>3. p = q
      BY <1>2 DEF CanCork
    <2> HIDE DEF q
    <2>4. IOSafe(q, Nat) /\ OnlyOf(io, q, s) /\ Pending(q, s) = Pending(io, s)
      BY <2>1, <2>2, CorkOnlyKeeps
    <2>5. IOInv(q, Nat)
      BY <2>1, <2>2, <2>4 DEF IOInv, CorkOwned
    <2>6. Stream(q, s) = Stream(io, s)
      BY <2>1, <2>2, <2>4, StreamEnds
    <2>7. Aside(io, q, s)
      BY <1>2, <2>1, <2>2, <2>4, <2>5, SocketAssumption DEF Aside, OnlyOf
    <2> QED
      BY <1>2, <2>2, <2>3, <2>6, <2>7 DEF CorkOnly
  <1> QED
    BY <1>1, <1>2

(* write() of a byte, into the cork buffer when that is the socket's, does *)
(* not free it.                                                            *)
LEMMA ByteStays ==
    ASSUME NEW s \in Sockets, io.corked = s, io.cork = <<>>,
           NEW frame, Len(frame) = 1, NEW room
    PROVE  Write(io, s, frame, room, FALSE).io.corked = s
  <1> DEFINE Corked(o, r) ==
                 IF frame = <<>> THEN Result(o, 0, FALSE)
                 ELSE IF CorkSize - Len(o.cork) >= Len(frame)
                 THEN Result([o EXCEPT !.cork = @ \o frame], Len(frame), FALSE)
                 ELSE Uncork(o, s, frame, r, FALSE)
             n == Takes(io, s, room, Length(io, s))
             after == KernelWrite(io, s, SubSeq(Data(io, s), 1, n))
             w == Write(io, s, frame, room, FALSE)
  <1>1. CorkSize - Len(<<>>) >= 1
    BY CorkAssumption, EmptySeq
  <1>2. ASSUME NEW o, o.corked = s, o.cork = <<>>, NEW r
        PROVE  Corked(o, r).io.corked = s
    BY <1>1, <1>2 DEF Result
  <1>3. after.corked = s /\ after.cork = <<>>
    BY DEF KernelWrite
  <1>4. /\ Clear(after, s).corked = s /\ Clear(after, s).cork = <<>>
        /\ AppendRaw(Erase(after, s, n), s, frame).corked = s
    <2>1. Erase(after, s, n).corked = after.corked
      BY DEF Erase
    <2> HIDE DEF after, n
    <2> QED
      BY <1>3, <2>1 DEF Clear, AppendRaw
  <1>5. \/ w.io = io
        \/ w = Corked(io, room)
        \/ w.io = AppendRaw(Erase(after, s, n), s, frame)
        \/ w = Corked(Clear(after, s), room - n)
    BY DEF Write, FlushFirst, IsCorked, Result
  <1> HIDE DEF w, Corked, after, n
  <1> QED
    BY <1>2, <1>4, <1>5 DEF w

(* What a byte leaves that is written past the send: the response of an    *)
(* upgrade, or a ping.                                                     *)
LEMMA ByteSteps ==
    ASSUME Inv, NEW s \in Sockets \ io.closed, NEW room \in Room,
           io.corked = s => io.cork = <<>>
    PROVE  LET p == Write(io, s, Frame(s, 1), room, FALSE).io
           IN  /\ Aside(io, p, s) /\ p.corked = io.corked
               /\ p.closed = io.closed /\ p.fin = io.fin
               /\ Stream(p, s) = Counted(accepted[s] + 1)
  <1> DEFINE f == Frame(s, 1)
             w == Write(io, s, f, room, FALSE)
  <1>1. /\ room \in Nat /\ accepted[s] \in Nat /\ 1 \in Nat /\ IOInv(io, Nat)
        /\ Stream(io, s) = Counted(accepted[s]) /\ FALSE \in BOOLEAN
    BY Facts
  <1>2. /\ f \in Seq(Nat) /\ Len(f) = 1
        /\ Counted(accepted[s]) \o f = Counted(accepted[s] + 1)
    BY <1>1, FrameNext
  <1> HIDE DEF f
  <1>3. Written(io, Nat, s, f, room, w)
    BY <1>1, <1>2, WriteKeeps
  <1>4. w.written = 1
    <2>1. io.corked = s => Len(io.cork) + Len(f) <= CorkSize
      BY <1>2, CorkAssumption, EmptySeq
    <2>2. f \in Seq(Nat) /\ room \in Nat /\ IOInv(io, Nat) /\ s \in Sockets
      BY <1>1, <1>2
    <2>3. /\ w.written = Len(f)
          /\ io.corked = s => Len(w.io.cork) <= Len(io.cork) + Len(f)
      BY <2>1, <2>2, FitsWritten
    <2> HIDE DEF w
    <2> QED
      BY <1>2, <2>3
  <1>5. io.corked = s => w.io.corked = s
    BY <1>2, ByteStays
  <1> HIDE DEF w
  <1>6. SubSeq(f, 1, 1) = f
    BY <1>2, Prefixes
  <1>7. Called(io, Nat, s, f, room, w) /\ w.io.corked = io.corked
    BY <1>3, <1>5 DEF Written, Called
  <1>8. Moved(io, w.io, s, f)
    BY <1>4, <1>6, <1>7 DEF Called, Moved
  <1>9. Aside(io, w.io, s)
    BY <1>1, <1>8, MovedAside
  <1>10. Stream(w.io, s) = Counted(accepted[s] + 1)
    BY <1>1, <1>2, <1>8 DEF Moved
  <1> QED
    BY <1>7, <1>8, <1>9, <1>10 DEF Moved, OnlyOf, w, f

(* us_socket_close() of a socket.                                          *)
LEMMA CloseSteps ==
    ASSUME Inv, NEW s \in upgraded, CloseSocket(s)
    PROVE  /\ Aside(io, io', s) /\ io'.closed = io.closed \cup {s}
           /\ io'.corked = io.corked /\ io'.fin = io.fin
           /\ timer' = [timer EXCEPT ![s] = "first"]
           /\ timedOut' = timedOut \ {s} /\ subscribed' = subscribed \ {s}
           /\ queued' = [queued EXCEPT ![s] = 0]
           /\ closeEvents' = IF s \in shuttingDown THEN closeEvents
                             ELSE [closeEvents EXCEPT ![s] = @ + 1]
  <1> DEFINE q == [Clear(io, s) EXCEPT !.closed = @ \cup {s}]
  <1>1. /\ s \in Sockets /\ IOSafe(io, Nat) /\ IOType(io, Nat) /\ CorkOwned(io)
        /\ <<>> \in Seq(Nat) /\ Len(<<>>) = 0
    BY Facts, EmptySeq DEF IOInv, IOSafe
  <1>2. /\ IOType(q, Nat) /\ q.corked = io.corked /\ q.cork = io.cork
        /\ q.raw[s] = <<>> /\ q.removed[s] = 0
        /\ \A t \in Sockets \ {s} : /\ q.raw[t] = io.raw[t]
                                    /\ q.removed[t] = io.removed[t]
        /\ q.sent = io.sent /\ q.fin = io.fin /\ q.closed = io.closed \cup {s}
    BY <1>1 DEF IOType, Clear
  <1>3. io' = q
    BY DEF CloseSocket
  <1> HIDE DEF q
  <1>4. IOInv(q, Nat)
    <2>1. Exact(q, s)
      <3>1. 0 <= 0 \div EraseDivisor
        BY CorkAssumption, DivNat
      <3> QED
        BY <1>1, <1>2, <3>1 DEF Exact
    <2>2. ASSUME NEW t \in Sockets \ {s} PROVE Exact(q, t)
      BY <1>1, <1>2, <2>2 DEF IOSafe, Exact
    <2>3. IOSafe(q, Nat)
      BY <1>1, <1>2, <2>1, <2>2 DEF IOSafe
    <2>4. CorkOwned(q)
      <3>1. io.corked \in Sockets \cup {Nil}
        BY <1>1 DEF IOType
      <3> QED
        BY <1>1, <1>2, <3>1 DEF CorkOwned
    <2> QED
      BY <2>3, <2>4 DEF IOInv
  <1>5. Aside(io, q, s)
    BY <1>2, <1>4 DEF Aside
  <1> QED
    BY <1>2, <1>3, <1>5 DEF CloseSocket

(* The end() of a send that was not refused, or was.                       *)
Ended(s, r) ==
    /\ Aside(io, io', s) /\ io'.closed = io.closed /\ io'.corked = r.io.corked
    /\ io'.fin = IF r.io.corked # s /\ r.status # "BACKPRESSURE"
                 THEN io.fin \cup {s} ELSE io.fin
    /\ io'.raw = r.io.raw
    /\ Stream(io', s) = Counted(accepted'[s])
    /\ accepted' \in [Sockets -> Nat]
    /\ \A t \in Sockets \ {s} : accepted'[t] = accepted[t]
    /\ timer' = [timer EXCEPT ![s] = "second"]
    /\ timedOut' \subseteq timedOut /\ subscribed' \subseteq subscribed
    /\ queued' = [queued EXCEPT ![s] = 0]
    /\ refused' = IF r.status = "DROPPED" THEN refused \cup {s} ELSE refused
    /\ closeEvents' = [closeEvents EXCEPT ![s] = @ + 1]

LEMMA EndSteps ==
    ASSUME Inv, NEW s \in Sockets \ io.closed, NEW r, Sending(s, 1, r),
           EndSent(s, r)
    PROVE  Ended(s, r)
  <1> DEFINE q == Shutdown(r.io, s)
             fin == r.io.corked # s /\ r.status # "BACKPRESSURE"
  <1>1. Finned(io, r.io, s, q)
    BY ShutdownKeeps DEF Sending
  <1>2. io' = IF fin THEN q ELSE r.io
    BY DEF EndSent, IsCorked
  <1> HIDE DEF q
  <1>3. /\ Aside(io, io', s) /\ io'.closed = io.closed /\ io'.corked = r.io.corked
        /\ io'.fin = IF fin THEN io.fin \cup {s} ELSE io.fin
        /\ io'.raw = r.io.raw /\ Stream(io', s) = Stream(r.io, s)
    BY <1>1, <1>2 DEF Finned, Sending
  <1>4. /\ accepted' \in [Sockets -> Nat]
        /\ \A t \in Sockets \ {s} : accepted'[t] = accepted[t]
        /\ accepted'[s] = accepted[s] + IF r.status = "DROPPED" THEN 0 ELSE 1
    BY Facts DEF EndSent, Accepts
  <1>5. Stream(io', s) = Counted(accepted'[s])
    BY <1>3, <1>4 DEF Sending
  <1>6. timedOut' \subseteq timedOut
    BY DEF EndSent
  <1> HIDE DEF fin
  <1> QED
    BY <1>3, <1>4, <1>5, <1>6 DEF Ended, EndSent, fin

-----------------------------------------------------------------------------
(* Steps of the stack.                                                     *)

(* Nobody waits for a drain while the application runs.                    *)
OnlyCalls == \A i \in 1..Len(stack) : stack[i].kind \in Calls

LEMMA CallsOnly ==
    ASSUME Careful, Inv, Handling
    PROVE  OnlyCalls /\ \A s : ~Ending(s)
  <1>1. /\ Len(stack) \in Nat
        /\ \A i \in 1..Len(stack) : i < Len(stack) =>
              \/ stack[i].kind \in Calls
              \/ /\ stack[i].kind \in Waits /\ i + 1 = Len(stack)
                 /\ stack[i + 1].kind \in Drains
    BY Facts DEF Inv, Stacked, Nested
  <1>2. stack # <<>> => Top.kind \in Calls
    BY DEF Careful, Handling, Calling, Calls
  <1>3. OnlyCalls
    <2> SUFFICES ASSUME NEW i \in 1..Len(stack) PROVE stack[i].kind \in Calls
      BY DEF OnlyCalls
    <2>1. stack # <<>>
      BY Facts
    <2>2. stack[Len(stack)].kind \in Calls
      BY <1>2, <2>1 DEF Top
    <2>3. CASE i = Len(stack)
      BY <2>2, <2>3
    <2>4. CASE i # Len(stack)
      <3>1. i < Len(stack)
        BY <1>1, <2>4
      <3>2. ~(i + 1 = Len(stack) /\ stack[i + 1].kind \in Drains)
        BY <2>2 DEF Calls, Drains
      <3> QED
        BY <1>1, <3>1, <3>2
    <2> QED
      BY <2>3, <2>4
  <1>4. \A s : ~Ending(s)
    BY <1>3 DEF OnlyCalls, Ending, Calls
  <1> QED
    BY <1>3, <1>4

(* So it is when the loop calls.                                           *)
LEMMA LoopCalls ==
    ASSUME stack = <<>>
    PROVE  Handling /\ ~Parsing /\ OnlyCalls
  BY EmptySeq DEF Handling, Parsing, OnlyCalls

(* One more frame on a stack of calls.                                     *)
LEMMA Pushed ==
    ASSUME NEW st \in Seq(Frames), NEW f \in Frames
    PROVE  /\ Len(st) \in Nat
           /\ Append(st, f) \in Seq(Frames)
           /\ Len(Append(st, f)) = Len(st) + 1
           /\ \A i \in 1..Len(st) : Append(st, f)[i] = st[i]
           /\ Append(st, f)[Len(st) + 1] = f
           /\ st \o <<f>> = Append(st, f)
           /\ st \o <<>> = st
  BY AppendProperties, AppendIsConcat, ConcatEmptySeq, LenProperties

(* Calls of the application leave the stack alone.                         *)
LEMMA StackStays ==
    ASSUME Inv, OnlyCalls, UNCHANGED stack, io'.corked \in {io.corked, Nil},
           Slotted'
    PROVE  Stacked' /\ \A s : Ending(s)' <=> Ending(s)
  <1>1. Nested(stack')
    BY DEF Inv, Stacked
  <1>2. \A i \in 1..Len(stack') : stack'[i].kind \notin Drains \cup Waits
    BY DEF OnlyCalls, Calls, Drains, Waits
  <1>3. (\A i \in 1..Len(stack) : Fine(stack[i]))'
    BY <1>2 DEF Fine, Waits
  <1>4. Owned(stack', io'.corked)
    BY DEF Inv, Stacked, Owned
  <1>5. \A s : Ending(s)' <=> Ending(s)
    BY DEF Ending
  <1> QED
    BY <1>1, <1>3, <1>4, <1>5 DEF Stacked

LEMMA SlotStays ==
    ASSUME Inv, UNCHANGED <<stack, slot, upgraded>>
    PROVE  Slotted'
  BY DEF Inv, Stacked, Slotted, Parsed, Parsing

(* A handler, a block or a drain begins, which corks or not.               *)
LEMMA StackPush ==
    ASSUME Inv, OnlyCalls, NEW f \in Frames, stack' = Append(stack, f),
           f.kind \in Calls \cup Drains,
           f.kind \in {"http", "data"} => stack = <<>>,
           f.kind = "http" => f.s \notin upgraded,
           f.kind \in Drains => f.s \in upgraded \ io.closed,
           f.kind \in Drains /\ f.uncork => needsUncork',
           io'.corked = IF f.uncork THEN f.s ELSE io.corked,
           io'.closed = io.closed, UNCHANGED <<slot, upgraded>>
    PROVE  Stacked' /\ \A s : Ending(s)' <=> Ending(s)
  <1> DEFINE n == Len(stack)
  <1>1. /\ stack \in Seq(Frames) /\ stack' \in Seq(Frames) /\ n \in Nat
        /\ Len(stack') = n + 1
        /\ \A i \in 1..n : stack'[i] = stack[i]
        /\ stack'[n + 1] = f
        /\ stack = <<>> <=> n = 0
    BY Facts, Pushed
  <1>2. \A i \in 1..n : stack'[i].kind \in Calls /\ stack'[i] = stack[i]
    BY <1>1 DEF OnlyCalls
  <1>3. Nested(stack')
    <2>1. \A i \in 1..n : stack[i].kind \in {"http", "data"} => i = 1
      BY DEF Inv, Stacked, Nested
    <2> SUFFICES ASSUME NEW i \in 1..(n + 1)
                 PROVE  /\ stack'[i].kind \in {"http", "data"} => i = 1
                        /\ i < n + 1 => stack'[i].kind \in Calls
      BY <1>1 DEF Nested
    <2>2. CASE i \in 1..n
      BY <1>2, <2>1, <2>2
    <2>3. CASE i = n + 1
      BY <1>1, <2>3
    <2> QED
      BY <1>1, <2>2, <2>3
  <1>4. ASSUME NEW i \in 1..(n + 1)
        PROVE  Fine(stack[i])'
    <2>1. CASE i \in 1..n
      BY <1>2, <2>1 DEF Fine, Calls, Drains, Waits
    <2>2. CASE i = n + 1
      BY <1>1, <2>2 DEF Fine, Calls, Drains, Waits
    <2> QED
      BY <1>1, <2>1, <2>2
  <1>5. Owned(stack', io'.corked)
    <2>1. CASE f.uncork
      <3>1. n + 1 \in 1..(n + 1) /\ (n + 1 + 1)..(n + 1) = {}
        BY <1>1
      <3> QED
        BY <1>1, <2>1, <3>1 DEF Owned
    <2>2. CASE ~f.uncork /\ io'.corked # Nil
      <3>1. PICK i \in 1..n : /\ stack[i].uncork /\ stack[i].s = io.corked
                              /\ \A j \in (i + 1)..n : ~stack[j].uncork
        BY <2>2 DEF Inv, Stacked, Owned
      <3>2. i \in 1..(n + 1) /\ stack'[i] = stack[i]
        BY <1>1
      <3>3. \A j \in (i + 1)..(n + 1) : ~stack'[j].uncork
        <4> SUFFICES ASSUME NEW j \in (i + 1)..(n + 1) PROVE ~stack'[j].uncork
          OBVIOUS
        <4>1. CASE j = n + 1
          BY <1>1, <2>2, <4>1
        <4>2. CASE j # n + 1
          <5>1. j \in (i + 1)..n /\ j \in 1..n
            BY <1>1, <4>2
          <5> QED
            BY <1>1, <3>1, <5>1
        <4> QED
          BY <4>1, <4>2
      <3> QED
        BY <1>1, <2>2, <3>1, <3>2, <3>3 DEF Owned
    <2> QED
      BY <2>1, <2>2 DEF Owned
  <1>6. Slotted'
    <2>1. CASE n = 0
      <3>1. slot = Nil
        BY <1>1, <2>1 DEF Inv, Stacked, Slotted, Parsed, Parsing
      <3>2. Parsing' => stack'[1].s \notin upgraded'
        BY <1>1, <2>1 DEF Parsing
      <3> QED
        BY <3>1, <3>2 DEF Slotted
    <2>2. CASE n # 0
      <3>1. stack'[1] = stack[1] /\ stack # <<>> /\ stack' # <<>>
        BY <1>1, <2>2, EmptySeq
      <3> QED
        BY <3>1 DEF Inv, Stacked, Slotted, Parsed, Parsing
    <2> QED
      BY <2>1, <2>2
  <1>7. \A s : Ending(s)' <=> Ending(s)
    <2>1. \A s : ~Ending(s)
      BY DEF OnlyCalls, Ending, Calls
    <2>2. \A i \in 1..Len(stack') : stack'[i].kind # "end"
      <3> SUFFICES ASSUME NEW i \in 1..(n + 1) PROVE stack'[i].kind # "end"
        BY <1>1
      <3>1. CASE i \in 1..n
        BY <1>2, <3>1 DEF Calls
      <3>2. CASE i = n + 1
        BY <1>1, <3>2 DEF Calls, Drains
      <3> QED
        BY <1>1, <3>1, <3>2
    <2> QED
      BY <2>1, <2>2 DEF Ending
  <1>8. (\A i \in 1..Len(stack) : Fine(stack[i]))'
    BY <1>1, <1>4
  <1> QED
    BY <1>3, <1>5, <1>6, <1>7, <1>8 DEF Stacked

(* So does a drain that something waits for.                               *)
LEMMA StackPushWaiting ==
    ASSUME Inv, OnlyCalls, NEW e \in Frames, NEW f \in Frames,
           stack' = Append(Append(stack, e), f),
           e.kind \in Waits, ~e.uncork, f.kind \in Drains,
           e.s \in upgraded \ io.closed, f.s \in upgraded \ io.closed,
           e.kind = "end" => e.s \in shuttingDown',
           f.uncork => needsUncork',
           io'.corked = IF f.uncork THEN f.s ELSE io.corked,
           io'.closed = io.closed, UNCHANGED <<slot, upgraded>>
    PROVE  Stacked' /\ \A s : Ending(s)' <=> (e.kind = "end" /\ s = e.s)
  <1> DEFINE n == Len(stack)
  <1>1. /\ stack \in Seq(Frames) /\ stack' \in Seq(Frames) /\ n \in Nat
        /\ Len(stack') = n + 2
        /\ \A i \in 1..n : stack'[i] = stack[i]
        /\ stack'[n + 1] = e /\ stack'[n + 2] = f
        /\ stack = <<>> <=> n = 0
    <2> DEFINE q == Append(stack, e)
    <2>1. /\ stack \in Seq(Frames) /\ n \in Nat /\ stack = <<>> <=> n = 0
          /\ q \in Seq(Frames) /\ Len(q) = n + 1
          /\ \A i \in 1..n : q[i] = stack[i]
          /\ q[n + 1] = e
      BY Facts, Pushed
    <2> HIDE DEF q
    <2>2. /\ Append(q, f) \in Seq(Frames) /\ Len(Append(q, f)) = (n + 1) + 1
          /\ \A i \in 1..(n + 1) : Append(q, f)[i] = q[i]
          /\ Append(q, f)[(n + 1) + 1] = f
      BY <2>1, Pushed
    <2>3. stack' = Append(q, f)
      BY DEF q
    <2>4. /\ (n + 1) + 1 = n + 2 /\ n + 1 \in 1..(n + 1)
          /\ \A i \in 1..n : i \in 1..(n + 1)
      BY <2>1
    <2>5. /\ stack' \in Seq(Frames) /\ Len(stack') = n + 2 /\ stack'[n + 2] = f
          /\ \A i \in 1..(n + 1) : stack'[i] = q[i]
      BY <2>2, <2>3, <2>4
    <2> QED
      BY <2>1, <2>4, <2>5
  <1>2. \A i \in 1..n : stack'[i].kind \in Calls /\ stack'[i] = stack[i]
    BY <1>1 DEF OnlyCalls
  <1>3. \A i \in 1..(n + 2) : i \in 1..n \/ i = n + 1 \/ i = n + 2
    BY <1>1
  <1>4. Nested(stack')
    <2>1. \A i \in 1..n : stack[i].kind \in {"http", "data"} => i = 1
      BY DEF Inv, Stacked, Nested
    <2> SUFFICES ASSUME NEW i \in 1..(n + 2)
                 PROVE  /\ stack'[i].kind \in {"http", "data"} => i = 1
                        /\ i < n + 2 =>
                             \/ stack'[i].kind \in Calls
                             \/ /\ stack'[i].kind \in Waits /\ i + 1 = n + 2
                                /\ stack'[i + 1].kind \in Drains
      BY <1>1 DEF Nested
    <2>2. CASE i \in 1..n
      BY <1>2, <2>1, <2>2
    <2>3. CASE i = n + 1
      <3>1. stack'[i] = e /\ stack'[i + 1] = f /\ i + 1 = n + 2
        BY <1>1, <2>3
      <3> QED
        BY <3>1 DEF Waits
    <2>4. CASE i = n + 2
      <3>1. stack'[i] = f /\ ~(i < n + 2)
        BY <1>1, <2>4
      <3> QED
        BY <3>1 DEF Drains
    <2> QED
      BY <1>3, <2>2, <2>3, <2>4
  <1>5. (\A i \in 1..Len(stack) : Fine(stack[i]))'
    <2>1. ASSUME NEW i \in 1..(n + 2)
          PROVE  Fine(stack[i])'
      <3>1. CASE i \in 1..n
        BY <1>2, <3>1 DEF Fine, Calls, Drains, Waits
      <3>2. CASE i = n + 1
        BY <1>1, <3>2 DEF Fine, Drains, Waits
      <3>3. CASE i = n + 2
        BY <1>1, <3>3 DEF Fine, Drains, Waits
      <3> QED
        BY <1>3, <3>1, <3>2, <3>3
    <2> QED
      BY <1>1, <2>1
  <1>6. Owned(stack', io'.corked)
    <2>1. CASE f.uncork
      <3>1. n + 2 \in 1..(n + 2) /\ (n + 2 + 1)..(n + 2) = {}
        BY <1>1
      <3> QED
        BY <1>1, <2>1, <3>1 DEF Owned
    <2>2. CASE ~f.uncork /\ io'.corked # Nil
      <3>1. PICK i \in 1..n : /\ stack[i].uncork /\ stack[i].s = io.corked
                              /\ \A j \in (i + 1)..n : ~stack[j].uncork
        BY <2>2 DEF Inv, Stacked, Owned
      <3>2. i \in 1..(n + 2) /\ stack'[i] = stack[i]
        BY <1>1
      <3>3. \A j \in (i + 1)..(n + 2) : ~stack'[j].uncork
        <4> SUFFICES ASSUME NEW j \in (i + 1)..(n + 2) PROVE ~stack'[j].uncork
          OBVIOUS
        <4>1. CASE j = n + 1
          BY <1>1, <4>1
        <4>2. CASE j = n + 2
          BY <1>1, <2>2, <4>2
        <4>3. CASE j # n + 1 /\ j # n + 2
          <5>1. j \in (i + 1)..n /\ j \in 1..n
            BY <1>1, <4>3
          <5> QED
            BY <1>1, <3>1, <5>1
        <4> QED
          BY <4>1, <4>2, <4>3
      <3> QED
        BY <1>1, <2>2, <3>1, <3>2, <3>3 DEF Owned
    <2> QED
      BY <2>1, <2>2 DEF Owned
  <1>7. Slotted'
    <2>1. CASE n = 0
      <3>1. slot = Nil
        BY <1>1, <2>1 DEF Inv, Stacked, Slotted, Parsed, Parsing
      <3>2. ~Parsing'
        BY <1>1, <2>1 DEF Parsing, Waits
      <3> QED
        BY <3>1, <3>2 DEF Slotted
    <2>2. CASE n # 0
      <3>1. stack'[1] = stack[1] /\ stack # <<>> /\ stack' # <<>>
        BY <1>1, <2>2, EmptySeq
      <3> QED
        BY <3>1 DEF Inv, Stacked, Slotted, Parsed, Parsing
    <2> QED
      BY <2>1, <2>2
  <1>8. ASSUME NEW s
        PROVE  Ending(s)' <=> (e.kind = "end" /\ s = e.s)
    <2>1. \A i \in 1..n : stack'[i].kind # "end"
      BY <1>2 DEF Calls
    <2>2. stack'[n + 1] = e /\ stack'[n + 2].kind # "end" /\ n + 1 \in 1..(n + 2)
      BY <1>1 DEF Drains
    <2>3. Ending(s)' <=> \E i \in 1..(n + 2) : stack'[i].kind = "end" /\ stack'[i].s = s
      BY <1>1 DEF Ending
    <2> QED
      BY <1>3, <2>1, <2>2, <2>3
  <1> QED
    BY <1>4, <1>5, <1>6, <1>7, <1>8 DEF Stacked

(* What is left of the stack.                                              *)
LEMMA PopFacts ==
    ASSUME Inv, stack # <<>>, NEW n, n = Len(stack) - 1
    PROVE  /\ n \in Nat /\ Len(stack) = n + 1
           /\ Pop \in Seq(Frames) /\ Len(Pop) = n
           /\ \A i \in 1..n : Pop[i] = stack[i]
           /\ Top = stack[n + 1] /\ Top \in Frames /\ Top.s \in Sockets
  <1>1. /\ stack \in Seq(Frames) /\ Len(stack) \in Nat \ {0}
        /\ n \in Nat /\ n \in 0..Len(stack) /\ n + 1 = Len(stack)
        /\ Pop = SubSeq(stack, 1, n)
    BY Facts DEF Pop
  <1>2. Top = stack[n + 1]
    BY <1>1 DEF Top
  <1>3. n + 1 \in 1..Len(stack)
    BY <1>1
  <1>4. Top \in Frames
    BY <1>2, <1>3, Facts
  <1>5. Pop \in Seq(Frames) /\ Len(Pop) = n
    BY <1>1, Cut
  <1>6. \A i \in 1..n : Pop[i] = stack[i]
    BY <1>1
  <1> QED
    BY <1>1, <1>2, <1>4, <1>5, <1>6 DEF Frames

(* Who is ending after a return.                                           *)
LEMMA PopEnding ==
    ASSUME Inv, stack # <<>>, stack' = Pop
    PROVE  /\ Top.kind # "end" => \A s : Ending(s)' <=> Ending(s)
           /\ Top.kind = "end" => \A s : ~Ending(s)' /\ (Ending(s) <=> s = Top.s)
           /\ Top.kind \in {"http", "data"} => stack' = <<>>
           /\ Top.kind \notin Drains => OnlyCalls'
  <1> DEFINE n == Len(stack) - 1
  <1>1. /\ n \in Nat /\ Len(stack) = n + 1
        /\ stack' \in Seq(Frames) /\ Len(stack') = n
        /\ \A i \in 1..n : stack'[i] = stack[i]
        /\ Top = stack[n + 1] /\ Top \in Frames
    BY PopFacts
  <1> HIDE DEF n
  <1>2. /\ \A i \in 1..(n + 1) :
              /\ stack[i].kind \in {"http", "data"} => i = 1
              /\ i < n + 1 =>
                   \/ stack[i].kind \in Calls
                   \/ /\ stack[i].kind \in Waits /\ i + 1 = n + 1
                      /\ stack[i + 1].kind \in Drains
    BY <1>1 DEF Inv, Stacked, Nested
  <1>3. \A i \in 1..n : /\ stack'[i].kind \in Calls \cup Waits
                        /\ i < n => stack'[i].kind \in Calls
                        /\ Top.kind \notin Drains => stack'[i].kind \in Calls
    <2> SUFFICES ASSUME NEW i \in 1..n
                 PROVE  /\ stack'[i].kind \in Calls \cup Waits
                        /\ i < n => stack'[i].kind \in Calls
                        /\ Top.kind \notin Drains => stack'[i].kind \in Calls
      OBVIOUS
    <2>1. i \in 1..(n + 1) /\ i < n + 1 /\ (i + 1 = n + 1 => i = n)
      BY <1>1
    <2> QED
      BY <1>1, <1>2, <2>1
  <1>4. Top.kind # "end" => \A s : Ending(s)' <=> Ending(s)
    <2>1. \A s : Ending(s)' <=> \E i \in 1..n : stack[i].kind = "end" /\ stack[i].s = s
      BY <1>1 DEF Ending
    <2>2. \A s : Ending(s) <=> \E i \in 1..(n + 1) : stack[i].kind = "end" /\ stack[i].s = s
      BY <1>1 DEF Ending
    <2>3. \A i \in 1..(n + 1) : i \in 1..n \/ stack[i] = Top
      BY <1>1
    <2>4. \A i \in 1..n : i \in 1..(n + 1)
      BY <1>1
    <2> QED
      BY <2>1, <2>2, <2>3, <2>4
  <1>5. Top.kind = "end" => \A s : ~Ending(s)' /\ (Ending(s) <=> s = Top.s)
    <2> SUFFICES ASSUME Top.kind = "end", NEW s
                 PROVE  ~Ending(s)' /\ (Ending(s) <=> s = Top.s)
      OBVIOUS
    <2>1. \A i \in 1..n : stack'[i].kind # "end" /\ stack'[i] = stack[i]
      BY <1>1, <1>3 DEF Calls, Drains
    <2>2. ~Ending(s)'
      BY <1>1, <2>1 DEF Ending
    <2>3. \A i \in 1..(n + 1) : i \in 1..n \/ stack[i] = Top
      BY <1>1
    <2>4. n + 1 \in 1..(n + 1) /\ stack[n + 1] = Top
      BY <1>1
    <2>5. Ending(s) <=> \E i \in 1..(n + 1) : stack[i].kind = "end" /\ stack[i].s = s
      BY <1>1 DEF Ending
    <2> QED
      BY <2>1, <2>2, <2>3, <2>4, <2>5
  <1>6. Top.kind \in {"http", "data"} => stack' = <<>>
    BY <1>1, <1>2, EmptySeq
  <1>7. Top.kind \notin Drains => OnlyCalls'
    BY <1>1, <1>3 DEF OnlyCalls
  <1> QED
    BY <1>4, <1>5, <1>6, <1>7

(* A handler, a block, a drain or what waited for one returns.             *)
LEMMA StackPop ==
    ASSUME Inv, stack # <<>>, stack' = Pop,
           io'.corked \in {io.corked, Nil}, Top.uncork => io'.corked # Top.s,
           Top.kind \notin Drains => needsUncork' = needsUncork,
           io'.closed = io.closed, UNCHANGED <<upgraded, shuttingDown>>,
           slot' = IF Top.kind = "http" THEN Nil ELSE slot
    PROVE  /\ Stacked'
           /\ Top.kind # "end" => \A s : Ending(s)' <=> Ending(s)
           /\ Top.kind = "end" => \A s : ~Ending(s)' /\ (Ending(s) <=> s = Top.s)
           /\ Top.kind \in {"http", "data"} => stack' = <<>>
           /\ Top.kind \notin Drains => OnlyCalls'
  <1> DEFINE n == Len(stack) - 1
  <1>1. /\ n \in Nat /\ Len(stack) = n + 1
        /\ stack' \in Seq(Frames) /\ Len(stack') = n
        /\ \A i \in 1..n : stack'[i] = stack[i]
        /\ Top = stack[n + 1] /\ Top \in Frames
    BY PopFacts
  <1> HIDE DEF n
  <1>2. /\ \A i \in 1..(n + 1) :
              /\ stack[i].kind \in {"http", "data"} => i = 1
              /\ i < n + 1 =>
                   \/ stack[i].kind \in Calls
                   \/ /\ stack[i].kind \in Waits /\ i + 1 = n + 1
                      /\ stack[i + 1].kind \in Drains
    BY <1>1 DEF Inv, Stacked, Nested
  <1>3. \A i \in 1..n : /\ stack'[i].kind \in Calls \cup Waits
                        /\ i < n => stack'[i].kind \in Calls
                        /\ Top.kind \notin Drains => stack'[i].kind \in Calls
    <2> SUFFICES ASSUME NEW i \in 1..n
                 PROVE  /\ stack'[i].kind \in Calls \cup Waits
                        /\ i < n => stack'[i].kind \in Calls
                        /\ Top.kind \notin Drains => stack'[i].kind \in Calls
      OBVIOUS
    <2>1. i \in 1..(n + 1) /\ i < n + 1 /\ (i + 1 = n + 1 => i = n)
      BY <1>1
    <2> QED
      BY <1>1, <1>2, <2>1
  <1>4. Nested(stack')
    <2>1. \A i \in 1..n : stack'[i].kind \in {"http", "data"} => i = 1
      BY <1>1, <1>2
    <2> QED
      BY <1>1, <1>3, <2>1 DEF Nested
  <1>5. (\A i \in 1..Len(stack) : Fine(stack[i]))'
    <2>1. ASSUME NEW i \in 1..n
          PROVE  Fine(stack[i])'
      <3>1. stack'[i] = stack[i] /\ Fine(stack[i])
        BY <1>1 DEF Inv, Stacked
      <3>2. stack'[i].kind \in Calls \cup Waits
        BY <1>3
      <3> QED
        BY <3>1, <3>2 DEF Fine, Calls, Drains, Waits
    <2> QED
      BY <1>1, <2>1
  <1>6. Owned(stack', io'.corked)
    <2> SUFFICES ASSUME io'.corked # Nil
                 PROVE  \E i \in 1..n : /\ stack'[i].uncork /\ stack'[i].s = io'.corked
                                        /\ \A j \in (i + 1)..n : ~stack'[j].uncork
      BY <1>1 DEF Owned
    <2>1. PICK i \in 1..(n + 1) : /\ stack[i].uncork /\ stack[i].s = io.corked
                                  /\ \A j \in (i + 1)..(n + 1) : ~stack[j].uncork
      BY <1>1 DEF Inv, Stacked, Owned
    <2>2. i # n + 1
      BY <1>1, <2>1
    <2>3. i \in 1..n
      BY <1>1, <2>2
    <2>4. \A j \in (i + 1)..n : j \in (i + 1)..(n + 1) /\ j \in 1..n
      BY <1>1, <2>3
    <2> QED
      BY <1>1, <2>1, <2>3, <2>4
  <1>7. Slotted'
    <2>1. CASE Top.kind = "http"
      <3>1. n + 1 = 1
        BY <1>1, <1>2, <2>1
      <3>2. stack' = <<>>
        BY <1>1, <3>1, EmptySeq
      <3> QED
        BY <2>1, <3>2 DEF Slotted, Parsing
    <2>2. CASE Top.kind # "http"
      <3>1. Parsing => n # 0
        BY <1>1, <2>2 DEF Parsing
      <3>2. n # 0 => stack'[1] = stack[1] /\ stack' # <<>>
        BY <1>1, EmptySeq
      <3>3. n = 0 => stack' = <<>>
        BY <1>1, EmptySeq
      <3>4. Parsing' <=> Parsing
        BY <3>1, <3>2, <3>3 DEF Parsing
      <3>5. Parsing => stack'[1] = stack[1]
        BY <3>1, <3>2
      <3> QED
        BY <2>2, <3>4, <3>5 DEF Inv, Stacked, Slotted, Parsed
    <2> QED
      BY <2>1, <2>2
  <1>8. /\ Top.kind # "end" => \A s : Ending(s)' <=> Ending(s)
        /\ Top.kind = "end" => \A s : ~Ending(s)' /\ (Ending(s) <=> s = Top.s)
        /\ Top.kind \in {"http", "data"} => stack' = <<>>
        /\ Top.kind \notin Drains => OnlyCalls'
    BY PopEnding
  <1> QED
    BY <1>4, <1>5, <1>6, <1>7, <1>8 DEF Stacked

(* A drain goes on.                                                        *)
LEMMA StackReplace ==
    ASSUME Inv, stack # <<>>, NEW f \in Frames, stack' = Append(Pop, f),
           Top.kind \in Drains, f.kind \in Drains, f.s = Top.s,
           f.uncork = Top.uncork, io'.corked = io.corked,
           io'.closed = io.closed,
           UNCHANGED <<upgraded, shuttingDown, needsUncork, slot>>
    PROVE  Stacked' /\ \A s : Ending(s)' <=> Ending(s)
  <1> DEFINE n == Len(stack) - 1
  <1>1. /\ n \in Nat /\ Len(stack) = n + 1
        /\ Pop \in Seq(Frames) /\ Len(Pop) = n
        /\ \A i \in 1..n : Pop[i] = stack[i]
        /\ Top = stack[n + 1] /\ Top \in Frames
    BY PopFacts
  <1> HIDE DEF n
  <1>2. /\ stack' \in Seq(Frames) /\ Len(stack') = n + 1
        /\ \A i \in 1..n : stack'[i] = stack[i]
        /\ stack'[n + 1] = f
    BY <1>1, Pushed
  <1>3. \A i \in 1..(n + 1) : i \in 1..n \/ i = n + 1
    BY <1>1
  <1>4. \A i \in 1..(n + 1) : /\ stack'[i].s = stack[i].s
                              /\ stack'[i].uncork = stack[i].uncork
                              /\ i # n + 1 => stack'[i].kind = stack[i].kind
    BY <1>1, <1>2, <1>3
  <1>5. /\ stack'[n + 1].kind \in Drains /\ stack[n + 1].kind \in Drains
        /\ Len(stack') = n + 1 /\ Len(stack) = n + 1
    BY <1>1, <1>2
  <1>6. Nested(stack')
    <2>1. \A i \in 1..(n + 1) :
              /\ stack[i].kind \in {"http", "data"} => i = 1
              /\ i < n + 1 =>
                   \/ stack[i].kind \in Calls
                   \/ stack[i].kind \in Waits /\ i + 1 = n + 1
      BY <1>1 DEF Inv, Stacked, Nested
    <2> SUFFICES ASSUME NEW i \in 1..(n + 1)
                 PROVE  /\ stack'[i].kind \in {"http", "data"} => i = 1
                        /\ i < n + 1 =>
                             \/ stack'[i].kind \in Calls
                             \/ /\ stack'[i].kind \in Waits /\ i + 1 = n + 1
                                /\ stack'[i + 1].kind \in Drains
      BY <1>2 DEF Nested
    <2>2. CASE i = n + 1
      <3>1. ~(i < n + 1) /\ stack'[i].kind \in Drains
        BY <1>1, <1>5, <2>2
      <3> QED
        BY <3>1 DEF Drains
    <2>3. CASE i # n + 1
      <3>1. i + 1 = n + 1 => stack'[i + 1].kind \in Drains
        BY <1>5
      <3> QED
        BY <1>4, <2>1, <2>3, <3>1
    <2> QED
      BY <2>2, <2>3
  <1>7. (\A i \in 1..Len(stack) : Fine(stack[i]))'
    <2>1. ASSUME NEW i \in 1..(n + 1)
          PROVE  Fine(stack[i])'
      <3>1. Fine(stack[i])
        BY <1>1 DEF Inv, Stacked
      <3>2. /\ stack'[i].s = stack[i].s /\ stack'[i].uncork = stack[i].uncork
            /\ \/ stack'[i].kind = stack[i].kind
               \/ stack'[i].kind \in Drains /\ stack[i].kind \in Drains
        BY <1>4, <1>5
      <3> QED
        BY <3>1, <3>2 DEF Fine, Drains, Waits
    <2> QED
      BY <1>5, <2>1
  <1>8. Owned(stack', io'.corked)
    <2> SUFFICES ASSUME io'.corked # Nil
                 PROVE  \E i \in 1..(n + 1) :
                            /\ stack'[i].uncork /\ stack'[i].s = io'.corked
                            /\ \A j \in (i + 1)..(n + 1) : ~stack'[j].uncork
      BY <1>5 DEF Owned
    <2>1. PICK i \in 1..(n + 1) : /\ stack[i].uncork /\ stack[i].s = io.corked
                                  /\ \A j \in (i + 1)..(n + 1) : ~stack[j].uncork
      BY <1>1 DEF Inv, Stacked, Owned
    <2>2. \A j \in (i + 1)..(n + 1) : j \in 1..(n + 1)
      BY <1>1
    <2> QED
      BY <1>4, <2>1, <2>2
  <1>9. Slotted'
    <2>1. stack' # <<>>
      BY <1>1, <1>2, EmptySeq
    <2>2. CASE n = 0
      <3>1. ~Parsing /\ ~Parsing'
        BY <1>1, <1>5, <2>2 DEF Parsing, Drains
      <3> QED
        BY <3>1 DEF Inv, Stacked, Slotted, Parsed
    <2>3. CASE n # 0
      <3>1. stack'[1] = stack[1]
        BY <1>1, <1>2, <2>3
      <3> QED
        BY <2>1, <3>1 DEF Inv, Stacked, Slotted, Parsed, Parsing
    <2> QED
      BY <2>2, <2>3
  <1>10. \A s : Ending(s)' <=> Ending(s)
    <2>1. stack'[n + 1].kind # "end" /\ stack[n + 1].kind # "end"
      BY <1>5 DEF Drains
    <2> QED
      BY <1>3, <1>4, <1>5, <2>1 DEF Ending
  <1> QED
    BY <1>6, <1>7, <1>8, <1>9, <1>10 DEF Stacked

-----------------------------------------------------------------------------
(* The actions, one by one.                                                *)

LEMMA CloseStays ==
    ASSUME Inv, UNCHANGED <<closeEvents, shuttingDown>>, io'.closed = io.closed,
           \A s : Ending(s)' <=> Ending(s)
    PROVE  CloseOnce'
  BY DEF Inv, CloseOnce

(* The history of what was accepted follows a send.                        *)
LEMMA SendsBytes ==
    ASSUME Inv, NEW s \in upgraded \ io.closed, NEW n \in Nat, NEW r,
           Sending(s, n, r), io' = r.io, Accepts(s, n, r.status),
           upgraded' = upgraded
    PROVE  Bytes'
  <1>1. s \in Sockets
    BY Facts
  <1>2. /\ accepted' \in [Sockets -> Nat]
        /\ \A t \in Sockets \ {s} : accepted'[t] = accepted[t]
        /\ accepted'[s] = accepted[s] + IF r.status = "DROPPED" THEN 0 ELSE n
    BY Facts DEF Accepts
  <1>3. Aside(io, io', s) /\ Stream(io', s) = Counted(accepted'[s])
    BY <1>2 DEF Sending
  <1> QED
    BY <1>1, <1>2, <1>3, Apart

LEMMA ResetKeeps ==
    ASSUME Inv, NEW s \in Sockets, NEW status, ResetTimer(s, status)
    PROVE  /\ timer' \in [Sockets -> {"first", "rearmed", "second"}]
           /\ timedOut' \subseteq timedOut
  BY DEF ResetTimer, Inv, Kept

(* send() of a message.                                                    *)
LEMMA SendInv ==
    ASSUME Careful, Inv, NEW s \in Sockets, NEW n \in Sizes, NEW room \in Room,
           NEW special \in BOOLEAN, Send(s, n, room, special)
    PROVE  Inv'
  <1> DEFINE r == SendResult(s, Frame(s, n), room, special)
  <1>1. n \in Nat /\ s \in upgraded \ io.closed /\ s \in Sockets \ io.closed
    BY ConfigAssumption DEF Send, Live
  <1>2. Sending(s, n, r)
    BY <1>1, SendSteps
  <1>3. /\ Handling /\ io' = r.io /\ Accepts(s, n, r.status)
        /\ ResetTimer(s, r.status)
        /\ UNCHANGED <<upgraded, slot, shuttingDown, subscribed, queued,
                       needsUncork, stack, refused, closeEvents>>
    BY DEF Send
  <1> HIDE DEF r
  <1>4. Bytes'
    BY <1>1, <1>2, <1>3, SendsBytes
  <1>5. Kept'
    BY <1>3, ResetKeeps DEF Inv, Kept
  <1>6. Stacked' /\ \A t : Ending(t)' <=> Ending(t)
    BY <1>2, <1>3, CallsOnly, SlotStays, StackStays DEF Sending
  <1>7. CloseOnce'
    BY <1>2, <1>3, <1>6, CloseStays DEF Sending
  <1> QED
    BY <1>4, <1>5, <1>6, <1>7 DEF Inv

(* A drain begins.                                                         *)
LEMMA DrainStarts ==
    ASSUME Inv, NEW s \in upgraded \ io.closed, NEW below, DrainBegins(s, below),
           UNCHANGED <<upgraded, accepted>>
    PROVE  LET f == On("drain", s, io.corked = Nil, queued[s])
           IN  /\ Bytes'
               /\ f \in Frames /\ (io.corked = Nil => needsUncork')
               /\ f.kind = "drain" /\ f.s = s /\ f.uncork = (io.corked = Nil)
               /\ io'.corked = IF io.corked = Nil THEN s ELSE io.corked
               /\ io'.closed = io.closed /\ io'.fin = io.fin /\ io'.raw = io.raw
               /\ needsUncork' \in BOOLEAN
               /\ queued' = [queued EXCEPT ![s] = 0]
               /\ below = <<>> => stack' = Append(stack, f)
               /\ \A e \in Frames : below = <<e>> =>
                      stack' = Append(Append(stack, e), f)
  <1> DEFINE f == On("drain", s, io.corked = Nil, queued[s])
  <1>1. s \in Sockets /\ queued[s] \in Nat /\ queued \in [Sockets -> Nat]
        /\ needsUncork \in BOOLEAN /\ (io.corked = Nil) \in BOOLEAN
    BY Facts DEF Inv, Kept
  <1>2. /\ f \in Frames
        /\ f.kind = "drain" /\ f.s = s /\ f.uncork = (io.corked = Nil)
    BY <1>1 DEF On, Frames, Drains
  <1>3. /\ Aside(io, io', s) /\ Stream(io', s) = Stream(io, s)
        /\ io'.corked = IF io.corked = Nil THEN s ELSE io.corked
        /\ io'.closed = io.closed /\ io'.fin = io.fin /\ io'.raw = io.raw
    BY <1>1, CorkKeeps DEF DrainBegins
  <1>4. Bytes'
    BY <1>1, <1>3, Still, Facts
  <1>5. /\ needsUncork' \in BOOLEAN /\ (io.corked = Nil => needsUncork')
        /\ queued' = [queued EXCEPT ![s] = 0]
    BY <1>1 DEF DrainBegins, CanCork
  <1>6. stack' = stack \o below \o <<f>>
    BY DEF DrainBegins, CanCork
  <1> HIDE DEF f
  <1>7. below = <<>> => stack' = Append(stack, f)
    BY <1>2, <1>6, Facts, Pushed
  <1>8. ASSUME NEW e \in Frames, below = <<e>>
        PROVE  stack' = Append(Append(stack, e), f)
    <2>1. stack \o <<e>> = Append(stack, e) /\ Append(stack, e) \in Seq(Frames)
      BY Facts, Pushed
    <2> QED
      BY <1>2, <1>6, <1>8, <2>1, Pushed
  <1>9. /\ f.kind = "drain" /\ f.s = s /\ f.uncork = (io.corked = Nil)
    BY <1>2
  <1> QED
    BY <1>2, <1>3, <1>4, <1>5, <1>7, <1>8 DEF f

(* The drain that a send waits for.                                        *)
LEMMA SendDrainsInv ==
    ASSUME Careful, Inv, NEW s \in Sockets, NEW n \in Sizes, SendDrains(s, n)
    PROVE  Inv'
  <1> DEFINE e == On("send", s, FALSE, n)
             f == On("drain", s, io.corked = Nil, queued[s])
  <1>1. s \in upgraded \ io.closed /\ n \in Nat /\ Handling
    BY ConfigAssumption DEF SendDrains, Live
  <1>2. /\ DrainBegins(s, <<e>>)
        /\ UNCHANGED <<upgraded, slot, shuttingDown, timedOut, timer, subscribed,
                       accepted, refused, closeEvents>>
    BY DEF SendDrains
  <1>3. /\ e \in Frames /\ e.kind = "send" /\ e.s = s /\ ~e.uncork
    BY <1>1 DEF On, Frames, Waits
  <1> HIDE DEF e
  <1>4. /\ Bytes'
        /\ f \in Frames /\ (io.corked = Nil => needsUncork')
        /\ f.kind = "drain" /\ f.s = s /\ f.uncork = (io.corked = Nil)
        /\ io'.corked = IF io.corked = Nil THEN s ELSE io.corked
        /\ io'.closed = io.closed /\ needsUncork' \in BOOLEAN
        /\ queued' = [queued EXCEPT ![s] = 0]
        /\ stack' = Append(Append(stack, e), f)
    BY <1>1, <1>2, <1>3, DrainStarts
  <1> HIDE DEF f
  <1>5. Kept'
    BY <1>2, <1>4 DEF Inv, Kept
  <1>6. Stacked' /\ \A t : Ending(t)' <=> FALSE
    <2>1. OnlyCalls
      BY <1>1, CallsOnly
    <2> QED
      BY <1>1, <1>2, <1>3, <1>4, <2>1, StackPushWaiting DEF Waits, Drains
  <1>7. \A t : Ending(t)' <=> Ending(t)
    BY <1>1, <1>6, CallsOnly
  <1>8. CloseOnce'
    BY <1>2, <1>4, <1>7, CloseStays
  <1> QED
    BY <1>4, <1>5, <1>6, <1>8 DEF Inv

(* The drain of the loop, or of a publish.                                 *)
LEMMA DrainInv ==
    ASSUME Careful, Inv, NEW s \in Sockets, Drain(s)
    PROVE  Inv'
  <1> DEFINE f == On("drain", s, io.corked = Nil, queued[s])
  <1>1. s \in upgraded \ io.closed /\ Handling
    BY DEF Drain, Live
  <1>2. /\ DrainBegins(s, <<>>)
        /\ UNCHANGED <<upgraded, slot, shuttingDown, timedOut, timer, subscribed,
                       accepted, refused, closeEvents>>
    BY DEF Drain
  <1>3. /\ Bytes'
        /\ f \in Frames /\ (io.corked = Nil => needsUncork')
        /\ f.kind = "drain" /\ f.s = s /\ f.uncork = (io.corked = Nil)
        /\ io'.corked = IF io.corked = Nil THEN s ELSE io.corked
        /\ io'.closed = io.closed /\ needsUncork' \in BOOLEAN
        /\ queued' = [queued EXCEPT ![s] = 0]
        /\ stack' = Append(stack, f)
    BY <1>1, <1>2, DrainStarts
  <1> HIDE DEF f
  <1>4. Kept'
    BY <1>2, <1>3 DEF Inv, Kept
  <1>5. Stacked' /\ \A t : Ending(t)' <=> Ending(t)
    <2>1. OnlyCalls
      BY <1>1, CallsOnly
    <2> QED
      BY <1>1, <1>2, <1>3, <2>1, StackPush DEF Drains
  <1>6. CloseOnce'
    BY <1>2, <1>3, <1>5, CloseStays
  <1> QED
    BY <1>3, <1>4, <1>5, <1>6 DEF Inv

(* Subscriptions and what is published change nothing else.                *)
LEMMA SubscribeInv ==
    ASSUME Careful, Inv, NEW s \in Sockets, Subscribe(s) \/ Publish(s)
    PROVE  Inv'
  <1>1. /\ Handling /\ s \in upgraded
        /\ UNCHANGED <<io, upgraded, slot, shuttingDown, timedOut, timer,
                       needsUncork, stack, accepted, refused, closeEvents>>
        /\ subscribed' \in {subscribed, subscribed \cup {s}}
        /\ queued' \in {queued, [queued EXCEPT ![s] = @ + 1]}
    BY DEF Subscribe, Publish, Live
  <1>2. Bytes'
    BY <1>1 DEF Inv, Bytes, Stream, Pending, Data, IsCorked
  <1>3. Kept'
    BY <1>1 DEF Inv, Kept
  <1>4. Stacked' /\ \A t : Ending(t)' <=> Ending(t)
    BY <1>1, CallsOnly, SlotStays, StackStays
  <1>5. CloseOnce'
    BY <1>1, <1>4, CloseStays
  <1> QED
    BY <1>2, <1>3, <1>4, <1>5 DEF Inv

(* A message of a drain.                                                   *)
LEMMA DrainMessageInv ==
    ASSUME Inv, NEW room \in Room, DrainMessage(room)
    PROVE  Inv'
  <1> DEFINE s == Top.s
             r == SendResult(s, Frame(s, 1), room, FALSE)
             f == IF r.status = "DROPPED" THEN [Top EXCEPT !.kind = "dropped"]
                  ELSE [Top EXCEPT !.left = @ - 1]
  <1>1. stack # <<>> /\ Top.kind = "drain" /\ Top.left > 0
    BY DEF DrainMessage, Atop
  <1>2. Top \in Frames /\ s \in Sockets /\ Fine(Top)
    BY <1>1, PopFacts, Facts DEF Inv, Stacked, Top
  <1>3. s \in upgraded \ io.closed /\ s \in Sockets \ io.closed
    BY <1>1, <1>2 DEF Fine, Drains
  <1>4. /\ io' = r.io /\ Accepts(s, 1, r.status) /\ ResetTimer(s, r.status)
        /\ stack' = Append(Pop, f)
        /\ UNCHANGED <<upgraded, slot, shuttingDown, subscribed, queued,
                       needsUncork, refused, closeEvents>>
    BY DEF DrainMessage
  <1>5. f \in Frames /\ f.kind \in Drains /\ f.s = Top.s /\ f.uncork = Top.uncork
    <2> DEFINE k == [Top EXCEPT !.kind = "dropped"]
               l == [Top EXCEPT !.left = @ - 1]
    <2>1. k \in Frames /\ k.kind \in Drains /\ k.s = Top.s /\ k.uncork = Top.uncork
      BY <1>2 DEF Frames, Drains
    <2>2. l \in Frames /\ l.kind \in Drains /\ l.s = Top.s /\ l.uncork = Top.uncork
      BY <1>1, <1>2 DEF Frames, Drains
    <2>3. f = k \/ f = l
      OBVIOUS
    <2> HIDE DEF f, k, l
    <2> QED
      BY <2>1, <2>2, <2>3
  <1> HIDE DEF f
  <1>6. Sending(s, 1, r) /\ r.io.corked = io.corked
    BY <1>3, SendSteps
  <1> HIDE DEF r, s
  <1>7. Bytes'
    BY <1>3, <1>4, <1>6, SendsBytes
  <1>8. Kept'
    BY <1>2, <1>4, ResetKeeps DEF Inv, Kept
  <1>9. Stacked' /\ \A t : Ending(t)' <=> Ending(t)
    BY <1>1, <1>4, <1>5, <1>6, StackReplace DEF Sending, Drains
  <1>10. CloseOnce'
    BY <1>4, <1>6, <1>9, CloseStays DEF Sending
  <1> QED
    BY <1>7, <1>8, <1>9, <1>10 DEF Inv

(* The rest of a send.                                                     *)
LEMMA SendRestInv ==
    ASSUME Inv, NEW room \in Room, SendRest(room)
    PROVE  Inv'
  <1> DEFINE s == Top.s
             n == Top.left
             r == BufferedSend(io, s, Frame(s, n), room)
  <1>1. stack # <<>> /\ Top.kind = "send"
    BY DEF SendRest, Atop
  <1>2. Top \in Frames /\ s \in Sockets /\ Fine(Top) /\ n \in Nat
    BY <1>1, PopFacts, Facts DEF Inv, Stacked, Top, Frames
  <1>3. s \in upgraded \ io.closed /\ s \in Sockets \ io.closed /\ ~Top.uncork
    BY <1>1, <1>2 DEF Fine, Waits
  <1>4. /\ io' = r.io /\ Accepts(s, n, r.status) /\ ResetTimer(s, r.status)
        /\ stack' = Pop
        /\ UNCHANGED <<upgraded, slot, shuttingDown, subscribed, queued,
                       needsUncork, refused, closeEvents>>
    BY DEF SendRest
  <1>5. Sending(s, n, r) /\ r.io.corked = io.corked
    BY <1>2, <1>3, RestSteps
  <1> HIDE DEF r, s, n
  <1>6. Bytes'
    BY <1>2, <1>3, <1>4, <1>5, SendsBytes
  <1>7. Kept'
    BY <1>2, <1>4, ResetKeeps DEF Inv, Kept
  <1>8. Stacked' /\ \A t : Ending(t)' <=> Ending(t)
    BY <1>1, <1>3, <1>4, <1>5, StackPop DEF Sending
  <1>9. CloseOnce'
    BY <1>4, <1>5, <1>8, CloseStays DEF Sending
  <1> QED
    BY <1>6, <1>7, <1>8, <1>9 DEF Inv

(* The rest of an end().                                                   *)
LEMMA EndedKeeps ==
    ASSUME Inv, NEW s \in upgraded \ io.closed, NEW r, Ended(s, r),
           shuttingDown' = shuttingDown \cup {s},
           UNCHANGED <<upgraded, slot, needsUncork>>
    PROVE  Bytes' /\ Kept'
  <1>1. s \in Sockets
    BY Facts
  <1>2. Bytes'
    BY <1>1, Apart DEF Ended
  <1>3. /\ timedOut' \subseteq upgraded /\ subscribed' \subseteq upgraded
        /\ timer' \in [Sockets -> {"first", "rearmed", "second"}]
        /\ queued' \in [Sockets -> Nat] /\ closeEvents' \in [Sockets -> Nat]
        /\ refused' \subseteq shuttingDown' /\ shuttingDown' \subseteq upgraded
    BY <1>1 DEF Inv, Kept, Ended
  <1> QED
    BY <1>2, <1>3 DEF Inv, Kept

(* end(): the close frame, and the FIN when nothing is buffered.           *)
LEMMA EndInv ==
    ASSUME Careful, Inv, NEW s \in Sockets, NEW room \in Room, End(s, room)
    PROVE  Inv'
  <1> DEFINE r == SendResult(s, Frame(s, 1), room, FALSE)
  <1>1. /\ s \in upgraded \ io.closed /\ s \in Sockets \ io.closed /\ Handling
        /\ s \notin shuttingDown
    BY DEF End, MayEnd, Live
  <1>2. Sending(s, 1, r) /\ r.io.corked = io.corked
    BY <1>1, SendSteps
  <1>3. /\ shuttingDown' = shuttingDown \cup {s} /\ EndSent(s, r)
        /\ UNCHANGED <<upgraded, slot, needsUncork, stack>>
    BY DEF End
  <1> HIDE DEF r
  <1>4. Ended(s, r)
    BY <1>1, <1>2, <1>3, EndSteps
  <1>5. Bytes' /\ Kept'
    BY <1>1, <1>3, <1>4, EndedKeeps
  <1>6. Stacked' /\ \A t : Ending(t)' <=> Ending(t)
    BY <1>1, <1>2, <1>3, <1>4, CallsOnly, SlotStays, StackStays DEF Ended
  <1>7. CloseOnce'
    <2>1. \A t : ~Ending(t) /\ ~Ending(t)'
      BY <1>1, <1>6, CallsOnly
    <2>2. closeEvents \in [Sockets -> Nat] /\ closeEvents[s] = 0
      BY <1>1 DEF Inv, Kept, CloseOnce
    <2> QED
      BY <1>1, <1>3, <1>4, <2>1, <2>2 DEF Inv, CloseOnce, Ended
  <1> QED
    BY <1>5, <1>6, <1>7 DEF Inv

(* The drain that an end() waits for.                                      *)
LEMMA EndDrainsInv ==
    ASSUME Careful, Inv, NEW s \in Sockets, EndDrains(s)
    PROVE  Inv'
  <1> DEFINE e == On("end", s, FALSE, 1)
             f == On("drain", s, io.corked = Nil, queued[s])
  <1>1. s \in upgraded \ io.closed /\ Handling /\ s \notin shuttingDown
    BY DEF EndDrains, MayEnd, Live
  <1>2. /\ DrainBegins(s, <<e>>) /\ shuttingDown' = shuttingDown \cup {s}
        /\ UNCHANGED <<upgraded, slot, timedOut, timer, subscribed, accepted,
                       refused, closeEvents>>
    BY DEF EndDrains
  <1>3. /\ e \in Frames /\ e.kind = "end" /\ e.s = s /\ ~e.uncork
    BY <1>1, Facts DEF On, Frames, Waits
  <1> HIDE DEF e
  <1>4. /\ Bytes'
        /\ f \in Frames /\ (io.corked = Nil => needsUncork')
        /\ f.kind = "drain" /\ f.s = s /\ f.uncork = (io.corked = Nil)
        /\ io'.corked = IF io.corked = Nil THEN s ELSE io.corked
        /\ io'.closed = io.closed /\ needsUncork' \in BOOLEAN
        /\ queued' = [queued EXCEPT ![s] = 0]
        /\ stack' = Append(Append(stack, e), f)
    BY <1>1, <1>2, <1>3, DrainStarts
  <1> HIDE DEF f
  <1>5. Kept'
    BY <1>1, <1>2, <1>4 DEF Inv, Kept
  <1>6. Stacked' /\ \A t : Ending(t)' <=> t = s
    <2>1. OnlyCalls
      BY <1>1, CallsOnly
    <2> QED
      BY <1>1, <1>2, <1>3, <1>4, <2>1, StackPushWaiting DEF Waits, Drains
  <1>7. CloseOnce'
    <2>1. \A t : ~Ending(t)
      BY <1>1, CallsOnly
    <2> QED
      BY <1>1, <1>2, <1>4, <1>6, <2>1 DEF Inv, CloseOnce
  <1> QED
    BY <1>4, <1>5, <1>6, <1>7 DEF Inv

(* The rest of an end() after its drain.                                   *)
LEMMA EndRestInv ==
    ASSUME Inv, NEW room \in Room, EndRest(room)
    PROVE  Inv'
  <1> DEFINE s == Top.s
             r == BufferedSend(io, s, Frame(s, 1), room)
  <1>1. stack # <<>> /\ Top.kind = "end"
    BY DEF EndRest, Atop
  <1>2. Top \in Frames /\ s \in Sockets /\ Fine(Top)
    BY <1>1, PopFacts, Facts DEF Inv, Stacked, Top
  <1>3. /\ s \in upgraded \ io.closed /\ s \in Sockets \ io.closed
        /\ s \in shuttingDown /\ ~Top.uncork
    BY <1>1, <1>2 DEF Fine, Waits
  <1>4. /\ EndSent(s, r) /\ stack' = Pop
        /\ UNCHANGED <<upgraded, slot, shuttingDown, needsUncork>>
    BY DEF EndRest
  <1>5. Sending(s, 1, r) /\ r.io.corked = io.corked
    BY <1>3, Facts, RestSteps
  <1> HIDE DEF r, s
  <1>6. Ended(s, r)
    BY <1>3, <1>4, <1>5, EndSteps
  <1>7. Bytes' /\ Kept'
    <2>1. shuttingDown' = shuttingDown \cup {s}
      BY <1>3, <1>4
    <2> QED
      BY <1>3, <1>4, <1>6, <2>1, EndedKeeps
  <1>8. Stacked' /\ \A t : ~Ending(t)' /\ (Ending(t) <=> t = s)
    BY <1>1, <1>3, <1>4, <1>5, <1>6, StackPop DEF Ended, s
  <1>9. CloseOnce'
    <2>1. closeEvents \in [Sockets -> Nat] /\ closeEvents[s] = 0
      BY <1>2, <1>3, <1>8 DEF Inv, Kept, CloseOnce
    <2> QED
      BY <1>2, <1>3, <1>4, <1>6, <1>8, <2>1 DEF Inv, CloseOnce, Ended
  <1> QED
    BY <1>7, <1>8, <1>9 DEF Inv

(* close(): the socket is closed at once.                                  *)
LEMMA CloseInv ==
    ASSUME Careful, Inv, Handling, NEW s \in upgraded \ io.closed, CloseSocket(s),
           UNCHANGED <<upgraded, slot, shuttingDown, needsUncork, stack,
                       accepted, refused>>
    PROVE  Inv'
  <1>1. s \in Sockets
    BY Facts
  <1>2. /\ Aside(io, io', s) /\ io'.closed = io.closed \cup {s}
        /\ io'.corked = io.corked /\ io'.fin = io.fin
        /\ timer' = [timer EXCEPT ![s] = "first"]
        /\ timedOut' = timedOut \ {s} /\ subscribed' = subscribed \ {s}
        /\ queued' = [queued EXCEPT ![s] = 0]
        /\ closeEvents' = IF s \in shuttingDown THEN closeEvents
                          ELSE [closeEvents EXCEPT ![s] = @ + 1]
    BY CloseSteps
  <1>3. Bytes'
    BY <1>1, <1>2, Still
  <1>4. Kept'
    BY <1>1, <1>2 DEF Inv, Kept
  <1>5. Stacked' /\ \A t : Ending(t)' <=> Ending(t)
    BY <1>2, CallsOnly, SlotStays, StackStays
  <1>6. CloseOnce'
    <2>1. \A t : ~Ending(t) /\ ~Ending(t)'
      BY <1>5, CallsOnly
    <2>2. closeEvents \in [Sockets -> Nat]
      BY DEF Inv, Kept
    <2>3. closeEvents[s] = IF s \in shuttingDown THEN 1 ELSE 0
      BY <1>1, <2>1 DEF Inv, CloseOnce
    <2> QED
      BY <1>1, <1>2, <2>1, <2>2, <2>3 DEF Inv, CloseOnce
  <1> QED
    BY <1>3, <1>4, <1>5, <1>6 DEF Inv

(* A handler or a block begins, which corks when it can.                   *)
LEMMA BeginInv ==
    ASSUME Inv, OnlyCalls, NEW s \in Sockets, NEW f \in Frames,
           io' = IF CanCork(io) THEN Cork(io, s) ELSE io,
           stack' = Append(stack, f), f.kind \in Calls, f.s = s,
           f.uncork = (io.corked = Nil),
           f.kind \in {"http", "data"} => stack = <<>>,
           f.kind = "http" => s \notin upgraded,
           timer' \in [Sockets -> {"first", "rearmed", "second"}],
           timedOut' \subseteq timedOut,
           UNCHANGED <<upgraded, slot, shuttingDown, subscribed, queued,
                       needsUncork, accepted, refused, closeEvents>>
    PROVE  Inv'
  <1>1. /\ Aside(io, io', s) /\ Stream(io', s) = Stream(io, s)
        /\ io'.corked = IF io.corked = Nil THEN s ELSE io.corked
        /\ io'.closed = io.closed /\ io'.fin = io.fin
    BY CorkKeeps
  <1>2. Bytes'
    BY <1>1, Still, Facts
  <1>3. Kept'
    BY DEF Inv, Kept
  <1>4. Stacked' /\ \A t : Ending(t)' <=> Ending(t)
    <2>1. f.kind \notin Drains
      BY DEF Calls, Drains
    <2> QED
      BY <1>1, <2>1, StackPush
  <1>5. CloseOnce'
    BY <1>1, <1>4, CloseStays
  <1> QED
    BY <1>2, <1>3, <1>4, <1>5 DEF Inv

LEMMA CorkBeginInv ==
    ASSUME Careful, Inv, NEW s \in Sockets, CorkBegin(s)
    PROVE  Inv'
  <1> DEFINE f == On(IF s \in upgraded THEN "block" ELSE "response", s,
                     CanCork(io), 0)
  <1>1. /\ f \in Frames /\ f.kind \in Calls /\ f.s = s
        /\ f.uncork = (io.corked = Nil) /\ f.kind \notin {"http", "data"}
    BY DEF On, Frames, Calls, CanCork
  <1>2. Handling /\ stack' = Append(stack, f)
    BY DEF CorkBegin
  <1> HIDE DEF f
  <1>3. timer' \in [Sockets -> {"first", "rearmed", "second"}]
    BY DEF CorkBegin, Inv, Kept
  <1> QED
    BY <1>1, <1>2, <1>3, CallsOnly, BeginInv DEF CorkBegin

LEMMA OnHttpDataInv ==
    ASSUME Inv, NEW s \in Sockets, OnHttpData(s)
    PROVE  Inv'
  <1> DEFINE f == On("http", s, TRUE, 0)
  <1>1. f \in Frames /\ f.kind = "http" /\ f.s = s /\ f.uncork = TRUE
    BY DEF On, Frames, Calls
  <1>2. /\ stack = <<>> /\ s \notin upgraded /\ Append(stack, f) = <<f>>
        /\ stack' = <<f>> /\ io' = Cork(io, s)
    BY DEF OnHttpData
  <1>3. io.corked = Nil
    BY <1>2, Facts
  <1> HIDE DEF f
  <1>4. timer' \in [Sockets -> {"first", "rearmed", "second"}]
    BY DEF OnHttpData, Inv, Kept
  <1> QED
    BY <1>1, <1>2, <1>3, <1>4, LoopCalls, BeginInv DEF OnHttpData, CanCork, Calls

LEMMA OnDataInv ==
    ASSUME Inv, NEW s \in Sockets, OnData(s)
    PROVE  Inv'
  <1> DEFINE f == On("data", s, TRUE, 0)
  <1>1. f \in Frames /\ f.kind = "data" /\ f.s = s /\ f.uncork = TRUE
    BY DEF On, Frames, Calls
  <1>2. /\ stack = <<>> /\ Append(stack, f) = <<f>>
        /\ stack' = <<f>> /\ io' = Cork(io, s)
    BY DEF OnData
  <1>3. io.corked = Nil
    BY <1>2, Facts
  <1> HIDE DEF f
  <1>4. timer' \in [Sockets -> {"first", "rearmed", "second"}]
    BY DEF OnData, Inv, Kept
  <1>5. timedOut' \subseteq timedOut
    BY DEF OnData
  <1> QED
    BY <1>1, <1>2, <1>3, <1>4, <1>5, LoopCalls, BeginInv DEF OnData, CanCork, Calls

(* A socket that is no WebSocket yet has no bytes.                         *)
LEMMA EmptyStream ==
    ASSUME Inv, NEW s \in Sockets \ upgraded
    PROVE  s \notin io.closed /\ accepted[s] = 0 /\ (io.corked = s => io.cork = <<>>)
  <1>1. s \notin io.closed /\ accepted[s] = 0
    BY Facts DEF Inv, Bytes
  <1>2. Stream(io, s) = Counted(0)
    BY <1>1, Facts
  <1>3. Counted(0) = <<>>
    BY EmptySeq DEF Counted
  <1>4. ASSUME io.corked = s
        PROVE  io.cork = <<>>
    <2>1. IOSafe(io, Nat) /\ io.cork \in Seq(Nat) /\ Pending(io, s) \in Seq(Nat)
      BY Facts, Components, PendingType DEF IOInv, IOSafe
    <2>2. Pending(io, s) \o io.cork = <<>>
      BY <1>2, <1>3, <1>4, <2>1, StreamEnds
    <2>3. Len(Pending(io, s)) + Len(io.cork) = 0
      BY <2>1, <2>2, EmptySeq, ConcatProperties
    <2>4. Len(io.cork) = 0
      BY <2>1, <2>3, LenProperties
    <2> QED
      BY <2>1, <2>4, EmptySeq
  <1> QED
    BY <1>1, <1>4

(* The response of an upgrade, and the open handler's socket.              *)
LEMMA UpgradeInv ==
    ASSUME Careful, Inv, NEW s \in Sockets, NEW room \in Room, Upgrade(s, room)
    PROVE  Inv'
  <1>1. /\ Handling /\ s \in Sockets \ upgraded /\ (Parsing => Parsed(s))
        /\ upgraded' = upgraded \cup {s}
        /\ io' = Write(io, s, Frame(s, 1), room, FALSE).io
        /\ slot' = IF Parsing THEN s ELSE slot
        /\ accepted' = [accepted EXCEPT ![s] = 1]
        /\ UNCHANGED <<shuttingDown, timedOut, timer, subscribed, queued,
                       needsUncork, stack, refused, closeEvents>>
    BY DEF Upgrade, Careful
  <1>2. s \notin io.closed /\ accepted[s] = 0 /\ (io.corked = s => io.cork = <<>>)
    BY <1>1, EmptyStream
  <1>3. /\ Aside(io, io', s) /\ io'.corked = io.corked
        /\ io'.closed = io.closed /\ io'.fin = io.fin
        /\ Stream(io', s) = Counted(accepted[s] + 1)
    <2>1. s \in Sockets \ io.closed
      BY <1>2
    <2> QED
      BY <1>1, <1>2, <2>1, ByteSteps
  <1>4. Bytes'
    <2>1. /\ accepted' \in [Sockets -> Nat] /\ accepted'[s] = 1
          /\ \A t \in Sockets \ {s} : accepted'[t] = accepted[t]
      BY <1>1, Facts
    <2>2. Stream(io', s) = Counted(accepted'[s])
      BY <1>2, <1>3, <2>1
    <2> QED
      BY <1>1, <1>3, <2>1, <2>2, Apart
  <1>5. Kept'
    BY <1>1 DEF Inv, Kept
  <1>6. Slotted'
    <2>1. Slotted
      BY DEF Inv, Stacked
    <2>2. CASE Parsing
      BY <1>1, <2>2, SocketAssumption DEF Slotted, Parsed, Parsing
    <2>3. CASE ~Parsing
      BY <1>1, <2>1, <2>3 DEF Slotted, Parsed, Parsing
    <2> QED
      BY <2>2, <2>3
  <1>7. Stacked' /\ \A t : Ending(t)' <=> Ending(t)
    BY <1>1, <1>3, <1>6, CallsOnly, StackStays
  <1>8. CloseOnce'
    BY <1>1, <1>3, <1>7, CloseStays
  <1> QED
    BY <1>4, <1>5, <1>7, <1>8 DEF Inv

(* A handler, a block or a drain returns, having freed the cork it held.   *)
LEMMA FreeInv ==
    ASSUME Inv, stack # <<>>, stack' = Pop, NEW s \in Sockets,
           Aside(io, io', s), io'.closed = io.closed,
           io'.corked \in {io.corked, Nil},
           s \notin io.closed => Stream(io', s) = Stream(io, s),
           s \in io'.fin => s \in upgraded,
           Top.uncork => io'.corked # Top.s, Top.kind # "end",
           Top.kind \notin Drains => needsUncork' = needsUncork,
           needsUncork' \in BOOLEAN,
           slot' = IF Top.kind = "http" THEN Nil ELSE slot,
           UNCHANGED <<upgraded, shuttingDown, timedOut, timer, subscribed,
                       queued, accepted, refused, closeEvents>>
    PROVE  Inv'
  <1>1. Bytes'
    BY Still, Facts
  <1>2. Kept'
    BY DEF Inv, Kept
  <1>3. Stacked' /\ \A t : Ending(t)' <=> Ending(t)
    BY StackPop
  <1>4. CloseOnce'
    BY <1>3, CloseStays
  <1> QED
    BY <1>1, <1>2, <1>3, <1>4 DEF Inv

(* The end of a drain, or of its dropped handler: whoever corked for a     *)
(* drain has left needsUncork set.                                         *)
LEMMA DrainEndInv ==
    ASSUME Inv, NEW room \in Room, DrainEnd(room) \/ DroppedReturn(room)
    PROVE  Inv'
  <1> DEFINE s == Top.s
             r == Uncork(io, s, <<>>, room, FALSE)
  <1>1. /\ stack # <<>> /\ Top.kind \in Drains /\ stack' = Pop
        /\ io' = IF needsUncork THEN r.io ELSE io
        /\ needsUncork' \in {needsUncork, FALSE}
        /\ UNCHANGED <<upgraded, slot, shuttingDown, timedOut, timer, subscribed,
                       queued, accepted, refused, closeEvents>>
    BY DEF DrainEnd, DroppedReturn, Atop, Drains
  <1>2. Top \in Frames /\ s \in Sockets /\ Fine(Top)
    BY <1>1, PopFacts, Facts DEF Inv, Stacked, Top
  <1>3. Top.uncork => needsUncork
    BY <1>1, <1>2 DEF Fine
  <1>4. Freed(s, r)
    BY <1>2, FreeSteps
  <1> HIDE DEF r
  <1>5. Aside(io, io, s) /\ io.fin \subseteq upgraded
    BY <1>2, Facts
  <1>6. /\ Aside(io, io', s) /\ io'.closed = io.closed /\ io'.fin = io.fin
        /\ io'.corked \in {io.corked, Nil}
        /\ s \notin io.closed => Stream(io', s) = Stream(io, s)
        /\ Top.uncork => io'.corked # s
    BY <1>1, <1>3, <1>4, <1>5 DEF Freed
  <1>7. Top.kind \notin {"end", "http"} /\ needsUncork' \in BOOLEAN
    BY <1>1 DEF Drains, Inv, Kept
  <1> QED
    BY <1>1, <1>2, <1>5, <1>6, <1>7, FreeInv

(* The end of a cork block.                                                *)
LEMMA CorkEndInv ==
    ASSUME Inv, NEW room \in Room, CorkEnd(room)
    PROVE  Inv'
  <1> DEFINE s == IF Top.kind = "response" THEN io.corked ELSE Top.s
             frees == Top.uncork /\ io.corked # Nil
             r == Uncork(io, s, <<>>, room, FALSE)
  <1>1. /\ stack # <<>> /\ Top.kind \in {"block", "response"} /\ stack' = Pop
        /\ io' = IF frees THEN r.io ELSE io
        /\ UNCHANGED <<upgraded, slot, shuttingDown, timedOut, timer, subscribed,
                       queued, needsUncork, accepted, refused, closeEvents>>
    BY DEF CorkEnd, Atop, CanCork
  <1>2. /\ Top \in Frames /\ Top.s \in Sockets /\ io.corked \in Sockets \cup {Nil}
        /\ \A t \in Sockets : Aside(io, io, t)
        /\ io.fin \subseteq upgraded /\ needsUncork \in BOOLEAN
        /\ Top.kind \notin {"end", "http"}
    BY <1>1, PopFacts, Facts DEF Inv, Kept
  <1>3. CASE frees
    <2>1. s \in Sockets /\ (Top.uncork => r.io.corked # Top.s)
      <3>1. s \in Sockets
        BY <1>2, <1>3
      <3>2. Freed(s, r)
        BY <3>1, FreeSteps
      <3> HIDE DEF r
      <3>3. r.io.corked # Top.s
        BY <1>2, <3>1, <3>2, SocketAssumption DEF Freed
      <3> QED
        BY <3>1, <3>3
    <2>2. Freed(s, r)
      BY <2>1, FreeSteps
    <2> HIDE DEF r, s
    <2>3. io' = r.io
      BY <1>1, <1>3
    <2> QED
      BY <1>1, <1>2, <2>1, <2>2, <2>3, FreeInv DEF Freed
  <1>4. CASE ~frees
    <2>1. io' = io /\ (Top.uncork => io'.corked # Top.s)
      BY <1>1, <1>2, <1>4, SocketAssumption
    <2> QED
      BY <1>1, <1>2, <2>1, FreeInv
  <1> QED
    BY <1>3, <1>4

(* FIN after the uncork(), or not.                                         *)
LEMMA FinSteps ==
    ASSUME Inv, NEW s \in Sockets, NEW r, Freed(s, r), NEW fin \in BOOLEAN,
           io' = IF fin THEN Shutdown(r.io, s) ELSE r.io
    PROVE  /\ Aside(io, io', s) /\ io'.closed = io.closed
           /\ io'.corked = r.io.corked /\ io'.raw = r.io.raw
           /\ s \notin io.closed => Stream(io', s) = Stream(io, s)
           /\ io'.fin = IF fin /\ s \notin io.closed THEN io.fin \cup {s} ELSE io.fin
  <1> DEFINE q == Shutdown(r.io, s)
  <1>1. Finned(io, r.io, s, q)
    BY ShutdownKeeps DEF Freed
  <1> HIDE DEF q
  <1>2. io' = IF fin THEN q ELSE r.io
    BY DEF q
  <1> QED
    BY <1>1, <1>2 DEF Finned, Freed

(* The data handler of HttpContext frees the cork of the socket it parsed, *)
(* which is the one in the slot if that is an upgraded one.                *)
LEMMA HttpReturnFacts ==
    ASSUME Inv, NEW room \in Room, HttpReturn(room)
    PROVE  LET s == Top.s
               r == Uncork(io, s, <<>>, room, FALSE)
               fin == slot # Nil /\ ~r.failed /\ s \in shuttingDown
           IN  /\ stack # <<>> /\ Top.kind = "http" /\ stack' = Pop /\ stack' = <<>>
               /\ Top = stack[1] /\ Top.uncork \in BOOLEAN
               /\ s \in Sockets /\ Freed(s, r) /\ Parsing
               /\ slot # Nil => slot = s /\ s \in upgraded
               /\ s \in upgraded => slot # Nil
               /\ fin \in BOOLEAN
               /\ io' = IF fin THEN Shutdown(r.io, s) ELSE r.io
               /\ slot' = Nil
               /\ UNCHANGED <<upgraded, shuttingDown, timedOut, timer, subscribed,
                              queued, needsUncork, accepted, refused, closeEvents>>
  <1>1. /\ stack # <<>> /\ Top.kind = "http" /\ stack' = Pop /\ slot' = Nil
        /\ UNCHANGED <<upgraded, shuttingDown, timedOut, timer, subscribed,
                       queued, needsUncork, accepted, refused, closeEvents>>
    BY DEF HttpReturn, Atop
  <1>2. Top \in Frames /\ Top.s \in Sockets /\ Top.uncork \in BOOLEAN
    BY <1>1, PopFacts DEF Frames
  <1>3. Len(stack) = 1 /\ Top = stack[1] /\ stack' = <<>>
    <2>1. Len(stack) \in Nat \ {0} /\ Len(stack) \in 1..Len(stack)
      BY <1>1, Facts
    <2>2. Len(stack) = 1
      BY <1>1, <2>1 DEF Inv, Stacked, Nested, Top
    <2> QED
      BY <1>1, <2>2, EmptySeq DEF Top, Pop
  <1>4. /\ Parsing /\ (slot # Nil => slot = Top.s)
        /\ Top.s \in upgraded => slot # Nil
    BY <1>1, <1>3 DEF Inv, Stacked, Slotted, Parsed, Parsing
  <1>5. slot # Nil => slot \in upgraded
    BY DEF Inv, Kept
  <1>6. (IF slot = Nil THEN Top.s ELSE slot) = Top.s
    BY <1>4
  <1> DEFINE s == Top.s
             r == Uncork(io, s, <<>>, room, FALSE)
             fin == slot # Nil /\ ~r.failed /\ s \in shuttingDown
  <1>7. Freed(s, r)
    BY <1>2, FreeSteps
  <1>8. io' = IF fin THEN Shutdown(r.io, s) ELSE r.io
    BY <1>6 DEF HttpReturn
  <1> HIDE DEF r
  <1>9. fin \in BOOLEAN
    OBVIOUS
  <1> QED
    BY <1>1, <1>2, <1>3, <1>4, <1>5, <1>7, <1>8, <1>9 DEF r

LEMMA HttpReturnInv ==
    ASSUME Inv, NEW room \in Room, HttpReturn(room)
    PROVE  Inv'
  <1> DEFINE s == Top.s
             r == Uncork(io, s, <<>>, room, FALSE)
             fin == slot # Nil /\ ~r.failed /\ s \in shuttingDown
  <1>1. /\ stack # <<>> /\ Top.kind = "http" /\ stack' = Pop
        /\ s \in Sockets /\ Freed(s, r)
        /\ slot # Nil => s \in upgraded
        /\ fin \in BOOLEAN /\ io' = IF fin THEN Shutdown(r.io, s) ELSE r.io
        /\ slot' = Nil
        /\ UNCHANGED <<upgraded, shuttingDown, timedOut, timer, subscribed,
                       queued, needsUncork, accepted, refused, closeEvents>>
    BY HttpReturnFacts
  <1> HIDE DEF r
  <1>2. fin => s \in upgraded
    BY <1>1
  <1> HIDE DEF fin
  <1>3. /\ Aside(io, io', s) /\ io'.closed = io.closed
        /\ io'.corked = r.io.corked
        /\ s \notin io.closed => Stream(io', s) = Stream(io, s)
        /\ io'.fin = IF fin /\ s \notin io.closed THEN io.fin \cup {s} ELSE io.fin
    BY <1>1, FinSteps
  <1>4. s \in io'.fin => s \in upgraded
    BY <1>2, <1>3, Facts
  <1>5. r.io.corked \in {io.corked, Nil} /\ r.io.corked # s
    BY <1>1 DEF Freed
  <1>6. needsUncork' \in BOOLEAN
    BY <1>1 DEF Inv, Kept
  <1> QED
    BY <1>1, <1>3, <1>4, <1>5, <1>6, FreeInv DEF s

(* The data handler of a WebSocket.                                        *)
LEMMA DataReturnFacts ==
    ASSUME Inv, NEW room \in Room, DataReturn(room)
    PROVE  LET s == Top.s
               r == Uncork(io, s, <<>>, room, FALSE)
               fin == TotalLength(r.io, s) = 0 /\ s \in shuttingDown
           IN  /\ stack # <<>> /\ Top.kind = "data" /\ stack' = Pop /\ stack' = <<>>
               /\ s \in Sockets /\ Freed(s, r) /\ (fin => s \in upgraded)
               /\ fin \in BOOLEAN
               /\ fin <=> r.io.raw[s] = <<>> /\ s \in shuttingDown
               /\ io' = IF fin THEN Shutdown(r.io, s) ELSE r.io
               /\ UNCHANGED <<upgraded, slot, shuttingDown, timedOut, timer,
                              subscribed, queued, needsUncork, accepted, refused,
                              closeEvents>>
  <1> DEFINE s == Top.s
             r == Uncork(io, s, <<>>, room, FALSE)
             fin == TotalLength(r.io, s) = 0 /\ s \in shuttingDown
  <1>1. /\ stack # <<>> /\ Top.kind = "data" /\ stack' = Pop
        /\ io' = IF fin THEN Shutdown(r.io, s) ELSE r.io
        /\ UNCHANGED <<upgraded, slot, shuttingDown, timedOut, timer,
                       subscribed, queued, needsUncork, accepted, refused,
                       closeEvents>>
    BY DEF DataReturn, Atop
  <1>2. s \in Sockets
    BY <1>1, PopFacts
  <1>3. stack' = <<>>
    <2>1. Len(stack) \in Nat \ {0} /\ Len(stack) \in 1..Len(stack)
      BY <1>1, Facts
    <2>2. Len(stack) = 1
      BY <1>1, <2>1 DEF Inv, Stacked, Nested, Top
    <2> QED
      BY <1>1, <2>2, EmptySeq DEF Pop
  <1>4. Freed(s, r)
    BY <1>2, FreeSteps
  <1> HIDE DEF r, s
  <1>5. fin <=> r.io.raw[s] = <<>> /\ s \in shuttingDown
    BY <1>4, EmptySeq DEF TotalLength, Freed
  <1>6. (fin => s \in upgraded) /\ fin \in BOOLEAN
    BY DEF Inv, Kept
  <1> HIDE DEF fin
  <1> QED
    BY <1>1, <1>2, <1>3, <1>4, <1>5, <1>6 DEF fin, r, s

LEMMA DataReturnInv ==
    ASSUME Inv, NEW room \in Room, DataReturn(room)
    PROVE  Inv'
  <1> DEFINE s == Top.s
             r == Uncork(io, s, <<>>, room, FALSE)
             fin == TotalLength(r.io, s) = 0 /\ s \in shuttingDown
  <1>1. /\ stack # <<>> /\ Top.kind = "data" /\ stack' = Pop
        /\ s \in Sockets /\ Freed(s, r) /\ (fin => s \in upgraded)
        /\ fin \in BOOLEAN /\ io' = IF fin THEN Shutdown(r.io, s) ELSE r.io
        /\ UNCHANGED <<upgraded, slot, shuttingDown, timedOut, timer, subscribed,
                       queued, needsUncork, accepted, refused, closeEvents>>
    BY DataReturnFacts
  <1> HIDE DEF r, fin
  <1>2. /\ Aside(io, io', s) /\ io'.closed = io.closed
        /\ io'.corked = r.io.corked
        /\ s \notin io.closed => Stream(io', s) = Stream(io, s)
        /\ io'.fin = IF fin /\ s \notin io.closed THEN io.fin \cup {s} ELSE io.fin
    BY <1>1, FinSteps
  <1>3. s \in io'.fin => s \in upgraded
    BY <1>1, <1>2, Facts
  <1>4. r.io.corked \in {io.corked, Nil} /\ r.io.corked # s
    BY <1>1 DEF Freed
  <1>5. needsUncork' \in BOOLEAN
    BY <1>1 DEF Inv, Kept
  <1> QED
    BY <1>1, <1>2, <1>3, <1>4, <1>5, FreeInv DEF s

(* Whatever returns.                                                       *)
LEMMA ReturnInv ==
    ASSUME Inv, Return
    PROVE  Inv'
  <1>1. PICK room \in Room :
            \/ SendRest(room) \/ EndRest(room)
            \/ DrainMessage(room) \/ DrainEnd(room) \/ DroppedReturn(room)
            \/ CorkEnd(room) \/ HttpReturn(room) \/ DataReturn(room)
    BY DEF Return
  <1> QED
    BY <1>1, SendRestInv, EndRestInv, DrainMessageInv, DrainEndInv, CorkEndInv,
       HttpReturnInv, DataReturnInv

(* The writable handler.                                                   *)
LEMMA WritableFacts ==
    ASSUME Inv, NEW s \in Sockets, NEW room \in Room, OnWritable(s, room)
    PROVE  LET r == Write(io, s, <<>>, room, FALSE)
               fin == s \in shuttingDown /\ r.io.raw[s] = <<>>
           IN  /\ stack = <<>> /\ s \in upgraded \ (io.closed \cup io.fin)
               /\ Aside(io, io', s) /\ io'.closed = io.closed
               /\ io'.corked = io.corked /\ io'.raw = r.io.raw
               /\ Stream(io', s) = Stream(io, s)
               /\ io'.fin = IF fin THEN io.fin \cup {s} ELSE io.fin
               /\ timer' \in [Sockets -> {"first", "rearmed", "second"}]
               /\ timedOut' \subseteq timedOut
               /\ UNCHANGED <<upgraded, slot, shuttingDown, subscribed, queued,
                              needsUncork, stack, accepted, refused, closeEvents>>
  <1> DEFINE r == Write(io, s, <<>>, room, FALSE)
             q == Shutdown(r.io, s)
             fin == s \in shuttingDown /\ r.io.raw[s] = <<>>
             full == s \in shuttingDown /\ TotalLength(r.io, s) = 0
  <1>1. /\ stack = <<>> /\ s \in upgraded \ (io.closed \cup io.fin)
        /\ io' = IF full THEN q ELSE r.io
        /\ UNCHANGED <<upgraded, slot, shuttingDown, subscribed, queued,
                       needsUncork, stack, accepted, refused, closeEvents>>
    BY DEF OnWritable
  <1>2. /\ timer' \in [Sockets -> {"first", "rearmed", "second"}]
        /\ timedOut' \subseteq timedOut
    BY DEF OnWritable, Inv, Kept
  <1>3. /\ Aside(io, r.io, s) /\ r.io.corked = io.corked
        /\ r.io.fin = io.fin /\ r.io.closed = io.closed
        /\ r.io.raw[s] \in Seq(Nat)
        /\ s \notin io.closed => Stream(r.io, s) = Stream(io, s)
    BY DrainSteps
  <1> HIDE DEF r
  <1>4. full <=> fin
    BY <1>3, EmptySeq DEF TotalLength
  <1>5. Finned(io, r.io, s, q)
    BY <1>3, ShutdownKeeps
  <1> HIDE DEF q, fin, full
  <1>6. /\ Aside(io, io', s) /\ io'.closed = io.closed
        /\ io'.corked = io.corked /\ io'.raw = r.io.raw
        /\ Stream(io', s) = Stream(io, s)
        /\ io'.fin = IF fin THEN io.fin \cup {s} ELSE io.fin
    BY <1>1, <1>3, <1>4, <1>5 DEF Finned
  <1> QED
    BY <1>1, <1>2, <1>6 DEF r, fin

LEMMA OnWritableInv ==
    ASSUME Inv, NEW s \in Sockets, NEW room \in Room, OnWritable(s, room)
    PROVE  Inv'
  <1>1. /\ stack = <<>> /\ s \in upgraded \ (io.closed \cup io.fin)
        /\ Aside(io, io', s) /\ io'.closed = io.closed /\ io'.corked = io.corked
        /\ Stream(io', s) = Stream(io, s)
        /\ timer' \in [Sockets -> {"first", "rearmed", "second"}]
        /\ timedOut' \subseteq timedOut
        /\ UNCHANGED <<upgraded, slot, shuttingDown, subscribed, queued,
                       needsUncork, stack, accepted, refused, closeEvents>>
    BY WritableFacts
  <1>2. Bytes'
    BY <1>1, Still
  <1>3. Kept'
    BY <1>1 DEF Inv, Kept
  <1>4. Stacked' /\ \A t : Ending(t)' <=> Ending(t)
    BY <1>1, LoopCalls, SlotStays, StackStays
  <1>5. CloseOnce'
    BY <1>1, <1>4, CloseStays
  <1> QED
    BY <1>2, <1>3, <1>4, <1>5 DEF Inv

(* A ping.                                                                 *)
LEMMA PingFacts ==
    ASSUME Inv, NEW s \in Sockets, NEW room \in Room, OnTimeoutPing(s, room)
    PROVE  /\ stack = <<>> /\ s \in upgraded \ io.closed /\ s \notin shuttingDown
           /\ Aside(io, io', s) /\ io'.closed = io.closed
           /\ io'.corked = io.corked /\ io'.fin = io.fin
           /\ Stream(io', s) = Counted(accepted[s] + 1)
           /\ timedOut' = timedOut \cup {s}
           /\ timer' = [timer EXCEPT ![s] = "second"]
           /\ accepted' = [accepted EXCEPT ![s] = @ + 1]
           /\ UNCHANGED <<upgraded, slot, shuttingDown, subscribed, queued,
                          needsUncork, stack, refused, closeEvents>>
  <1>1. /\ stack = <<>> /\ s \in upgraded \ io.closed /\ s \notin shuttingDown
        /\ io' = Write(io, s, Frame(s, 1), room, FALSE).io
        /\ timedOut' = timedOut \cup {s}
        /\ timer' = [timer EXCEPT ![s] = "second"]
        /\ accepted' = [accepted EXCEPT ![s] = @ + 1]
        /\ UNCHANGED <<upgraded, slot, shuttingDown, subscribed, queued,
                       needsUncork, stack, refused, closeEvents>>
    BY DEF OnTimeoutPing, Pings
  <1>2. s \in Sockets \ io.closed /\ (io.corked = s => io.cork = <<>>)
    BY <1>1, Facts, SocketAssumption
  <1> QED
    BY <1>1, <1>2, ByteSteps

LEMMA OnTimeoutPingInv ==
    ASSUME Inv, NEW s \in Sockets, NEW room \in Room, OnTimeoutPing(s, room)
    PROVE  Inv'
  <1>1. /\ stack = <<>> /\ s \in upgraded \ io.closed
        /\ Aside(io, io', s) /\ io'.closed = io.closed
        /\ io'.corked = io.corked /\ io'.fin = io.fin
        /\ Stream(io', s) = Counted(accepted[s] + 1)
        /\ timedOut' = timedOut \cup {s}
        /\ timer' = [timer EXCEPT ![s] = "second"]
        /\ accepted' = [accepted EXCEPT ![s] = @ + 1]
        /\ UNCHANGED <<upgraded, slot, shuttingDown, subscribed, queued,
                       needsUncork, stack, refused, closeEvents>>
    BY PingFacts
  <1>2. Bytes'
    <2>1. /\ accepted' \in [Sockets -> Nat] /\ accepted'[s] = accepted[s] + 1
          /\ \A t \in Sockets \ {s} : accepted'[t] = accepted[t]
      BY <1>1, Facts
    <2> QED
      BY <1>1, <2>1, Apart
  <1>3. Kept'
    BY <1>1 DEF Inv, Kept
  <1>4. Stacked' /\ \A t : Ending(t)' <=> Ending(t)
    BY <1>1, LoopCalls, SlotStays, StackStays
  <1>5. CloseOnce'
    BY <1>1, <1>4, CloseStays
  <1> QED
    BY <1>2, <1>3, <1>4, <1>5 DEF Inv

LEMMA InitInv ==
    ASSUME Init
    PROVE  Inv
  <1>1. <<>> \in Seq(Nat) /\ <<>> \in Seq(Frames) /\ Len(<<>>) = 0
    BY EmptySeq
  <1>2. 0 <= 0 \div EraseDivisor
    BY CorkAssumption, DivNat
  <1>3. IOType(io, Nat)
    BY <1>1 DEF Init, InitIO, IOType
  <1>4. IOInv(io, Nat)
    BY <1>1, <1>2, <1>3, CorkAssumption, SocketAssumption
       DEF Init, InitIO, IOInv, IOSafe, Exact, CorkOwned
  <1>5. Bytes
    <2>1. ASSUME NEW s \in Sockets PROVE Stream(io, s) = <<>>
      <3>1. Data(io, s) = <<>> /\ io.sent[s] = <<>> /\ io.corked # s
        <4>1. IOType(io, Nat) /\ Exact(io, s) /\ io.raw[s] = <<>> /\ io.sent[s] = <<>>
          BY <1>4 DEF IOInv, IOSafe, Init, InitIO
        <4> QED
          BY <4>1, LengthExact, SocketAssumption DEF Init, InitIO
      <3> QED
        BY <1>1, <3>1, ConcatEmptySeq DEF Stream, Pending, IsCorked
    <2>2. Counted(0) = <<>>
      BY EmptySeq DEF Counted
    <2>3. accepted = [s \in Sockets |-> 0]
      BY DEF Init
    <2>4. \A s \in Sockets : Stream(io, s) = Counted(accepted[s])
      BY <2>1, <2>2, <2>3
    <2>5. upgraded = {} /\ io.fin = {} /\ io.closed = {}
      BY DEF Init, InitIO
    <2> QED
      BY <1>4, <2>3, <2>4, <2>5 DEF Bytes
  <1>6. Kept
    BY DEF Init, Kept
  <1>7. Stacked
    BY <1>1 DEF Init, InitIO, Stacked, Nested, Owned, Slotted, Parsing
  <1>8. CloseOnce
    <2>1. /\ closeEvents = [s \in Sockets |-> 0] /\ shuttingDown = {}
          /\ io.closed = {}
      BY DEF Init, InitIO
    <2> QED
      BY <2>1 DEF CloseOnce
  <1> QED
    BY <1>5, <1>6, <1>7, <1>8 DEF Inv

(* Every step keeps the invariant.                                         *)
LEMMA NextInv ==
    ASSUME Careful, Inv, [Next]_vars
    PROVE  Inv'
  <1>1. CASE UNCHANGED vars
    <2>1. Bytes'
      BY <1>1 DEF vars, Inv, Bytes, Stream, Pending, Data, IsCorked
    <2>2. Kept'
      BY <1>1 DEF vars, Inv, Kept
    <2>3. Stacked'
      <3>1. (\A i \in 1..Len(stack) : Fine(stack[i]))'
        BY <1>1 DEF vars, Inv, Stacked, Fine
      <3> QED
        BY <1>1, <3>1 DEF vars, Inv, Stacked, Slotted, Parsed, Parsing
    <2>4. CloseOnce'
      BY <1>1 DEF vars, Inv, CloseOnce, Ending
    <2> QED
      BY <2>1, <2>2, <2>3, <2>4 DEF Inv
  <1>2. CASE Next
    <2>1. CASE Return
      BY <2>1, ReturnInv
    <2>2. CASE \E s \in Sockets, n \in Sizes, room \in Room, special \in BOOLEAN :
                 Send(s, n, room, special)
      BY <2>2, SendInv
    <2>3. CASE \E s \in Sockets, n \in Sizes : SendDrains(s, n)
      BY <2>3, SendDrainsInv
    <2>4. CASE \E s \in Sockets : Subscribe(s) \/ Publish(s)
      BY <2>4, SubscribeInv
    <2>5. CASE \E s \in Sockets : Drain(s)
      BY <2>5, DrainInv
    <2>6. CASE \E s \in Sockets, room \in Room : End(s, room)
      BY <2>6, EndInv
    <2>7. CASE \E s \in Sockets : EndDrains(s)
      BY <2>7, EndDrainsInv
    <2>8. CASE \E s \in Sockets : Close(s)
      BY <2>8, CloseInv DEF Close, Live
    <2>9. CASE \E s \in Sockets : CorkBegin(s)
      BY <2>9, CorkBeginInv
    <2>10. CASE \E s \in Sockets : OnHttpData(s)
      BY <2>10, OnHttpDataInv
    <2>11. CASE \E s \in Sockets, room \in Room : Upgrade(s, room)
      BY <2>11, UpgradeInv
    <2>12. CASE \E s \in Sockets : OnData(s)
      BY <2>12, OnDataInv
    <2>13. CASE \E s \in Sockets, room \in Room : OnWritable(s, room)
      BY <2>13, OnWritableInv
    <2>14. CASE \E s \in Sockets : OnEnd(s)
      BY <2>14, LoopCalls, CloseInv DEF OnEnd
    <2>15. CASE \E s \in Sockets, room \in Room : OnTimeoutPing(s, room)
      BY <2>15, OnTimeoutPingInv
    <2>16. CASE \E s \in Sockets : OnTimeoutClose(s)
      BY <2>16, LoopCalls, CloseInv DEF OnTimeoutClose
    <2> QED
      BY <1>2, <2>1, <2>2, <2>3, <2>4, <2>5, <2>6, <2>7, <2>8, <2>9, <2>10,
         <2>11, <2>12, <2>13, <2>14, <2>15, <2>16 DEF Next
  <1> QED
    BY <1>1, <1>2

-----------------------------------------------------------------------------
(* What follows for the behaviours.                                        *)

THEOREM Invariant ==
    ASSUME Careful
    PROVE  Spec => []Inv
  BY InitInv, NextInv, PTL DEF Spec

(* Type correctness, of the record and of what the handlers keep.          *)
THEOREM TypeCorrect ==
    ASSUME Careful
    PROVE  Spec => []TypeOK
  <1>1. Inv => TypeOK
    <2> SUFFICES ASSUME Inv PROVE TypeOK
      OBVIOUS
    <2>1. \A i \in 1..Len(stack) : stack[i].s \in Sockets /\ stack[i].left \in Nat
      BY Facts DEF Frames
    <2> QED
      BY <2>1 DEF Inv, Bytes, Kept, IOInv, IOSafe, IOType, TypeOK
  <1> QED
    BY <1>1, Invariant, PTL

(* The bytes of an open socket are exactly those accepted, in order,       *)
(* wherever they are: with the kernel, in the backpressure buffer (whose   *)
(* first part may be sent already) or in the cork buffer; whatever drains  *)
(* of published messages come between.                                     *)
THEOREM StreamKept ==
    ASSUME Careful
    PROVE  Spec => []StreamIntact
  <1>1. Inv => StreamIntact
    <2> SUFFICES ASSUME Inv, NEW s \in upgraded \ io.closed
                 PROVE  Stream(io, s) = Counted(accepted[s])
      BY DEF StreamIntact, Stream, Pending
    <2> QED
      BY Facts
  <1> QED
    BY <1>1, Invariant, PTL

(* The two lengths of the backpressure buffer are zero together, and never *)
(* more than its 1/32 is pending removal.                                  *)
THEOREM BackpressureKept ==
    ASSUME Careful
    PROVE  Spec => []BackpressureExact
  <1>1. Inv => BackpressureExact
    <2> SUFFICES ASSUME Inv, NEW s \in Sockets
                 PROVE  /\ TotalLength(io, s) = 0 <=> Length(io, s) = 0
                        /\ io.removed[s] <= TotalLength(io, s) \div EraseDivisor
      BY DEF BackpressureExact
    <2>1. IOType(io, Nat) /\ Exact(io, s) /\ io.raw[s] \in Seq(Nat)
      BY Facts, Components DEF IOInv, IOSafe
    <2>2. Length(io, s) = 0 <=> io.raw[s] = <<>>
      BY <2>1, LengthExact
    <2>3. Len(io.raw[s]) = 0 <=> io.raw[s] = <<>>
      BY <2>1, EmptySeq
    <2> QED
      BY <2>1, <2>2, <2>3 DEF TotalLength, Exact
  <1> QED
    BY <1>1, Invariant, PTL

(* No handler, block or drain keeps the cork buffer beyond its return, and *)
(* data in it has an owner.                                                *)
THEOREM CorkAlwaysReleased ==
    ASSUME Careful
    PROVE  Spec => []CorkReleased
  <1>1. Inv => CorkReleased
    <2> SUFFICES ASSUME Inv PROVE CorkReleased
      OBVIOUS
    <2>1. stack = <<>> => io.corked = Nil
      BY Facts
    <2>2. io.corked = Nil => io.cork = <<>>
      BY Facts DEF IOInv, CorkOwned
    <2> QED
      BY <2>1, <2>2 DEF CorkReleased, CanCork, CorkAllowed
  <1> QED
    BY <1>1, Invariant, PTL

(* One close event per WebSocket, from end() or from the close.            *)
THEOREM ClosedOnce ==
    ASSUME Careful
    PROVE  Spec => []CloseOnce
  <1>1. Inv => CloseOnce
    BY DEF Inv
  <1> QED
    BY <1>1, Invariant, PTL

-----------------------------------------------------------------------------
(* FIN comes last, except that end() takes a refused close frame for one   *)
(* that was sent.  It needs that the socket that is parsed still has the   *)
(* cork when its data handler returns, because that takes an uncork() that *)
(* had nothing to do for one that sent everything: with the careful, those *)
(* who make no long send on that socket and publish nothing to it.         *)

CarefulParsing == Careful /\ "long" \notin Usage /\ "publish" \notin Usage

FinLast ==
    \A s \in io.fin \ (io.closed \cup refused) :
        s \in shuttingDown /\ io.raw[s] = <<>> /\ io.corked # s

(* Nothing is drained to, and nothing ends, a socket after its FIN.        *)
DrainsOpen ==
    \A i \in 1..Len(stack) :
        stack[i].kind \in Drains \cup Waits => stack[i].s \notin io.fin

OpenCorked ==
    Parsing =>
        /\ io.corked = stack[1].s
        /\ queued[stack[1].s] = 0
        /\ \A i \in 2..Len(stack) :
            /\ ~stack[i].uncork
            /\ stack[i].kind \in Drains => stack[i].s # stack[1].s

FinInv ==
    /\ MaxBackpressure = 0 => refused = {}
    /\ \A s \in Sockets \ upgraded : queued[s] = 0
    /\ FinLast
    /\ DrainsOpen
    /\ OpenCorked

(* Nothing but end() sends FIN.                                            *)
LEMMA NotFin ==
    ASSUME Inv, FinInv, NEW s \in Sockets \ (io.closed \cup shuttingDown)
    PROVE  s \notin io.fin
  BY DEF Inv, Kept, FinInv, FinLast

(* What a step about one socket leaves to show.                            *)
LEMMA FinKeeps ==
    ASSUME Inv, FinInv, NEW s \in Sockets, Aside(io, io', s),
           upgraded \subseteq upgraded', shuttingDown \subseteq shuttingDown',
           refused \subseteq refused', MaxBackpressure = 0 => refused' = refused,
           s \in io'.fin \ (io'.closed \cup refused') =>
               s \in shuttingDown' /\ io'.raw[s] = <<>> /\ io'.corked # s,
           \A t \in Sockets \ upgraded' : queued'[t] \in {queued[t], 0},
           DrainsOpen', OpenCorked'
    PROVE  FinInv'
  <1>1. FinLast'
    <2> SUFFICES ASSUME NEW t \in io'.fin \ (io'.closed \cup refused')
                 PROVE  t \in shuttingDown' /\ io'.raw[t] = <<>> /\ io'.corked # t
      BY DEF FinLast
    <2>1. CASE t = s
      BY <2>1
    <2>2. CASE t # s
      <3>1. t \in io.fin \ (io.closed \cup refused) /\ t \in Sockets \ {s}
        BY <2>2, Facts DEF Aside
      <3> QED
        BY <3>1 DEF Aside, FinInv, FinLast
    <2> QED
      BY <2>1, <2>2
  <1>2. MaxBackpressure = 0 => refused' = {}
    BY DEF FinInv
  <1>3. \A t \in Sockets \ upgraded' : queued'[t] = 0
    BY DEF FinInv
  <1> QED
    BY <1>1, <1>2, <1>3 DEF FinInv

(* The socket that is parsed keeps the cork.                               *)
LEMMA OpenKeeps ==
    ASSUME Inv, FinInv, Parsing' => Parsing /\ stack'[1] = stack[1],
           \A i \in 2..Len(stack') :
               \/ /\ i \in 2..Len(stack)
                  /\ stack'[i].uncork = stack[i].uncork /\ stack'[i].s = stack[i].s
                  /\ stack'[i].kind \in Drains => stack[i].kind \in Drains
               \/ Parsing => /\ ~stack'[i].uncork
                             /\ stack'[i].kind \in Drains => stack'[i].s # stack[1].s,
           Parsing => io'.corked = io.corked /\ queued'[stack[1].s] = 0
    PROVE  OpenCorked'
  BY DEF FinInv, OpenCorked

(* A call of the application.                                              *)
LEMMA FinCall ==
    ASSUME Inv, FinInv, OnlyCalls, UNCHANGED stack, NEW s \in Sockets,
           Aside(io, io', s),
           upgraded \subseteq upgraded', shuttingDown \subseteq shuttingDown',
           refused \subseteq refused', MaxBackpressure = 0 => refused' = refused,
           s \in io'.fin \ (io'.closed \cup refused') =>
               s \in shuttingDown' /\ io'.raw[s] = <<>> /\ io'.corked # s,
           \A t \in Sockets \ upgraded' : queued'[t] \in {queued[t], 0},
           Parsed(s) => io'.corked = io.corked,
           Parsing => queued'[stack[1].s] \in {queued[stack[1].s], 0}
    PROVE  FinInv'
  <1>1. DrainsOpen'
    BY DEF OnlyCalls, DrainsOpen, Calls, Drains, Waits
  <1>2. OpenCorked'
    <2>1. Parsing => io'.corked = io.corked
      <3> SUFFICES ASSUME Parsing, ~Parsed(s) PROVE io'.corked = io.corked
        OBVIOUS
      <3>1. 1 \in 1..Len(stack)
        BY Facts DEF Parsing
      <3>2. stack[1].s \in Sockets \ {s}
        BY <3>1, Facts DEF Frames, Parsed
      <3>3. io.corked = stack[1].s
        BY DEF FinInv, OpenCorked
      <3> QED
        BY <3>2, <3>3 DEF Aside
    <2>2. Parsing => queued'[stack[1].s] = 0
      BY DEF FinInv, OpenCorked
    <2>3. Parsing' <=> Parsing
      BY DEF Parsing
    <2> QED
      BY <2>1, <2>2, <2>3, OpenKeeps
  <1> QED
    BY <1>1, <1>2, FinKeeps

LEMMA SendFin ==
    ASSUME CarefulParsing, Inv, FinInv, NEW s \in Sockets, NEW n \in Sizes,
           NEW room \in Room, NEW special \in BOOLEAN, Send(s, n, room, special)
    PROVE  FinInv'
  <1> DEFINE r == SendResult(s, Frame(s, n), room, special)
  <1>1. /\ n \in Nat /\ s \in Sockets \ io.closed /\ s \notin shuttingDown
        /\ Handling
    BY ConfigAssumption DEF Send, Live
  <1>2. Sending(s, n, r) /\ (~special => r.io.corked = io.corked)
    BY <1>1, SendSteps
  <1>3. /\ io' = r.io /\ (special => ~Parsed(s))
        /\ UNCHANGED <<upgraded, shuttingDown, queued, stack, refused>>
    BY DEF Send, CarefulParsing
  <1> HIDE DEF r
  <1>4. s \notin io'.fin
    BY <1>1, <1>2, <1>3, NotFin DEF Sending
  <1>5. OnlyCalls
    BY <1>1, CallsOnly DEF CarefulParsing
  <1>6. Parsed(s) => io'.corked = io.corked
    BY <1>2, <1>3
  <1> QED
    BY <1>2, <1>3, <1>4, <1>5, <1>6, FinCall DEF Sending

LEMMA PublishFin ==
    ASSUME CarefulParsing, Inv, FinInv, NEW s \in Sockets, Subscribe(s) \/ Publish(s)
    PROVE  FinInv'
  <1>1. /\ Handling /\ s \in upgraded /\ s \notin shuttingDown \cup io.closed
        /\ UNCHANGED <<io, upgraded, shuttingDown, stack, refused>>
        /\ \/ queued' = queued
           \/ queued' = [queued EXCEPT ![s] = @ + 1] /\ ~Parsed(s)
    BY DEF Subscribe, Publish, Live, CarefulParsing
  <1>2. OnlyCalls /\ Aside(io, io', s) /\ s \notin io'.fin
    BY <1>1, CallsOnly, Facts, NotFin DEF CarefulParsing
  <1>3. \A t \in Sockets : t # s => queued'[t] = queued[t]
    BY <1>1 DEF Inv, Kept
  <1>4. Parsing => stack[1].s \in Sockets
    <2> SUFFICES ASSUME Parsing PROVE stack[1].s \in Sockets
      OBVIOUS
    <2>1. 1 \in 1..Len(stack)
      BY Facts DEF Parsing
    <2> QED
      BY <2>1, Facts DEF Frames
  <1>5. Parsing => queued'[stack[1].s] = queued[stack[1].s]
    BY <1>1, <1>3, <1>4 DEF Parsed
  <1> QED
    BY <1>1, <1>2, <1>3, <1>5, FinCall

(* end() sends FIN when nothing is left of the bytes, or its close frame   *)
(* was refused.                                                            *)
LEMMA EndedFin ==
    ASSUME Inv, FinInv, NEW s \in Sockets \ io.closed, NEW r, Sending(s, 1, r),
           Ended(s, r), s \notin io.fin
    PROVE  /\ refused \subseteq refused' /\ (MaxBackpressure = 0 => refused' = refused)
           /\ s \in io'.fin \ (io'.closed \cup refused') =>
                  io'.raw[s] = <<>> /\ io'.corked # s
  <1>1. r.status = "DROPPED" => MaxBackpressure > 0
    BY DEF Sending
  <1>2. refused \subseteq refused' /\ (MaxBackpressure = 0 => refused' = refused)
    BY <1>1, ConfigAssumption DEF Ended
  <1>3. ASSUME s \in io'.fin \ (io'.closed \cup refused')
        PROVE  io'.raw[s] = <<>> /\ io'.corked # s
    <2>1. r.io.corked # s /\ r.status # "BACKPRESSURE" /\ r.status # "DROPPED"
      BY <1>3 DEF Ended
    <2>2. r.status = "SUCCESS"
      BY <2>1 DEF Sending
    <2>3. r.io.raw[s] = <<>>
      BY <2>1, <2>2 DEF Sending
    <2> QED
      BY <2>1, <2>3 DEF Ended
  <1> QED
    BY <1>2, <1>3

LEMMA EndFin ==
    ASSUME Careful, Inv, FinInv, NEW s \in Sockets, NEW room \in Room, End(s, room)
    PROVE  FinInv'
  <1> DEFINE r == SendResult(s, Frame(s, 1), room, FALSE)
  <1>1. s \in Sockets \ io.closed /\ Handling /\ s \notin shuttingDown
    BY DEF End, MayEnd, Live
  <1>2. Sending(s, 1, r) /\ r.io.corked = io.corked
    BY <1>1, SendSteps
  <1>3. /\ shuttingDown' = shuttingDown \cup {s} /\ EndSent(s, r)
        /\ UNCHANGED <<upgraded, stack>>
    BY DEF End
  <1> HIDE DEF r
  <1>4. Ended(s, r)
    BY <1>1, <1>2, <1>3, EndSteps
  <1>5. s \notin io.fin /\ OnlyCalls
    BY <1>1, NotFin, CallsOnly
  <1>6. /\ refused \subseteq refused' /\ (MaxBackpressure = 0 => refused' = refused)
        /\ s \in io'.fin \ (io'.closed \cup refused') =>
               io'.raw[s] = <<>> /\ io'.corked # s
    BY <1>1, <1>2, <1>4, <1>5, EndedFin
  <1>7. Aside(io, io', s) /\ io'.corked = io.corked
    BY <1>2, <1>4 DEF Ended
  <1>8. queued \in [Sockets -> Nat] /\ queued' = [queued EXCEPT ![s] = 0]
    BY <1>4 DEF Inv, Kept, Ended
  <1>9. /\ \A t \in Sockets \ upgraded' : queued'[t] \in {queued[t], 0}
        /\ Parsing => queued'[stack[1].s] \in {queued[stack[1].s], 0}
    BY <1>8
  <1> QED
    BY <1>3, <1>5, <1>6, <1>7, <1>9, FinCall

LEMMA CloseFin ==
    ASSUME Inv, FinInv, OnlyCalls, NEW s \in upgraded, CloseSocket(s),
           UNCHANGED <<upgraded, shuttingDown, stack, refused>>
    PROVE  FinInv'
  <1>1. s \in Sockets
    BY Facts
  <1>2. /\ Aside(io, io', s) /\ io'.closed = io.closed \cup {s}
        /\ io'.corked = io.corked /\ queued' = [queued EXCEPT ![s] = 0]
    BY CloseSteps
  <1>3. queued \in [Sockets -> Nat]
    BY DEF Inv, Kept
  <1>4. /\ \A t \in Sockets \ upgraded' : queued'[t] \in {queued[t], 0}
        /\ Parsing => queued'[stack[1].s] \in {queued[stack[1].s], 0}
    BY <1>2, <1>3
  <1> QED
    BY <1>1, <1>2, <1>4, FinCall

LEMMA UpgradeFin ==
    ASSUME Careful, Inv, FinInv, NEW s \in Sockets, NEW room \in Room,
           Upgrade(s, room)
    PROVE  FinInv'
  <1>1. /\ Handling /\ s \in Sockets \ upgraded
        /\ upgraded' = upgraded \cup {s}
        /\ io' = Write(io, s, Frame(s, 1), room, FALSE).io
        /\ UNCHANGED <<shuttingDown, queued, stack, refused>>
    BY DEF Upgrade
  <1>2. s \in Sockets \ io.closed /\ (io.corked = s => io.cork = <<>>)
    BY <1>1, EmptyStream
  <1>3. Aside(io, io', s) /\ io'.corked = io.corked /\ io'.fin = io.fin
    BY <1>1, <1>2, ByteSteps
  <1>4. s \notin io'.fin /\ OnlyCalls
    BY <1>1, <1>3, Facts, CallsOnly
  <1> QED
    BY <1>1, <1>3, <1>4, FinCall

LEMMA PingFin ==
    ASSUME Inv, FinInv, NEW s \in Sockets, NEW room \in Room,
           OnTimeoutPing(s, room)
    PROVE  FinInv'
  <1>1. /\ stack = <<>> /\ s \in upgraded \ io.closed /\ s \notin shuttingDown
        /\ Aside(io, io', s) /\ io'.corked = io.corked /\ io'.fin = io.fin
        /\ UNCHANGED <<upgraded, shuttingDown, queued, stack, refused>>
    BY PingFacts
  <1>2. OnlyCalls /\ s \notin io'.fin
    BY <1>1, LoopCalls, NotFin
  <1> QED
    BY <1>1, <1>2, FinCall

LEMMA WritableFin ==
    ASSUME Inv, FinInv, NEW s \in Sockets, NEW room \in Room, OnWritable(s, room)
    PROVE  FinInv'
  <1> DEFINE r == Write(io, s, <<>>, room, FALSE)
             fin == s \in shuttingDown /\ r.io.raw[s] = <<>>
  <1>1. /\ stack = <<>> /\ s \in upgraded \ (io.closed \cup io.fin)
        /\ Aside(io, io', s)
        /\ io'.corked = io.corked /\ io'.raw = r.io.raw
        /\ io'.fin = IF fin THEN io.fin \cup {s} ELSE io.fin
        /\ UNCHANGED <<upgraded, shuttingDown, queued, stack, refused>>
    BY WritableFacts
  <1> HIDE DEF r
  <1>2. OnlyCalls /\ io'.corked # s
    BY <1>1, LoopCalls, Facts, SocketAssumption
  <1>3. s \in io'.fin => s \in shuttingDown' /\ io'.raw[s] = <<>> /\ io'.corked # s
    BY <1>1, <1>2
  <1> HIDE DEF fin
  <1> QED
    BY <1>1, <1>2, <1>3, FinCall

(* A handler or a block begins.                                            *)
LEMMA BeginFin ==
    ASSUME Inv, FinInv, OnlyCalls, NEW s \in Sockets, NEW f \in Frames,
           stack' = Append(stack, f), f.kind \in Calls,
           f.uncork => io.corked = Nil, f.kind # "http",
           Aside(io, io', s), io'.fin = io.fin, s \notin io.fin,
           io'.corked = IF io.corked = Nil THEN s ELSE io.corked,
           UNCHANGED <<upgraded, shuttingDown, queued, refused>>
    PROVE  FinInv'
  <1> DEFINE n == Len(stack)
  <1>1. /\ n \in Nat /\ Len(stack') = n + 1
        /\ \A i \in 1..n : stack'[i] = stack[i] /\ stack[i].kind \in Calls
        /\ stack'[n + 1] = f /\ (stack = <<>> <=> n = 0)
    BY Facts, Pushed DEF OnlyCalls
  <1>2. DrainsOpen'
    <2> SUFFICES ASSUME NEW i \in 1..(n + 1)
                 PROVE  stack'[i].kind \in Calls
      BY <1>1 DEF DrainsOpen, Calls, Drains, Waits
    <2>1. CASE i \in 1..n
      BY <1>1, <2>1
    <2>2. CASE i \notin 1..n
      BY <1>1, <2>2
    <2> QED
      BY <2>1, <2>2
  <1>3. OpenCorked'
    <2>1. Parsing' => Parsing /\ stack'[1] = stack[1]
      BY <1>1 DEF Parsing
    <2>2. Parsing => io.corked # Nil /\ queued[stack[1].s] = 0
      <3> SUFFICES ASSUME Parsing PROVE io.corked # Nil /\ queued[stack[1].s] = 0
        OBVIOUS
      <3>1. 1 \in 1..Len(stack)
        BY Facts DEF Parsing
      <3>2. stack[1].s \in Sockets
        BY <3>1, Facts DEF Frames
      <3> QED
        BY <3>2, SocketAssumption DEF FinInv, OpenCorked
    <2>3. ASSUME NEW i \in 2..Len(stack')
          PROVE  \/ /\ i \in 2..Len(stack)
                    /\ stack'[i].uncork = stack[i].uncork /\ stack'[i].s = stack[i].s
                    /\ stack'[i].kind \in Drains => stack[i].kind \in Drains
                 \/ Parsing => /\ ~stack'[i].uncork
                               /\ stack'[i].kind \in Drains => stack'[i].s # stack[1].s
      <3>1. CASE i = n + 1
        BY <1>1, <2>2, <3>1 DEF Calls, Drains
      <3>2. CASE i # n + 1
        <4>1. i \in 2..n /\ i \in 1..n
          BY <1>1, <3>2
        <4> QED
          BY <1>1, <4>1
      <3> QED
        BY <3>1, <3>2
    <2> QED
      BY <2>1, <2>2, <2>3, OpenKeeps
  <1> QED
    BY <1>2, <1>3, FinKeeps

LEMMA CorkBeginFin ==
    ASSUME Careful, Inv, FinInv, NEW s \in Sockets, CorkBegin(s)
    PROVE  FinInv'
  <1> DEFINE f == On(IF s \in upgraded THEN "block" ELSE "response", s,
                     CanCork(io), 0)
  <1>1. /\ f \in Frames /\ f.kind \in Calls /\ f.kind # "http"
        /\ f.uncork => io.corked = Nil
    BY DEF On, Frames, Calls, CanCork
  <1>2. /\ Handling /\ stack' = Append(stack, f)
        /\ s \notin io.closed \cup shuttingDown
    BY Facts DEF CorkBegin, Live, Inv, Kept
  <1>3. OnlyCalls /\ s \notin io.fin
    BY <1>2, CallsOnly, NotFin
  <1> HIDE DEF f
  <1>4. /\ Aside(io, io', s) /\ io'.fin = io.fin
        /\ io'.corked = IF io.corked = Nil THEN s ELSE io.corked
    BY CorkKeeps DEF CorkBegin
  <1> QED
    BY <1>1, <1>2, <1>3, <1>4, BeginFin DEF CorkBegin

LEMMA OnDataFin ==
    ASSUME Inv, FinInv, NEW s \in Sockets, OnData(s)
    PROVE  FinInv'
  <1> DEFINE f == On("data", s, TRUE, 0)
  <1>1. f \in Frames /\ f.kind = "data"
    BY DEF On, Frames, Calls
  <1>2. /\ stack = <<>> /\ Append(stack, f) = <<f>> /\ s \notin io.closed \cup shuttingDown
        /\ stack' = <<f>> /\ io' = Cork(io, s)
    BY DEF OnData, Live
  <1>3. io.corked = Nil /\ OnlyCalls /\ s \notin io.fin
    BY <1>2, Facts, LoopCalls, NotFin
  <1> HIDE DEF f
  <1>4. /\ Aside(io, io', s) /\ io'.fin = io.fin /\ io'.corked = s
    BY <1>2, <1>3, CorkKeeps DEF CanCork
  <1> QED
    BY <1>1, <1>2, <1>3, <1>4, BeginFin DEF OnData, Calls

LEMMA OnHttpDataFin ==
    ASSUME Inv, FinInv, NEW s \in Sockets, OnHttpData(s)
    PROVE  FinInv'
  <1> DEFINE f == On("http", s, TRUE, 0)
  <1>1. f.kind = "http" /\ f.s = s /\ Len(<<f>>) = 1 /\ <<f>>[1] = f
    BY DEF On
  <1>2. /\ stack = <<>> /\ s \notin upgraded
        /\ stack' = <<f>> /\ io' = Cork(io, s)
        /\ UNCHANGED <<upgraded, shuttingDown, queued, refused>>
    BY DEF OnHttpData
  <1>3. io.corked = Nil
    BY <1>2, Facts
  <1> HIDE DEF f
  <1>4. /\ Aside(io, io', s) /\ io'.fin = io.fin /\ io'.corked = s
    BY <1>2, <1>3, CorkKeeps DEF CanCork
  <1>5. DrainsOpen' /\ OpenCorked'
    <2>1. queued[s] = 0
      BY <1>2 DEF FinInv
    <2>2. Len(stack') = 1 /\ stack'[1] = f
      BY <1>1, <1>2
    <2>3. DrainsOpen'
      BY <1>1, <2>2 DEF DrainsOpen, Drains, Waits
    <2>4. OpenCorked'
      BY <1>1, <1>2, <1>4, <2>1, <2>2 DEF OpenCorked
    <2> QED
      BY <2>3, <2>4
  <1>6. s \notin io'.fin
    BY <1>2, <1>4, Facts
  <1> QED
    BY <1>2, <1>4, <1>5, <1>6, FinKeeps

(* A drain begins, with what waits for it or without.                      *)
LEMMA DrainsFin ==
    ASSUME Inv, FinInv, OnlyCalls, NEW s \in Sockets \ (io.closed \cup shuttingDown),
           queued[s] > 0, NEW m \in Nat,
           NEW f, f.kind = "drain", f.s = s, f.uncork = (io.corked = Nil),
           Len(stack') = Len(stack) + m + 1,
           \A i \in 1..Len(stack) : stack'[i] = stack[i],
           \A i \in (Len(stack) + 1)..(Len(stack) + m) :
               stack'[i].kind \in Waits /\ stack'[i].s = s /\ ~stack'[i].uncork,
           stack'[Len(stack) + m + 1] = f,
           Aside(io, io', s), io'.fin = io.fin,
           io'.corked = IF io.corked = Nil THEN s ELSE io.corked,
           queued' = [queued EXCEPT ![s] = 0],
           shuttingDown \subseteq shuttingDown', UNCHANGED <<upgraded, refused>>
    PROVE  FinInv'
  <1> DEFINE n == Len(stack)
  <1>1. n \in Nat /\ (stack = <<>> <=> n = 0) /\ s \notin io.fin
    BY Facts, NotFin
  <1>2. \A i \in 1..(n + m + 1) :
            \/ i \in 1..n
            \/ i \in (n + 1)..(n + m)
            \/ i = n + m + 1
    BY <1>1
  <1>3. DrainsOpen'
    <2> SUFFICES ASSUME NEW i \in 1..(n + m + 1)
                 PROVE  stack'[i].kind \in Calls \/ stack'[i].s \notin io'.fin
      BY DEF DrainsOpen, Calls, Drains, Waits
    <2>1. CASE i \in 1..n
      BY <2>1 DEF OnlyCalls
    <2>2. CASE i \in (n + 1)..(n + m)
      BY <1>1, <2>2
    <2>3. CASE i = n + m + 1
      BY <1>1, <2>3
    <2> QED
      BY <1>2, <2>1, <2>2, <2>3
  <1>4. Parsing => /\ io.corked = stack[1].s /\ stack[1].s # Nil
                   /\ queued[stack[1].s] = 0 /\ stack[1].s # s
                   /\ stack[1].s \in Sockets
    <2> SUFFICES ASSUME Parsing
                 PROVE  /\ io.corked = stack[1].s /\ stack[1].s # Nil
                        /\ queued[stack[1].s] = 0 /\ stack[1].s # s
                        /\ stack[1].s \in Sockets
      OBVIOUS
    <2>1. 1 \in 1..Len(stack)
      BY Facts DEF Parsing
    <2>2. stack[1].s \in Sockets
      BY <2>1, Facts DEF Frames
    <2>3. io.corked = stack[1].s /\ queued[stack[1].s] = 0
      BY DEF FinInv, OpenCorked
    <2>4. stack[1].s # s
      BY <2>3
    <2> QED
      BY <2>2, <2>3, <2>4, SocketAssumption
  <1>5. OpenCorked'
    <2>1. Parsing' => Parsing /\ stack'[1] = stack[1]
      <3>1. CASE n = 0
        <4>1. stack'[1].kind # "http"
          <5>1. CASE m = 0
            BY <1>1, <3>1, <5>1
          <5>2. CASE m # 0
            BY <1>1, <3>1, <5>2 DEF Waits
          <5> QED
            BY <5>1, <5>2
        <4> QED
          BY <4>1 DEF Parsing
      <3>2. CASE n # 0
        <4>1. stack'[1] = stack[1] /\ stack # <<>>
          BY <1>1, <3>2
        <4> QED
          BY <4>1 DEF Parsing
      <3> QED
        BY <3>1, <3>2
    <2>2. ASSUME NEW i \in 2..Len(stack')
          PROVE  \/ /\ i \in 2..Len(stack)
                    /\ stack'[i].uncork = stack[i].uncork /\ stack'[i].s = stack[i].s
                    /\ stack'[i].kind \in Drains => stack[i].kind \in Drains
                 \/ Parsing => /\ ~stack'[i].uncork
                               /\ stack'[i].kind \in Drains => stack'[i].s # stack[1].s
      <3>1. i \in 1..(n + m + 1)
        BY <1>1
      <3>2. CASE i \in 1..n
        BY <1>1, <3>2
      <3>3. CASE i \in (n + 1)..(n + m)
        BY <3>3 DEF Waits, Drains
      <3>4. CASE i = n + m + 1
        BY <1>4, <3>4
      <3> QED
        BY <1>2, <3>1, <3>2, <3>3, <3>4
    <2>3. Parsing => io'.corked = io.corked /\ queued'[stack[1].s] = 0
      BY <1>4 DEF Inv, Kept
    <2> QED
      BY <2>1, <2>2, <2>3, OpenKeeps
  <1>6. \A t \in Sockets \ upgraded' : queued'[t] \in {queued[t], 0}
    BY DEF Inv, Kept
  <1> QED
    BY <1>1, <1>3, <1>5, <1>6, FinKeeps

(* The frames that a drain adds.                                           *)
LEMMA DrainFrames ==
    ASSUME Inv, NEW s \in upgraded \ io.closed, NEW below, DrainBegins(s, below),
           UNCHANGED <<upgraded, accepted>>
    PROVE  LET f == On("drain", s, io.corked = Nil, queued[s])
           IN  /\ f.kind = "drain" /\ f.s = s /\ f.uncork = (io.corked = Nil)
               /\ Aside(io, io', s) /\ io'.fin = io.fin /\ io'.raw = io.raw
               /\ io'.closed = io.closed
               /\ io'.corked = IF io.corked = Nil THEN s ELSE io.corked
               /\ queued' = [queued EXCEPT ![s] = 0]
               /\ below = <<>> =>
                      /\ Len(stack') = Len(stack) + 0 + 1
                      /\ \A i \in 1..Len(stack) : stack'[i] = stack[i]
                      /\ stack'[Len(stack) + 0 + 1] = f
               /\ \A e \in Frames : below = <<e>> =>
                      /\ Len(stack') = Len(stack) + 1 + 1
                      /\ \A i \in 1..Len(stack) : stack'[i] = stack[i]
                      /\ stack'[Len(stack) + 1] = e
                      /\ stack'[Len(stack) + 1 + 1] = f
  <1> DEFINE f == On("drain", s, io.corked = Nil, queued[s])
             n == Len(stack)
  <1>1. /\ f \in Frames
        /\ f.kind = "drain" /\ f.s = s /\ f.uncork = (io.corked = Nil)
        /\ io'.closed = io.closed /\ io'.fin = io.fin /\ io'.raw = io.raw
        /\ io'.corked = IF io.corked = Nil THEN s ELSE io.corked
        /\ queued' = [queued EXCEPT ![s] = 0]
        /\ below = <<>> => stack' = Append(stack, f)
        /\ \A e \in Frames : below = <<e>> =>
                 stack' = Append(Append(stack, e), f)
    BY DrainStarts
  <1>2. Aside(io, io', s)
    BY Facts, CorkKeeps DEF DrainBegins
  <1>3. n \in Nat /\ stack \in Seq(Frames)
    BY Facts
  <1> HIDE DEF f
  <1>4. ASSUME below = <<>>
        PROVE  /\ Len(stack') = n + 0 + 1
               /\ \A i \in 1..n : stack'[i] = stack[i]
               /\ stack'[n + 0 + 1] = f
    BY <1>1, <1>3, <1>4, Pushed
  <1>5. ASSUME NEW e \in Frames, below = <<e>>
        PROVE  /\ Len(stack') = n + 1 + 1
               /\ \A i \in 1..n : stack'[i] = stack[i]
               /\ stack'[n + 1] = e
               /\ stack'[n + 1 + 1] = f
    <2> DEFINE q == Append(stack, e)
    <2>1. /\ q \in Seq(Frames) /\ Len(q) = n + 1
          /\ \A i \in 1..n : q[i] = stack[i]
          /\ q[n + 1] = e
      BY <1>3, Pushed
    <2>2. stack' = Append(q, f)
      BY <1>1, <1>5
    <2> HIDE DEF q
    <2>3. /\ Len(stack') = (n + 1) + 1
          /\ \A i \in 1..(n + 1) : stack'[i] = q[i]
          /\ stack'[(n + 1) + 1] = f
      BY <1>1, <2>1, <2>2, Pushed
    <2>4. \A i \in 1..n : i \in 1..(n + 1)
      BY <1>3
    <2>5. n + 1 \in 1..(n + 1)
      BY <1>3
    <2> QED
      BY <2>1, <2>3, <2>4, <2>5
  <1> QED
    BY <1>1, <1>2, <1>4, <1>5 DEF f

LEMMA SendDrainsFin ==
    ASSUME Careful, Inv, FinInv, NEW s \in Sockets, NEW n \in Sizes,
           SendDrains(s, n)
    PROVE  FinInv'
  <1> DEFINE e == On("send", s, FALSE, n)
             f == On("drain", s, io.corked = Nil, queued[s])
  <1>1. /\ s \in upgraded \ io.closed /\ s \notin shuttingDown /\ n \in Nat
        /\ Handling /\ queued[s] > 0 /\ DrainBegins(s, <<e>>)
        /\ UNCHANGED <<upgraded, accepted, shuttingDown, refused>>
    BY ConfigAssumption DEF SendDrains, Live, DrainsFirst
  <1>2. /\ e \in Frames /\ e.kind \in Waits /\ e.s = s /\ ~e.uncork
    BY <1>1 DEF On, Frames, Waits
  <1> HIDE DEF e
  <1>3. /\ f.kind = "drain" /\ f.s = s /\ f.uncork = (io.corked = Nil)
        /\ Aside(io, io', s) /\ io'.fin = io.fin
        /\ io'.corked = IF io.corked = Nil THEN s ELSE io.corked
        /\ queued' = [queued EXCEPT ![s] = 0]
        /\ Len(stack') = Len(stack) + 1 + 1
        /\ \A i \in 1..Len(stack) : stack'[i] = stack[i]
        /\ stack'[Len(stack) + 1] = e
        /\ stack'[Len(stack) + 1 + 1] = f
    BY <1>1, <1>2, DrainFrames
  <1> HIDE DEF f
  <1>4. OnlyCalls /\ Len(stack) \in Nat /\ 1 \in Nat
    BY <1>1, CallsOnly, Facts
  <1>5. \A i \in (Len(stack) + 1)..(Len(stack) + 1) :
            stack'[i].kind \in Waits /\ stack'[i].s = s /\ ~stack'[i].uncork
    <2>1. \A i \in (Len(stack) + 1)..(Len(stack) + 1) : i = Len(stack) + 1
      BY <1>4
    <2> QED
      BY <1>2, <1>3, <2>1
  <1> QED
    BY <1>1, <1>3, <1>4, <1>5, DrainsFin

LEMMA EndDrainsFin ==
    ASSUME Careful, Inv, FinInv, NEW s \in Sockets, EndDrains(s)
    PROVE  FinInv'
  <1> DEFINE e == On("end", s, FALSE, 1)
             f == On("drain", s, io.corked = Nil, queued[s])
  <1>1. /\ s \in upgraded \ io.closed /\ s \notin shuttingDown
        /\ Handling /\ queued[s] > 0 /\ DrainBegins(s, <<e>>)
        /\ shuttingDown' = shuttingDown \cup {s}
        /\ UNCHANGED <<upgraded, accepted, refused>>
    BY DEF EndDrains, MayEnd, Live, DrainsFirst
  <1>2. /\ e \in Frames /\ e.kind \in Waits /\ e.s = s /\ ~e.uncork
    BY <1>1 DEF On, Frames, Waits
  <1> HIDE DEF e
  <1>3. /\ f.kind = "drain" /\ f.s = s /\ f.uncork = (io.corked = Nil)
        /\ Aside(io, io', s) /\ io'.fin = io.fin
        /\ io'.corked = IF io.corked = Nil THEN s ELSE io.corked
        /\ queued' = [queued EXCEPT ![s] = 0]
        /\ Len(stack') = Len(stack) + 1 + 1
        /\ \A i \in 1..Len(stack) : stack'[i] = stack[i]
        /\ stack'[Len(stack) + 1] = e
        /\ stack'[Len(stack) + 1 + 1] = f
    BY <1>1, <1>2, DrainFrames
  <1> HIDE DEF f
  <1>4. OnlyCalls /\ Len(stack) \in Nat /\ 1 \in Nat
    BY <1>1, CallsOnly, Facts
  <1>5. \A i \in (Len(stack) + 1)..(Len(stack) + 1) :
            stack'[i].kind \in Waits /\ stack'[i].s = s /\ ~stack'[i].uncork
    <2>1. \A i \in (Len(stack) + 1)..(Len(stack) + 1) : i = Len(stack) + 1
      BY <1>4
    <2> QED
      BY <1>2, <1>3, <2>1
  <1> QED
    BY <1>1, <1>3, <1>4, <1>5, DrainsFin

LEMMA DrainFin ==
    ASSUME Careful, Inv, FinInv, NEW s \in Sockets, Drain(s)
    PROVE  FinInv'
  <1> DEFINE f == On("drain", s, io.corked = Nil, queued[s])
  <1>1. /\ s \in upgraded \ io.closed /\ s \notin shuttingDown
        /\ Handling /\ queued[s] > 0 /\ DrainBegins(s, <<>>)
        /\ UNCHANGED <<upgraded, accepted, shuttingDown, refused>>
    BY DEF Drain, Live
  <1>2. /\ f.kind = "drain" /\ f.s = s /\ f.uncork = (io.corked = Nil)
        /\ Aside(io, io', s) /\ io'.fin = io.fin
        /\ io'.corked = IF io.corked = Nil THEN s ELSE io.corked
        /\ queued' = [queued EXCEPT ![s] = 0]
        /\ Len(stack') = Len(stack) + 0 + 1
        /\ \A i \in 1..Len(stack) : stack'[i] = stack[i]
        /\ stack'[Len(stack) + 0 + 1] = f
    BY <1>1, DrainFrames
  <1> HIDE DEF f
  <1>3. OnlyCalls /\ Len(stack) \in Nat /\ 0 \in Nat
    BY <1>1, CallsOnly, Facts
  <1>4. \A i \in (Len(stack) + 1)..(Len(stack) + 0) :
            stack'[i].kind \in Waits /\ stack'[i].s = s /\ ~stack'[i].uncork
    BY <1>3
  <1> QED
    BY <1>1, <1>2, <1>3, <1>4, DrainsFin

(* A drain goes on.                                                        *)
LEMMA DrainMessageFin ==
    ASSUME Inv, FinInv, NEW room \in Room, DrainMessage(room)
    PROVE  FinInv'
  <1> DEFINE s == Top.s
             r == SendResult(s, Frame(s, 1), room, FALSE)
             f == IF r.status = "DROPPED" THEN [Top EXCEPT !.kind = "dropped"]
                  ELSE [Top EXCEPT !.left = @ - 1]
             n == Len(stack) - 1
  <1>1. /\ stack # <<>> /\ Top.kind = "drain" /\ Top.left > 0
        /\ io' = r.io /\ stack' = Append(Pop, f)
        /\ UNCHANGED <<upgraded, shuttingDown, queued, refused>>
    BY DEF DrainMessage, Atop
  <1>2. /\ Top \in Frames /\ s \in Sockets /\ Fine(Top)
        /\ n \in Nat /\ Len(stack) = n + 1
        /\ Pop \in Seq(Frames) /\ Len(Pop) = n
        /\ \A i \in 1..n : Pop[i] = stack[i]
        /\ Top = stack[n + 1]
    BY <1>1, PopFacts, Facts DEF Inv, Stacked, Top
  <1>3. s \in Sockets \ io.closed
    BY <1>1, <1>2 DEF Fine, Drains
  <1>4. f \in Frames /\ f.kind \in Drains /\ f.s = s /\ f.uncork = Top.uncork
    <2> DEFINE k == [Top EXCEPT !.kind = "dropped"]
               l == [Top EXCEPT !.left = @ - 1]
    <2>1. k \in Frames /\ k.kind \in Drains /\ k.s = Top.s /\ k.uncork = Top.uncork
      BY <1>2 DEF Frames, Drains
    <2>2. l \in Frames /\ l.kind \in Drains /\ l.s = Top.s /\ l.uncork = Top.uncork
      <3>1. Top \in Frames /\ Top.kind = "drain" /\ Top.left > 0
        BY <1>1, <1>2
      <3> QED
        BY <3>1 DEF Frames, Drains
    <2>3. f = k \/ f = l
      OBVIOUS
    <2> HIDE DEF f, k, l
    <2> QED
      BY <2>1, <2>2, <2>3
  <1>5. Sending(s, 1, r) /\ r.io.corked = io.corked
    BY <1>3, SendSteps
  <1> HIDE DEF f, r, n
  <1>6. /\ Aside(io, io', s) /\ io'.fin = io.fin /\ io'.corked = io.corked
    BY <1>1, <1>5 DEF Sending
  <1>7. /\ Len(stack') = n + 1
        /\ \A i \in 1..n : stack'[i] = stack[i]
        /\ stack'[n + 1] = f
    BY <1>1, <1>2, <1>4, Pushed
  <1>8. Top.kind \in Drains /\ n + 1 \in 1..(n + 1)
    BY <1>1, <1>2 DEF Drains
  <1>9. s \notin io.fin
    BY <1>2, <1>8 DEF FinInv, DrainsOpen
  <1>10. \A i \in 1..(n + 1) :
            /\ stack'[i].s = stack[i].s /\ stack'[i].uncork = stack[i].uncork
            /\ stack'[i].kind \in Drains \cup Waits => stack[i].kind \in Drains \cup Waits
            /\ stack'[i].kind \in Drains => stack[i].kind \in Drains
            /\ stack'[i].kind = "http" => stack'[i] = stack[i]
    <2> SUFFICES ASSUME NEW i \in 1..(n + 1)
                 PROVE  /\ stack'[i].s = stack[i].s
                        /\ stack'[i].uncork = stack[i].uncork
                        /\ stack'[i].kind \in Drains \cup Waits
                              => stack[i].kind \in Drains \cup Waits
                        /\ stack'[i].kind \in Drains => stack[i].kind \in Drains
                        /\ stack'[i].kind = "http" => stack'[i] = stack[i]
      OBVIOUS
    <2>1. CASE i \in 1..n
      BY <1>7, <2>1
    <2>2. CASE i = n + 1
      BY <1>2, <1>4, <1>7, <1>8, <2>2 DEF Drains
    <2> QED
      BY <1>2, <2>1, <2>2
  <1>11. DrainsOpen'
    BY <1>2, <1>6, <1>7, <1>10 DEF FinInv, DrainsOpen
  <1>12. OpenCorked'
    <2>1. 1 \in 1..(n + 1)
      BY <1>2
    <2>2. Parsing' => Parsing /\ stack'[1] = stack[1]
      BY <1>1, <1>10, <2>1 DEF Parsing
    <2>3. \A i \in 2..Len(stack') : i \in 2..Len(stack) /\ i \in 1..(n + 1)
      BY <1>2, <1>7
    <2>4. Parsing => io'.corked = io.corked /\ queued'[stack[1].s] = 0
      BY <1>1, <1>6 DEF FinInv, OpenCorked
    <2> QED
      BY <1>10, <2>2, <2>3, <2>4, OpenKeeps
  <1> QED
    BY <1>1, <1>2, <1>6, <1>9, <1>11, <1>12, FinKeeps

(* A handler, a block, a drain or what waited for one returns.             *)
LEMMA PopFin ==
    ASSUME Inv, FinInv, stack # <<>>, stack' = Pop, NEW s \in Sockets,
           Aside(io, io', s),
           UNCHANGED <<upgraded, shuttingDown>>,
           refused \subseteq refused', MaxBackpressure = 0 => refused' = refused,
           s \in io'.fin \ (io'.closed \cup refused') =>
               s \in shuttingDown' /\ io'.raw[s] = <<>> /\ io'.corked # s,
           io'.fin = io.fin \/ Top.kind \notin Drains,
           queued' \in {queued, [queued EXCEPT ![s] = 0]},
           Parsing /\ Top.kind # "http" =>
               s # stack[1].s \/ io'.corked = io.corked
    PROVE  FinInv'
  <1> DEFINE n == Len(stack) - 1
  <1>1. /\ n \in Nat /\ Len(stack) = n + 1
        /\ Len(stack') = n
        /\ \A i \in 1..n : stack'[i] = stack[i]
        /\ Top = stack[n + 1]
    BY PopFacts
  <1> HIDE DEF n
  <1>2. DrainsOpen'
    <2> SUFFICES ASSUME NEW i \in 1..n, stack[i].kind \in Drains \cup Waits
                 PROVE  stack[i].s \notin io'.fin
      BY <1>1 DEF DrainsOpen
    <2>1. i \in 1..Len(stack) /\ i < Len(stack)
      BY <1>1
    <2>2. i + 1 = Len(stack) /\ stack[i + 1].kind \in Drains
      <3>1. \/ stack[i].kind \in Calls
            \/ /\ stack[i].kind \in Waits /\ i + 1 = Len(stack)
               /\ stack[i + 1].kind \in Drains
        BY <2>1 DEF Inv, Stacked, Nested
      <3>2. stack[i].kind \notin Calls
        BY DEF Calls, Drains, Waits
      <3> QED
        BY <3>1, <3>2
    <2>3. Top.kind \in Drains
      BY <2>2 DEF Top
    <2> QED
      BY <2>1, <2>3 DEF FinInv, DrainsOpen
  <1>3. OpenCorked'
    <2>1. Parsing' => n > 0
      BY <1>1, EmptySeq DEF Parsing
    <2>2. Parsing' => Parsing /\ stack'[1] = stack[1]
      BY <1>1, <2>1 DEF Parsing
    <2>3. ASSUME n > 0, Parsing
          PROVE  io'.corked = io.corked /\ queued'[stack[1].s] = 0
      <3>1. Top.kind # "http"
        BY <1>1, <2>3 DEF Inv, Stacked, Nested
      <3>2. 1 \in 1..Len(stack)
        BY <1>1
      <3>3. stack[1].s \in Sockets
        BY <3>2, Facts DEF Frames
      <3>4. io.corked = stack[1].s /\ queued[stack[1].s] = 0
        BY <2>3 DEF FinInv, OpenCorked
      <3>5. io'.corked = io.corked
        <4>1. CASE s = stack[1].s
          BY <2>3, <3>1, <4>1
        <4>2. CASE s # stack[1].s
          BY <3>3, <3>4, <4>2 DEF Aside
        <4> QED
          BY <4>1, <4>2
      <3> QED
        BY <3>3, <3>4, <3>5 DEF Inv, Kept
    <2>4. \A i \in 2..Len(stack') : i \in 2..Len(stack) /\ stack'[i] = stack[i]
      BY <1>1
    <2>5. CASE n > 0
      BY <2>2, <2>3, <2>4, <2>5, OpenKeeps
    <2>6. CASE ~(n > 0)
      BY <2>1, <2>6 DEF OpenCorked
    <2> QED
      BY <2>5, <2>6
  <1>4. \A t \in Sockets \ upgraded' : queued'[t] \in {queued[t], 0}
    BY DEF Inv, Kept
  <1> QED
    BY <1>2, <1>3, <1>4, FinKeeps

LEMMA SendRestFin ==
    ASSUME Inv, FinInv, NEW room \in Room, SendRest(room)
    PROVE  FinInv'
  <1> DEFINE s == Top.s
             r == BufferedSend(io, s, Frame(s, Top.left), room)
  <1>1. /\ stack # <<>> /\ Top.kind = "send" /\ io' = r.io /\ stack' = Pop
        /\ UNCHANGED <<upgraded, shuttingDown, queued, refused>>
    BY DEF SendRest, Atop
  <1>2. /\ Top \in Frames /\ s \in Sockets /\ Fine(Top) /\ Top.left \in Nat
        /\ s \notin io.fin
    <2>1. Len(stack) \in 1..Len(stack) /\ Top = stack[Len(stack)]
      BY <1>1, Facts DEF Top
    <2> QED
      BY <1>1, <2>1, Facts DEF Inv, Stacked, Frames, FinInv, DrainsOpen, Waits
  <1>3. s \in Sockets \ io.closed
    BY <1>1, <1>2 DEF Fine, Waits
  <1>4. Sending(s, Top.left, r) /\ r.io.corked = io.corked
    BY <1>2, <1>3, RestSteps
  <1> HIDE DEF r, s
  <1>5. Aside(io, io', s) /\ io'.fin = io.fin /\ io'.corked = io.corked
    BY <1>1, <1>4 DEF Sending
  <1> QED
    BY <1>1, <1>2, <1>5, PopFin

LEMMA EndRestFin ==
    ASSUME Inv, FinInv, NEW room \in Room, EndRest(room)
    PROVE  FinInv'
  <1> DEFINE s == Top.s
             r == BufferedSend(io, s, Frame(s, 1), room)
  <1>1. /\ stack # <<>> /\ Top.kind = "end" /\ EndSent(s, r) /\ stack' = Pop
        /\ UNCHANGED <<upgraded, shuttingDown>>
    BY DEF EndRest, Atop
  <1>2. /\ Top \in Frames /\ s \in Sockets /\ Fine(Top) /\ s \notin io.fin
    <2>1. Len(stack) \in 1..Len(stack) /\ Top = stack[Len(stack)]
      BY <1>1, Facts DEF Top
    <2> QED
      BY <1>1, <2>1, Facts DEF Inv, Stacked, Frames, FinInv, DrainsOpen, Waits
  <1>3. s \in Sockets \ io.closed /\ s \in shuttingDown
    BY <1>1, <1>2 DEF Fine, Waits
  <1>4. Sending(s, 1, r) /\ r.io.corked = io.corked
    BY <1>3, RestSteps
  <1> HIDE DEF r, s
  <1>5. Ended(s, r)
    BY <1>1, <1>3, <1>4, EndSteps
  <1>6. /\ refused \subseteq refused' /\ (MaxBackpressure = 0 => refused' = refused)
        /\ s \in io'.fin \ (io'.closed \cup refused') =>
               io'.raw[s] = <<>> /\ io'.corked # s
    BY <1>2, <1>3, <1>4, <1>5, EndedFin
  <1>7. /\ Aside(io, io', s) /\ io'.corked = io.corked
        /\ queued' = [queued EXCEPT ![s] = 0] /\ Top.kind \notin Drains
    BY <1>1, <1>4, <1>5 DEF Ended, Drains
  <1> QED
    BY <1>1, <1>2, <1>3, <1>6, <1>7, PopFin

(* The cork a drain frees is not that of the socket that is parsed.        *)
LEMMA DrainEndFin ==
    ASSUME Inv, FinInv, NEW room \in Room, DrainEnd(room) \/ DroppedReturn(room)
    PROVE  FinInv'
  <1> DEFINE s == Top.s
             r == Uncork(io, s, <<>>, room, FALSE)
  <1>1. /\ stack # <<>> /\ Top.kind \in Drains /\ stack' = Pop
        /\ io' = IF needsUncork THEN r.io ELSE io
        /\ UNCHANGED <<upgraded, shuttingDown, queued, refused>>
    BY DEF DrainEnd, DroppedReturn, Atop, Drains
  <1>2. /\ Len(stack) \in 1..Len(stack) /\ Top = stack[Len(stack)]
        /\ s \in Sockets /\ Aside(io, io, s)
    BY <1>1, PopFacts, Facts DEF Top
  <1>3. s \notin io.fin
    BY <1>1, <1>2 DEF FinInv, DrainsOpen
  <1>4. Freed(s, r)
    BY <1>2, FreeSteps
  <1>5. Parsing => s # stack[1].s
    <2> SUFFICES ASSUME Parsing PROVE s # stack[1].s
      OBVIOUS
    <2>1. Len(stack) \in 2..Len(stack)
      <3>1. Len(stack) # 1
        BY <1>1, <1>2 DEF Parsing, Drains
      <3>2. Len(stack) \in Nat \ {0}
        BY <1>1, Facts
      <3> QED
        BY <3>1, <3>2
    <2> QED
      BY <1>1, <1>2, <2>1 DEF FinInv, OpenCorked
  <1> HIDE DEF r
  <1>6. Aside(io, io', s) /\ io'.fin = io.fin
    BY <1>1, <1>2, <1>4 DEF Freed
  <1> HIDE DEF s
  <1> QED
    BY <1>1, <1>2, <1>3, <1>5, <1>6, PopFin

(* Nor is the one a block frees.                                           *)
LEMMA CorkEndFin ==
    ASSUME Inv, FinInv, NEW room \in Room, CorkEnd(room)
    PROVE  FinInv'
  <1> DEFINE s == IF Top.kind = "response" THEN io.corked ELSE Top.s
             frees == Top.uncork /\ io.corked # Nil
             r == Uncork(io, s, <<>>, room, FALSE)
  <1>1. /\ stack # <<>> /\ Top.kind \in {"block", "response"} /\ stack' = Pop
        /\ io' = IF frees THEN r.io ELSE io
        /\ UNCHANGED <<upgraded, shuttingDown, queued, refused>>
    BY DEF CorkEnd, Atop, CanCork
  <1>2. /\ Top \in Frames /\ Top.s \in Sockets /\ io.corked \in Sockets \cup {Nil}
        /\ Len(stack) \in 1..Len(stack) /\ Top = stack[Len(stack)]
        /\ \A t \in Sockets : Aside(io, io, t)
    BY <1>1, PopFacts, Facts DEF Top
  <1>3. CASE frees
    <2>1. s \in Sockets
      BY <1>2, <1>3
    <2>2. Freed(s, r)
      BY <2>1, FreeSteps
    <2>3. ~Parsing
      <3> SUFFICES ASSUME Parsing PROVE FALSE
        OBVIOUS
      <3>1. Len(stack) \in 2..Len(stack)
        <4> DEFINE n == Len(stack)
        <4>1. n # 1
          BY <1>1, <1>2 DEF Parsing
        <4>2. n \in Nat \ {0}
          BY <1>1, Facts
        <4> HIDE DEF n
        <4>3. n \in 2..n
          BY <4>1, <4>2
        <4> QED
          BY <4>3 DEF n
      <3> QED
        BY <1>2, <1>3, <3>1 DEF FinInv, OpenCorked
    <2> HIDE DEF r, s
    <2>4. io' = r.io
      BY <1>1, <1>3
    <2>5. Aside(io, io', s) /\ io'.fin = io.fin /\ io'.closed = io.closed
          /\ io'.corked # s
      BY <2>2, <2>4 DEF Freed
    <2>6. s \in io'.fin \ (io'.closed \cup refused') =>
             s \in shuttingDown' /\ io'.raw[s] = <<>> /\ io'.corked # s
      <3> SUFFICES ASSUME s \in io.fin \ (io.closed \cup refused)
                   PROVE  s \in shuttingDown /\ io'.raw[s] = <<>>
        BY <1>1, <2>5
      <3>1. s \in shuttingDown /\ io.raw[s] = <<>> /\ io.corked # s
        BY DEF FinInv, FinLast
      <3>2. io' = io
        BY <2>2, <2>4, <3>1 DEF Freed
      <3> QED
        BY <3>1, <3>2
    <2> QED
      BY <1>1, <2>1, <2>3, <2>5, <2>6, PopFin
  <1>4. CASE ~frees
    <2>1. io' = io
      BY <1>1, <1>4
    <2>2. Top.s \in io'.fin \ (io'.closed \cup refused') =>
             Top.s \in shuttingDown' /\ io'.raw[Top.s] = <<>> /\ io'.corked # Top.s
      BY <1>1, <2>1 DEF FinInv, FinLast
    <2> QED
      BY <1>1, <1>2, <2>1, <2>2, PopFin
  <1> QED
    BY <1>3, <1>4

(* The uncork() of the socket that was parsed is one that sent everything, *)
(* unless it failed.                                                       *)
LEMMA HttpReturnFin ==
    ASSUME Inv, FinInv, NEW room \in Room, HttpReturn(room)
    PROVE  FinInv'
  <1> DEFINE s == Top.s
             r == Uncork(io, s, <<>>, room, FALSE)
             fin == slot # Nil /\ ~r.failed /\ s \in shuttingDown
  <1>1. /\ stack # <<>> /\ Top.kind = "http" /\ stack' = Pop
        /\ Top = stack[1] /\ Parsing
        /\ s \in Sockets /\ Freed(s, r)
        /\ fin \in BOOLEAN /\ io' = IF fin THEN Shutdown(r.io, s) ELSE r.io
        /\ UNCHANGED <<upgraded, shuttingDown, queued, refused>>
    BY HttpReturnFacts
  <1> HIDE DEF r, fin
  <1>2. /\ Aside(io, io', s) /\ io'.closed = io.closed
        /\ io'.corked = r.io.corked /\ io'.raw = r.io.raw
        /\ io'.fin = IF fin /\ s \notin io.closed THEN io.fin \cup {s} ELSE io.fin
    BY <1>1, FinSteps
  <1>3. io.corked = s
    BY <1>1 DEF FinInv, OpenCorked
  <1>4. s \in io'.fin \ (io'.closed \cup refused') =>
           s \in shuttingDown' /\ io'.raw[s] = <<>> /\ io'.corked # s
    <2> SUFFICES ASSUME s \in io'.fin \ (io.closed \cup refused)
                 PROVE  s \in shuttingDown /\ r.io.raw[s] = <<>> /\ r.io.corked # s
      BY <1>1, <1>2
    <2>1. s \notin io.fin
      BY <1>3 DEF FinInv, FinLast
    <2>2. fin
      BY <1>2, <2>1
    <2>3. ~r.failed /\ s \in shuttingDown
      BY <2>2 DEF fin
    <2> QED
      BY <1>1, <1>3, <2>3 DEF Freed
  <1> HIDE DEF s
  <1> QED
    BY <1>1, <1>2, <1>4, PopFin DEF Drains

LEMMA DataReturnFin ==
    ASSUME Inv, FinInv, NEW room \in Room, DataReturn(room)
    PROVE  FinInv'
  <1> DEFINE s == Top.s
             r == Uncork(io, s, <<>>, room, FALSE)
             fin == TotalLength(r.io, s) = 0 /\ s \in shuttingDown
  <1>1. /\ stack # <<>> /\ Top.kind = "data" /\ stack' = Pop /\ stack' = <<>>
        /\ s \in Sockets /\ Freed(s, r)
        /\ fin \in BOOLEAN /\ (fin <=> r.io.raw[s] = <<>> /\ s \in shuttingDown)
        /\ io' = IF fin THEN Shutdown(r.io, s) ELSE r.io
        /\ UNCHANGED <<upgraded, shuttingDown, queued, refused>>
    BY DataReturnFacts
  <1> HIDE DEF r, fin
  <1>2. /\ Aside(io, io', s) /\ io'.closed = io.closed
        /\ io'.corked = r.io.corked /\ io'.raw = r.io.raw
        /\ io'.fin = IF fin /\ s \notin io.closed THEN io.fin \cup {s} ELSE io.fin
    BY <1>1, FinSteps
  <1>3. s \in io'.fin \ (io'.closed \cup refused') =>
           s \in shuttingDown' /\ io'.raw[s] = <<>> /\ io'.corked # s
    <2> SUFFICES ASSUME s \in io'.fin \ (io.closed \cup refused)
                 PROVE  s \in shuttingDown /\ r.io.raw[s] = <<>> /\ r.io.corked # s
      BY <1>1, <1>2
    <2>1. CASE fin
      BY <1>1, <2>1 DEF Freed
    <2>2. CASE ~fin
      <3>1. s \in shuttingDown /\ io.raw[s] = <<>> /\ io.corked # s
        BY <1>2, <2>2 DEF FinInv, FinLast
      <3>2. r.io = io
        BY <1>1, <3>1 DEF Freed
      <3> QED
        BY <3>1, <3>2
    <2> QED
      BY <2>1, <2>2
  <1>4. ~Parsing
    <2>1. Top = stack[1]
      <3>1. Len(stack) \in Nat \ {0} /\ Len(stack) \in 1..Len(stack)
        BY <1>1, Facts
      <3> QED
        BY <1>1, <3>1 DEF Inv, Stacked, Nested, Top
    <2> QED
      BY <1>1, <2>1 DEF Parsing
  <1> HIDE DEF s
  <1> QED
    BY <1>1, <1>2, <1>3, <1>4, PopFin DEF Drains

LEMMA ReturnFin ==
    ASSUME Inv, FinInv, Return
    PROVE  FinInv'
  <1>1. PICK room \in Room :
            \/ SendRest(room) \/ EndRest(room)
            \/ DrainMessage(room) \/ DrainEnd(room) \/ DroppedReturn(room)
            \/ CorkEnd(room) \/ HttpReturn(room) \/ DataReturn(room)
    BY DEF Return
  <1> QED
    BY <1>1, SendRestFin, EndRestFin, DrainMessageFin, DrainEndFin, CorkEndFin,
       HttpReturnFin, DataReturnFin

LEMMA InitFin ==
    ASSUME Init
    PROVE  FinInv
  BY EmptySeq DEF Init, InitIO, FinInv, FinLast, DrainsOpen, OpenCorked, Parsing

(* Every step keeps the invariant of the FIN.                              *)
LEMMA NextFin ==
    ASSUME CarefulParsing, Inv, FinInv, [Next]_vars
    PROVE  FinInv'
  <1>1. CASE UNCHANGED vars
    BY <1>1 DEF vars, FinInv, FinLast, DrainsOpen, OpenCorked, Parsing
  <1>2. CASE Next
    <2> USE DEF CarefulParsing
    <2>1. CASE Return
      BY <2>1, ReturnFin
    <2>2. CASE \E s \in Sockets, n \in Sizes, room \in Room, special \in BOOLEAN :
                 Send(s, n, room, special)
      BY <2>2, SendFin
    <2>3. CASE \E s \in Sockets, n \in Sizes : SendDrains(s, n)
      BY <2>3, SendDrainsFin
    <2>4. CASE \E s \in Sockets : Subscribe(s) \/ Publish(s)
      BY <2>4, PublishFin
    <2>5. CASE \E s \in Sockets : Drain(s)
      BY <2>5, DrainFin
    <2>6. CASE \E s \in Sockets, room \in Room : End(s, room)
      BY <2>6, EndFin
    <2>7. CASE \E s \in Sockets : EndDrains(s)
      BY <2>7, EndDrainsFin
    <2>8. CASE \E s \in Sockets : Close(s)
      BY <2>8, CallsOnly, CloseFin DEF Close, Live
    <2>9. CASE \E s \in Sockets : CorkBegin(s)
      BY <2>9, CorkBeginFin
    <2>10. CASE \E s \in Sockets : OnHttpData(s)
      BY <2>10, OnHttpDataFin
    <2>11. CASE \E s \in Sockets, room \in Room : Upgrade(s, room)
      BY <2>11, UpgradeFin
    <2>12. CASE \E s \in Sockets : OnData(s)
      BY <2>12, OnDataFin
    <2>13. CASE \E s \in Sockets, room \in Room : OnWritable(s, room)
      BY <2>13, WritableFin
    <2>14. CASE \E s \in Sockets : OnEnd(s)
      BY <2>14, LoopCalls, CloseFin DEF OnEnd
    <2>15. CASE \E s \in Sockets, room \in Room : OnTimeoutPing(s, room)
      BY <2>15, PingFin
    <2>16. CASE \E s \in Sockets : OnTimeoutClose(s)
      BY <2>16, LoopCalls, CloseFin DEF OnTimeoutClose
    <2> QED
      BY <1>2, <2>1, <2>2, <2>3, <2>4, <2>5, <2>6, <2>7, <2>8, <2>9, <2>10,
         <2>11, <2>12, <2>13, <2>14, <2>15, <2>16 DEF Next
  <1> QED
    BY <1>1, <1>2

LEMMA FinHolds ==
    ASSUME CarefulParsing
    PROVE  Spec => [](Inv /\ FinInv)
  <1>1. Init => Inv /\ FinInv
    BY InitInv, InitFin
  <1>2. Inv /\ FinInv /\ [Next]_vars => (Inv /\ FinInv)'
    BY NextInv, NextFin DEF CarefulParsing
  <1> QED
    BY <1>1, <1>2, PTL DEF Spec

(* FinAfterEverything, but for the sockets whose close frame was refused.  *)
FinAfterAccepted ==
    \A s \in io.fin \ (io.closed \cup refused) : io.sent[s] = Counted(accepted[s])

LEMMA FinSent ==
    ASSUME Inv, FinInv
    PROVE  FinAfterAccepted
  <1> SUFFICES ASSUME NEW s \in io.fin \ (io.closed \cup refused)
               PROVE  io.sent[s] = Counted(accepted[s])
    BY DEF FinAfterAccepted
  <1>1. s \in Sockets \ io.closed /\ io.raw[s] = <<>> /\ io.corked # s
    BY Facts DEF FinInv, FinLast
  <1>2. /\ IOSafe(io, Nat) /\ IOType(io, Nat) /\ Exact(io, s)
        /\ io.sent[s] \in Seq(Nat)
    BY <1>1, Facts, Components DEF IOInv, IOSafe
  <1>3. Data(io, s) = <<>>
    BY <1>1, <1>2, LengthExact
  <1>4. Stream(io, s) = Pending(io, s)
    BY <1>1, <1>2, StreamEnds
  <1>5. io.sent[s] \o <<>> = io.sent[s]
    BY <1>2, ConcatEmptySeq
  <1>6. Stream(io, s) = Counted(accepted[s])
    BY <1>1, Facts
  <1> QED
    BY <1>3, <1>4, <1>5, <1>6 DEF Pending

(* A FIN comes after everything that was accepted: from end(), from the    *)
(* uncork of a data handler, from the writable handler.                    *)
THEOREM FinAfterAcceptedHolds ==
    ASSUME CarefulParsing
    PROVE  Spec => []FinAfterAccepted
  BY FinHolds, FinSent, PTL

(* Without a limit on the backpressure no close frame is refused.          *)
THEOREM FinIsLast ==
    ASSUME MaxBackpressure = 0, CarefulParsing
    PROVE  Spec => []FinAfterEverything
  <1>1. Inv /\ FinInv => FinAfterEverything
    BY FinSent DEF FinInv, FinAfterAccepted, FinAfterEverything
  <1> QED
    BY <1>1, FinHolds, PTL

-----------------------------------------------------------------------------
(* FIN is not forgotten, by applications that do not end a socket inside a *)
(* block that corked it: the end of a block sends what is corked but no    *)
(* FIN.                                                                    *)

CarefulEnd == Careful /\ "end" \notin Usage

FinDue ==
    \A s \in shuttingDown \ (io.closed \cup io.fin) :
        io.raw[s] # <<>> \/ io.corked = s \/ Ending(s)

(* What a frame does for a socket in shutdown.                             *)
DueFrame(f) ==
    /\ f.kind \in {"block", "response"} /\ f.uncork => f.s \notin shuttingDown
    /\ f.kind \in Drains \cup Waits => (f.s \in shuttingDown => Ending(f.s))

DueInv ==
    /\ FinDue
    /\ \A i \in 1..Len(stack) : DueFrame(stack[i])

(* FinDue is kept by a step about s that leaves something buffered, or the *)
(* socket corked, if a FIN is due.                                         *)
LEMMA DueApart ==
    ASSUME Inv, FinDue, NEW s \in Sockets, Aside(io, io', s),
           io.fin \subseteq io'.fin, shuttingDown' \subseteq shuttingDown \cup {s},
           \A t \in Sockets \ {s} : Ending(t) => Ending(t)',
           s \in shuttingDown' \ (io'.closed \cup io'.fin) =>
              io'.raw[s] # <<>> \/ io'.corked = s \/ Ending(s)'
    PROVE  FinDue'
  <1> SUFFICES ASSUME NEW t \in shuttingDown' \ (io'.closed \cup io'.fin)
               PROVE  io'.raw[t] # <<>> \/ io'.corked = t \/ Ending(t)'
    BY DEF FinDue
  <1>1. CASE t = s
    BY <1>1
  <1>2. CASE t # s
    <2>1. t \in shuttingDown \ (io.closed \cup io.fin) /\ t \in Sockets \ {s}
      BY <1>2, Facts DEF Aside, Inv, Kept
    <2> QED
      BY <2>1 DEF FinDue, Aside
  <1> QED
    BY <1>1, <1>2

(* A call about a socket that is not in shutdown, or that is closed, or in *)
(* whose turn the FIN is sent or something is left.                        *)
LEMMA DueStays ==
    ASSUME Inv, DueInv, UNCHANGED <<stack, shuttingDown>>, NEW s \in Sockets,
           Aside(io, io', s), io.fin \subseteq io'.fin,
           s \in shuttingDown \ (io'.closed \cup io'.fin) => io'.raw[s] # <<>>
    PROVE  DueInv'
  <1>1. \A t : Ending(t)' <=> Ending(t)
    BY DEF Ending
  <1>2. FinDue'
    BY <1>1, DueApart DEF DueInv
  <1>3. ASSUME NEW i \in 1..Len(stack')
        PROVE  DueFrame(stack[i])'
    BY <1>1, <1>3 DEF DueInv, DueFrame
  <1> QED
    BY <1>2, <1>3 DEF DueInv

(* A handler, a block or a drain begins.                                   *)
LEMMA DuePush ==
    ASSUME Inv, DueInv, OnlyCalls, NEW s \in Sockets, s \notin shuttingDown,
           NEW f \in Frames, f.s = s, stack' = Append(stack, f),
           Aside(io, io', s), io'.fin = io.fin, UNCHANGED shuttingDown
    PROVE  DueInv'
  <1> DEFINE n == Len(stack)
  <1>1. /\ n \in Nat /\ Len(stack') = n + 1
        /\ \A i \in 1..n : stack'[i] = stack[i] /\ stack[i].kind \in Calls
        /\ stack'[n + 1] = f
    BY Facts, Pushed DEF OnlyCalls
  <1>2. \A t : ~Ending(t)
    BY DEF OnlyCalls, Ending, Calls
  <1>3. FinDue'
    BY <1>2, DueApart DEF DueInv
  <1>4. ASSUME NEW i \in 1..(n + 1)
        PROVE  DueFrame(stack[i])'
    <2>1. CASE i \in 1..n
      <3>1. DueFrame(stack[i]) /\ stack'[i] = stack[i] /\ stack[i].kind \in Calls
        BY <1>1, <2>1 DEF DueInv
      <3> QED
        BY <3>1 DEF DueFrame, Calls, Drains, Waits
    <2>2. CASE i = n + 1
      BY <1>1, <2>2 DEF DueFrame
    <2> QED
      BY <1>1, <2>1, <2>2
  <1> QED
    BY <1>1, <1>3, <1>4 DEF DueInv

(* A drain begins that a send or an end() waits for.                       *)
LEMMA DuePushWaiting ==
    ASSUME Inv, DueInv, OnlyCalls, NEW s \in Sockets, s \notin shuttingDown,
           NEW e, NEW f, e.kind \in Waits, e.s = s, f.kind = "drain", f.s = s,
           Len(stack') = Len(stack) + 1 + 1,
           \A i \in 1..Len(stack) : stack'[i] = stack[i],
           stack'[Len(stack) + 1] = e, stack'[Len(stack) + 1 + 1] = f,
           Aside(io, io', s), io'.fin = io.fin,
           shuttingDown' = IF e.kind = "end" THEN shuttingDown \cup {s}
                           ELSE shuttingDown,
           e.kind = "end" => ~InBlock(s)
    PROVE  DueInv'
  <1> DEFINE n == Len(stack)
  <1>1. n \in Nat
    BY Facts
  <1>2. \A t : ~Ending(t)
    BY DEF OnlyCalls, Ending, Calls
  <1>3. e.kind = "end" => Ending(s)'
    <2>1. n + 1 \in 1..Len(stack')
      BY <1>1
    <2> QED
      BY <2>1 DEF Ending
  <1>4. FinDue'
    BY <1>2, <1>3, DueApart DEF DueInv
  <1>5. ASSUME NEW i \in 1..(n + 1 + 1)
        PROVE  DueFrame(stack[i])'
    <2>1. CASE i \in 1..n
      <3>1. DueFrame(stack[i]) /\ stack'[i] = stack[i] /\ stack[i].kind \in Calls
        BY <2>1 DEF DueInv, OnlyCalls
      <3>2. e.kind = "end" /\ stack[i].kind \in {"block", "response"} /\ stack[i].uncork
                => stack[i].s # s
        BY <2>1 DEF InBlock
      <3> QED
        BY <3>1, <3>2 DEF DueFrame, Calls, Drains, Waits
    <2>2. CASE i \in {n + 1, n + 1 + 1}
      <3>1. /\ stack'[i].s = s /\ stack'[i].kind \notin {"block", "response"}
            /\ s \in shuttingDown' => Ending(s)'
        BY <1>1, <1>3, <2>2 DEF Waits
      <3> QED
        BY <3>1 DEF DueFrame
    <2> QED
      BY <1>1, <2>1, <2>2
  <1> QED
    BY <1>4, <1>5 DEF DueInv

(* A handler, a block, a drain or what waited for one returns.             *)
LEMMA DuePop ==
    ASSUME Inv, DueInv, stack # <<>>, stack' = Pop, NEW s \in Sockets,
           Aside(io, io', s), io.fin \subseteq io'.fin, UNCHANGED shuttingDown,
           Top.kind = "end" => s = Top.s,
           s \in shuttingDown \ (io'.closed \cup io'.fin) =>
              io'.raw[s] # <<>> \/ io'.corked = s \/ Ending(s)'
    PROVE  DueInv'
  <1> DEFINE n == Len(stack) - 1
  <1>1. /\ n \in Nat /\ Len(stack) = n + 1
        /\ Len(stack') = n
        /\ \A i \in 1..n : stack'[i] = stack[i]
    BY PopFacts
  <1> HIDE DEF n
  <1>2. /\ Top.kind # "end" => \A t : Ending(t)' <=> Ending(t)
        /\ Top.kind = "end" => \A t : ~Ending(t)' /\ (Ending(t) <=> t = Top.s)
        /\ Top.kind \notin Drains => OnlyCalls'
    BY PopEnding
  <1>3. \A t \in Sockets \ {s} : Ending(t) => Ending(t)'
    BY <1>2
  <1>4. FinDue'
    BY <1>3, DueApart DEF DueInv
  <1>5. ASSUME NEW i \in 1..n
        PROVE  DueFrame(stack[i])'
    <2>1. DueFrame(stack[i]) /\ stack'[i] = stack[i]
      BY <1>1 DEF DueInv
    <2>2. CASE Top.kind # "end"
      BY <1>2, <2>1, <2>2 DEF DueFrame
    <2>3. CASE Top.kind = "end"
      <3>1. stack'[i].kind \in Calls
        BY <1>1, <1>2, <2>3 DEF OnlyCalls, Drains
      <3> QED
        BY <2>1, <3>1 DEF DueFrame, Calls, Drains, Waits
    <2> QED
      BY <2>2, <2>3
  <1> QED
    BY <1>1, <1>4, <1>5 DEF DueInv

(* A buffered send that reports backpressure has left some.                *)
LEMMA BufferedFails ==
    ASSUME IOInv(io, Nat), NEW s \in Sockets, s \notin io.closed,
           NEW frame \in Seq(Nat), NEW room \in Nat,
           BufferedSend(io, s, frame, room).status = "BACKPRESSURE"
    PROVE  BufferedSend(io, s, frame, room).io.raw[s] # <<>>
  <1> DEFINE r == BufferedSend(io, s, frame, room)
             b == GetSendBuffer(io, s, frame)
             wd == Write(b.io, s, <<>>, room, FALSE)
             wu == Uncork(b.io, s, <<>>, room, FALSE)
  <1>1. r = BufferedSend(io, s, frame, room) /\ r.status = "BACKPRESSURE"
    OBVIOUS
  <1>2. Buffered(io, Nat, s, frame, b)
    BY GetSendBufferKeeps
  <1>3. \/ r.io = wd.io /\ wd.failed
        \/ r.io = wu.io /\ wu.failed
    <2> HIDE DEF b, r
    <2>1. b.attribute \in {"NEEDS_NOTHING", "NEEDS_DRAIN", "NEEDS_UNCORK"}
      BY <1>2 DEF Buffered
    <2>2. CASE b.attribute = "NEEDS_NOTHING"
      BY <1>1, <2>2 DEF BufferedSend, Result, b
    <2>3. CASE b.attribute = "NEEDS_DRAIN"
      BY <1>1, <2>3 DEF BufferedSend, b
    <2>4. CASE b.attribute = "NEEDS_UNCORK"
      BY <1>1, <2>4 DEF BufferedSend, b
    <2> QED
      BY <2>1, <2>2, <2>3, <2>4
  <1> HIDE DEF b, r
  <1>4. IOInv(b.io, Nat) /\ IOSafe(b.io, Nat) /\ s \notin b.io.closed
    BY <1>2 DEF Buffered, OnlyOf, IOInv
  <1>5. wd.failed => wd.io.raw[s] # <<>>
    BY <1>4, DrainFails
  <1>6. wu.failed => wu.io.raw[s] # <<>>
    BY <1>4, UncorkFails
  <1>7. r.io.raw[s] # <<>>
    BY <1>3, <1>5, <1>6
  <1> QED
    BY <1>7 DEF r

(* Calls about a socket that is not in shutdown.                           *)
LEMMA SendDue ==
    ASSUME Inv, DueInv, NEW s \in Sockets, NEW n \in Sizes, NEW room \in Room,
           NEW special \in BOOLEAN, Send(s, n, room, special)
    PROVE  DueInv'
  <1> DEFINE r == SendResult(s, Frame(s, n), room, special)
  <1>1. n \in Nat /\ s \in Sockets \ io.closed /\ s \notin shuttingDown
    BY ConfigAssumption DEF Send, Live
  <1>2. Sending(s, n, r)
    BY <1>1, SendSteps
  <1>3. io' = r.io /\ UNCHANGED <<shuttingDown, stack>>
    BY DEF Send
  <1> HIDE DEF r
  <1> QED
    BY <1>1, <1>2, <1>3, DueStays DEF Sending

LEMMA PublishDue ==
    ASSUME Inv, DueInv, NEW s \in Sockets, Subscribe(s) \/ Publish(s)
    PROVE  DueInv'
  <1>1. UNCHANGED <<io, stack, shuttingDown>> /\ s \notin shuttingDown
    BY DEF Subscribe, Publish, Live
  <1> QED
    BY <1>1, Facts, DueStays

LEMMA UpgradeDue ==
    ASSUME Inv, DueInv, NEW s \in Sockets, NEW room \in Room, Upgrade(s, room)
    PROVE  DueInv'
  <1>1. /\ s \in Sockets \ upgraded
        /\ io' = Write(io, s, Frame(s, 1), room, FALSE).io
        /\ UNCHANGED <<shuttingDown, stack>>
    BY DEF Upgrade
  <1>2. s \in Sockets \ io.closed /\ (io.corked = s => io.cork = <<>>)
    BY <1>1, EmptyStream
  <1>3. Aside(io, io', s) /\ io'.fin = io.fin
    BY <1>1, <1>2, ByteSteps
  <1>4. s \notin shuttingDown
    BY <1>1 DEF Inv, Kept
  <1> QED
    BY <1>1, <1>3, <1>4, DueStays

LEMMA PingDue ==
    ASSUME Inv, DueInv, NEW s \in Sockets, NEW room \in Room,
           OnTimeoutPing(s, room)
    PROVE  DueInv'
  <1>1. /\ s \notin shuttingDown /\ Aside(io, io', s) /\ io'.fin = io.fin
        /\ UNCHANGED <<shuttingDown, stack>>
    BY PingFacts
  <1> QED
    BY <1>1, DueStays

LEMMA CloseDue ==
    ASSUME Inv, DueInv, NEW s \in upgraded, CloseSocket(s),
           UNCHANGED <<shuttingDown, stack>>
    PROVE  DueInv'
  <1>1. s \in Sockets
    BY Facts
  <1>2. Aside(io, io', s) /\ io'.closed = io.closed \cup {s} /\ io'.fin = io.fin
    BY CloseSteps
  <1> QED
    BY <1>1, <1>2, DueStays

LEMMA WritableDue ==
    ASSUME Inv, DueInv, NEW s \in Sockets, NEW room \in Room, OnWritable(s, room)
    PROVE  DueInv'
  <1> DEFINE r == Write(io, s, <<>>, room, FALSE)
             fin == s \in shuttingDown /\ r.io.raw[s] = <<>>
  <1>1. /\ Aside(io, io', s) /\ io'.raw = r.io.raw
        /\ io'.fin = IF fin THEN io.fin \cup {s} ELSE io.fin
        /\ UNCHANGED <<shuttingDown, stack>>
    BY WritableFacts
  <1> HIDE DEF r
  <1>2. s \in shuttingDown \ (io'.closed \cup io'.fin) => io'.raw[s] # <<>>
    BY <1>1
  <1>3. io.fin \subseteq io'.fin
    BY <1>1
  <1> QED
    BY <1>1, <1>2, <1>3, DueStays

(* Handlers, blocks and drains begin.                                      *)
LEMMA BeginDue ==
    ASSUME Careful, Inv, DueInv, NEW s \in Sockets,
           CorkBegin(s) \/ OnHttpData(s) \/ OnData(s)
    PROVE  DueInv'
  <1>1. s \notin shuttingDown
    BY DEF CorkBegin, OnHttpData, OnData, Live, Inv, Kept
  <1>2. OnlyCalls
    BY CallsOnly, LoopCalls DEF CorkBegin, OnHttpData, OnData
  <1>3. Aside(io, io', s) /\ io'.fin = io.fin
    <2>1. io' = IF CanCork(io) THEN Cork(io, s) ELSE io
      BY Facts DEF CorkBegin, OnHttpData, OnData, CanCork
    <2> QED
      BY <2>1, CorkKeeps
  <1>4. \E f \in Frames : f.s = s /\ stack' = Append(stack, f)
    <2>1. CASE CorkBegin(s)
      <3> DEFINE f == On(IF s \in upgraded THEN "block" ELSE "response", s,
                         CanCork(io), 0)
      <3>1. f \in Frames /\ f.s = s
        BY DEF On, Frames, Calls, CanCork
      <3>2. stack' = Append(stack, f)
        BY <2>1 DEF CorkBegin
      <3> HIDE DEF f
      <3> QED
        BY <3>1, <3>2
    <2>2. CASE OnHttpData(s)
      <3> DEFINE f == On("http", s, TRUE, 0)
      <3>1. f \in Frames /\ f.s = s
        BY DEF On, Frames, Calls
      <3>2. stack' = Append(stack, f)
        BY <2>2 DEF OnHttpData
      <3> HIDE DEF f
      <3> QED
        BY <3>1, <3>2
    <2>3. CASE OnData(s)
      <3> DEFINE f == On("data", s, TRUE, 0)
      <3>1. f \in Frames /\ f.s = s
        BY DEF On, Frames, Calls
      <3>2. stack' = Append(stack, f)
        BY <2>3 DEF OnData
      <3> HIDE DEF f
      <3> QED
        BY <3>1, <3>2
    <2> QED
      BY <2>1, <2>2, <2>3
  <1>5. UNCHANGED shuttingDown
    BY DEF CorkBegin, OnHttpData, OnData
  <1> QED
    BY <1>1, <1>2, <1>3, <1>4, <1>5, DuePush

LEMMA DrainDue ==
    ASSUME Careful, Inv, DueInv, NEW s \in Sockets, Drain(s)
    PROVE  DueInv'
  <1> DEFINE f == On("drain", s, io.corked = Nil, queued[s])
  <1>1. /\ s \in upgraded \ io.closed /\ s \notin shuttingDown
        /\ Handling /\ DrainBegins(s, <<>>)
        /\ UNCHANGED <<upgraded, accepted, shuttingDown>>
    BY DEF Drain, Live
  <1>2. /\ f \in Frames /\ f.s = s /\ stack' = Append(stack, f)
        /\ io'.fin = io.fin
    BY <1>1, DrainStarts
  <1> HIDE DEF f
  <1>3. Aside(io, io', s)
    BY <1>1, CorkKeeps DEF DrainBegins
  <1> QED
    BY <1>1, <1>2, <1>3, CallsOnly, DuePush

LEMMA SendDrainsDue ==
    ASSUME Careful, Inv, DueInv, NEW s \in Sockets, NEW n \in Sizes,
           SendDrains(s, n)
    PROVE  DueInv'
  <1> DEFINE e == On("send", s, FALSE, n)
             f == On("drain", s, io.corked = Nil, queued[s])
  <1>1. /\ s \in upgraded \ io.closed /\ s \notin shuttingDown /\ n \in Nat
        /\ Handling /\ DrainBegins(s, <<e>>)
        /\ UNCHANGED <<upgraded, accepted, shuttingDown>>
    BY ConfigAssumption DEF SendDrains, Live
  <1>2. /\ e \in Frames /\ e.kind = "send" /\ e.kind \in Waits /\ e.s = s
    BY <1>1 DEF On, Frames, Waits
  <1> HIDE DEF e
  <1>3. /\ f.kind = "drain" /\ f.s = s
        /\ Aside(io, io', s) /\ io'.fin = io.fin
        /\ Len(stack') = Len(stack) + 1 + 1
        /\ \A i \in 1..Len(stack) : stack'[i] = stack[i]
        /\ stack'[Len(stack) + 1] = e
        /\ stack'[Len(stack) + 1 + 1] = f
    BY <1>1, <1>2, DrainFrames
  <1> HIDE DEF f
  <1>4. OnlyCalls
    BY <1>1, CallsOnly
  <1> QED
    BY <1>1, <1>2, <1>3, <1>4, DuePushWaiting

LEMMA EndDrainsDue ==
    ASSUME CarefulEnd, Inv, DueInv, NEW s \in Sockets, EndDrains(s)
    PROVE  DueInv'
  <1> DEFINE e == On("end", s, FALSE, 1)
             f == On("drain", s, io.corked = Nil, queued[s])
  <1>1. /\ s \in upgraded \ io.closed /\ s \notin shuttingDown
        /\ Handling /\ DrainBegins(s, <<e>>) /\ ~InBlock(s)
        /\ shuttingDown' = shuttingDown \cup {s}
        /\ UNCHANGED <<upgraded, accepted>>
    BY DEF EndDrains, MayEnd, Live, CarefulEnd
  <1>2. /\ e \in Frames /\ e.kind = "end" /\ e.kind \in Waits /\ e.s = s
    BY <1>1 DEF On, Frames, Waits
  <1> HIDE DEF e
  <1>3. /\ f.kind = "drain" /\ f.s = s
        /\ Aside(io, io', s) /\ io'.fin = io.fin
        /\ Len(stack') = Len(stack) + 1 + 1
        /\ \A i \in 1..Len(stack) : stack'[i] = stack[i]
        /\ stack'[Len(stack) + 1] = e
        /\ stack'[Len(stack) + 1 + 1] = f
    BY <1>1, <1>2, DrainFrames
  <1> HIDE DEF f
  <1>4. OnlyCalls
    BY <1>1, CallsOnly DEF CarefulEnd
  <1> QED
    BY <1>1, <1>2, <1>3, <1>4, DuePushWaiting

(* end() sends FIN, or there is something to send first.                   *)
LEMMA EndDue ==
    ASSUME CarefulEnd, Inv, DueInv, NEW s \in Sockets, NEW room \in Room,
           End(s, room)
    PROVE  DueInv'
  <1> DEFINE r == SendResult(s, Frame(s, 1), room, FALSE)
             b == BufferedSend(io, s, Frame(s, 1), room)
  <1>1. /\ s \in Sockets \ io.closed /\ Handling /\ ~InBlock(s)
    BY DEF End, MayEnd, Live, CarefulEnd
  <1>2. Sending(s, 1, r) /\ r.io.corked = io.corked
    BY <1>1, SendSteps
  <1>3. /\ shuttingDown' = shuttingDown \cup {s} /\ EndSent(s, r)
        /\ UNCHANGED <<upgraded, stack>>
    BY DEF End
  <1>4. r.status = "DROPPED" \/ r = b
    BY DEF SendResult
  <1>5. b.status = "BACKPRESSURE" => b.io.raw[s] # <<>>
    <2>1. room \in Nat /\ IOInv(io, Nat) /\ Frame(s, 1) \in Seq(Nat)
      BY Facts, FrameNext
    <2> QED
      BY <1>1, <2>1, BufferedFails
  <1> HIDE DEF r, b
  <1>6. r.status = "BACKPRESSURE" => r.io.raw[s] # <<>>
    BY <1>4, <1>5
  <1>7. Ended(s, r)
    BY <1>1, <1>2, <1>3, EndSteps
  <1>8. /\ Aside(io, io', s) /\ io.fin \subseteq io'.fin
        /\ s \in io'.fin \/ io'.raw[s] # <<>> \/ io'.corked = s
    BY <1>6, <1>7 DEF Ended
  <1>9. /\ OnlyCalls /\ \A t : Ending(t)' <=> Ending(t)
    BY <1>1, <1>3, CallsOnly DEF Ending, CarefulEnd
  <1>10. FinDue'
    BY <1>3, <1>8, <1>9, DueApart DEF DueInv
  <1>11. ASSUME NEW i \in 1..Len(stack')
         PROVE  DueFrame(stack[i])'
    <2>1. DueFrame(stack[i]) /\ stack'[i] = stack[i] /\ stack[i].kind \in Calls
      BY <1>3, <1>9 DEF DueInv, OnlyCalls
    <2>2. stack[i].kind \in {"block", "response"} /\ stack[i].uncork => stack[i].s # s
      BY <1>1, <1>3 DEF InBlock
    <2> QED
      BY <1>3, <2>1, <2>2 DEF DueFrame, Calls, Drains, Waits
  <1> QED
    BY <1>10, <1>11 DEF DueInv

(* The frame on top, of what returns.                                      *)
LEMMA TopDue ==
    ASSUME Inv, DueInv, stack # <<>>
    PROVE  Top \in Frames /\ Top.s \in Sockets /\ Fine(Top) /\ DueFrame(Top)
  <1>1. Len(stack) \in 1..Len(stack) /\ Top = stack[Len(stack)]
    BY Facts DEF Top
  <1> QED
    BY <1>1, Facts DEF Inv, Stacked, DueInv, Frames

LEMMA SendRestDue ==
    ASSUME Inv, DueInv, NEW room \in Room, SendRest(room)
    PROVE  DueInv'
  <1>0. PICK s \in Sockets : s = Top.s
    BY TopDue DEF SendRest, Atop
  <1> DEFINE r == BufferedSend(io, s, Frame(s, Top.left), room)
  <1>1. /\ stack # <<>> /\ Top.kind = "send" /\ io' = r.io /\ stack' = Pop
        /\ UNCHANGED shuttingDown
    BY <1>0 DEF SendRest, Atop
  <1>2. Top \in Frames /\ s \in Sockets /\ Fine(Top) /\ DueFrame(Top)
    BY <1>1, TopDue
  <1>3. s \in Sockets \ io.closed /\ Top.left \in Nat
    BY <1>0, <1>1, <1>2 DEF Fine, Waits, Frames
  <1>4. Sending(s, Top.left, r)
    BY <1>3, RestSteps
  <1> HIDE DEF r
  <1>5. s \notin shuttingDown
    <2>1. OnlyCalls' /\ (Ending(s)' <=> Ending(s))
      BY <1>1, PopEnding DEF Drains
    <2>2. ~Ending(s)
      BY <2>1 DEF OnlyCalls, Ending, Calls
    <2> QED
      BY <1>0, <1>1, <1>2, <2>2 DEF DueFrame, Waits
  <1> QED
    BY <1>1, <1>2, <1>4, <1>5, DuePop DEF Sending

LEMMA EndRestDue ==
    ASSUME Inv, DueInv, NEW room \in Room, EndRest(room)
    PROVE  DueInv'
  <1> DEFINE s == Top.s
             r == BufferedSend(io, s, Frame(s, 1), room)
  <1>1. /\ stack # <<>> /\ Top.kind = "end" /\ EndSent(s, r) /\ stack' = Pop
        /\ UNCHANGED shuttingDown
    BY DEF EndRest, Atop
  <1>2. Top \in Frames /\ s \in Sockets /\ Fine(Top)
    BY <1>1, TopDue
  <1>3. s \in Sockets \ io.closed
    BY <1>1, <1>2 DEF Fine, Waits
  <1>4. Sending(s, 1, r)
    BY <1>3, RestSteps
  <1>5. r.status = "BACKPRESSURE" => r.io.raw[s] # <<>>
    <2>1. room \in Nat /\ IOInv(io, Nat) /\ Frame(s, 1) \in Seq(Nat)
      BY <1>3, Facts, FrameNext
    <2> QED
      BY <1>3, <2>1, BufferedFails
  <1> HIDE DEF r
  <1>6. Ended(s, r)
    BY <1>1, <1>3, <1>4, EndSteps
  <1>7. /\ Aside(io, io', s) /\ io.fin \subseteq io'.fin
        /\ s \in io'.fin \/ io'.raw[s] # <<>> \/ io'.corked = s
    BY <1>5, <1>6 DEF Ended
  <1>8. s = Top.s
    OBVIOUS
  <1> HIDE DEF s
  <1> QED
    BY <1>1, <1>2, <1>7, <1>8, DuePop

(* An end() that waits for a drain sends the FIN itself.                   *)
LEMMA DrainMessageDue ==
    ASSUME Inv, DueInv, NEW room \in Room, DrainMessage(room)
    PROVE  DueInv'
  <1>0. PICK s \in Sockets : s = Top.s
    BY TopDue DEF DrainMessage, Atop
  <1> DEFINE r == SendResult(s, Frame(s, 1), room, FALSE)
             f == IF r.status = "DROPPED" THEN [Top EXCEPT !.kind = "dropped"]
                  ELSE [Top EXCEPT !.left = @ - 1]
             n == Len(stack) - 1
  <1>1. /\ stack # <<>> /\ Top.kind = "drain" /\ Top.left > 0
        /\ io' = r.io /\ stack' = Append(Pop, f)
        /\ UNCHANGED <<upgraded, slot, shuttingDown, needsUncork>>
    BY <1>0 DEF DrainMessage, Atop
  <1>2. Top \in Frames /\ s \in Sockets /\ Fine(Top) /\ DueFrame(Top)
    BY <1>1, TopDue
  <1>3. /\ n \in Nat /\ Len(stack) = n + 1
        /\ Pop \in Seq(Frames) /\ Len(Pop) = n
        /\ \A i \in 1..n : Pop[i] = stack[i]
    BY <1>1, PopFacts
  <1>4. s \in Sockets \ io.closed /\ Top.kind \in Drains
    BY <1>0, <1>1, <1>2 DEF Fine, Drains
  <1>5. f \in Frames /\ f.kind \in Drains /\ f.s = Top.s /\ f.uncork = Top.uncork
    <2> DEFINE k == [Top EXCEPT !.kind = "dropped"]
               l == [Top EXCEPT !.left = @ - 1]
    <2>1. k \in Frames /\ k.kind \in Drains /\ k.s = Top.s /\ k.uncork = Top.uncork
      BY <1>2 DEF Frames, Drains
    <2>2. l \in Frames /\ l.kind \in Drains /\ l.s = Top.s /\ l.uncork = Top.uncork
      <3>1. Top \in Frames /\ Top.kind = "drain" /\ Top.left > 0
        BY <1>1, <1>2
      <3> QED
        BY <3>1 DEF Frames, Drains
    <2>3. f = k \/ f = l
      OBVIOUS
    <2> HIDE DEF f, k, l
    <2> QED
      BY <2>1, <2>2, <2>3
  <1> HIDE DEF f
  <1>6. Sending(s, 1, r) /\ r.io.corked = io.corked
    BY <1>4, SendSteps
  <1> HIDE DEF r, n
  <1>7. /\ Aside(io, io', s) /\ io'.fin = io.fin /\ io'.closed = io.closed
        /\ io'.corked = io.corked
    BY <1>1, <1>6 DEF Sending
  <1>8. \A t : Ending(t)' <=> Ending(t)
    BY <1>1, <1>4, <1>5, <1>7, StackReplace
  <1>9. s \in shuttingDown => Ending(s)
    BY <1>0, <1>2, <1>4 DEF DueFrame
  <1>10. FinDue'
    BY <1>1, <1>2, <1>7, <1>8, <1>9, DueApart DEF DueInv
  <1>11. /\ Len(stack') = n + 1
         /\ \A i \in 1..n : stack'[i] = stack[i]
         /\ stack'[n + 1] = f
    BY <1>1, <1>3, <1>5, Pushed
  <1>12. ASSUME NEW i \in 1..(n + 1)
         PROVE  DueFrame(stack[i])'
    <2>1. CASE i \in 1..n
      <3>1. DueFrame(stack[i]) /\ stack'[i] = stack[i]
        BY <1>3, <1>11, <2>1 DEF DueInv
      <3> QED
        BY <1>1, <1>8, <3>1 DEF DueFrame
    <2>2. CASE i = n + 1
      <3>1. stack'[i].s = s /\ stack'[i].kind \in Drains
        BY <1>0, <1>5, <1>11, <2>2
      <3>2. s \in shuttingDown' => Ending(s)'
        BY <1>1, <1>8, <1>9
      <3> QED
        BY <3>1, <3>2 DEF DueFrame, Drains
    <2> QED
      BY <1>3, <2>1, <2>2
  <1> QED
    BY <1>10, <1>11, <1>12 DEF DueInv

LEMMA DrainEndDue ==
    ASSUME Inv, DueInv, NEW room \in Room, DrainEnd(room) \/ DroppedReturn(room)
    PROVE  DueInv'
  <1>0. PICK s \in Sockets : s = Top.s
    BY TopDue DEF DrainEnd, DroppedReturn, Atop
  <1> DEFINE r == Uncork(io, s, <<>>, room, FALSE)
  <1>1. /\ stack # <<>> /\ Top.kind \in Drains /\ stack' = Pop
        /\ io' = IF needsUncork THEN r.io ELSE io
        /\ UNCHANGED shuttingDown
    BY <1>0 DEF DrainEnd, DroppedReturn, Atop, Drains
  <1>2. s \in Sockets /\ Aside(io, io, s) /\ DueFrame(Top)
    BY <1>1, TopDue, Facts
  <1>3. Freed(s, r)
    BY <1>2, FreeSteps
  <1> HIDE DEF r
  <1>4. Aside(io, io', s) /\ io'.fin = io.fin
    BY <1>1, <1>2, <1>3 DEF Freed
  <1>5. s \in shuttingDown => Ending(s)'
    <2>1. Ending(s)' <=> Ending(s)
      BY <1>1, PopEnding DEF Drains
    <2> QED
      BY <1>0, <1>1, <1>2, <2>1 DEF DueFrame
  <1>6. Top.kind # "end"
    BY <1>1 DEF Drains
  <1> QED
    BY <1>1, <1>2, <1>4, <1>5, <1>6, DuePop

(* A block frees the cork of the socket that it corked, which has not      *)
(* ended.                                                                  *)
LEMMA CorkEndDue ==
    ASSUME Inv, DueInv, NEW room \in Room, CorkEnd(room)
    PROVE  DueInv'
  <1> DEFINE s == IF Top.kind = "response" THEN io.corked ELSE Top.s
             frees == Top.uncork /\ io.corked # Nil
             r == Uncork(io, s, <<>>, room, FALSE)
  <1>1. /\ stack # <<>> /\ Top.kind \in {"block", "response"} /\ stack' = Pop
        /\ io' = IF frees THEN r.io ELSE io
        /\ UNCHANGED shuttingDown
    BY DEF CorkEnd, Atop, CanCork
  <1>2. /\ Top.s \in Sockets /\ DueFrame(Top)
        /\ \A t \in Sockets : Aside(io, io, t)
    BY <1>1, TopDue, Facts
  <1>3. CASE frees
    <2>1. io.corked = Top.s
      <3> DEFINE n == Len(stack) - 1
      <3>1. n \in Nat /\ Len(stack) = n + 1 /\ Top = stack[n + 1]
        BY <1>1, PopFacts
      <3> HIDE DEF n
      <3>2. PICK i \in 1..(n + 1) : /\ stack[i].s = io.corked
                                    /\ \A j \in (i + 1)..(n + 1) : ~stack[j].uncork
        BY <1>3, <3>1 DEF Inv, Stacked, Owned
      <3>3. i = n + 1
        <4>1. i # n + 1 => n + 1 \in (i + 1)..(n + 1)
          BY <3>1
        <4> QED
          BY <1>3, <3>1, <3>2, <4>1
      <3> QED
        BY <3>1, <3>2, <3>3
    <2>2. s = Top.s /\ s \notin shuttingDown
      BY <1>1, <1>2, <1>3, <2>1 DEF DueFrame
    <2>3. s \in Sockets
      BY <1>2, <2>2
    <2>4. Freed(s, r)
      BY <2>3, FreeSteps
    <2>5. io' = r.io
      BY <1>1, <1>3
    <2> HIDE DEF r, s
    <2> QED
      BY <1>1, <2>2, <2>3, <2>4, <2>5, DuePop DEF Freed
  <1>4. CASE ~frees
    <2>1. io' = io
      BY <1>1, <1>4
    <2>2. PICK u \in Sockets : u = Top.s
      BY <1>2
    <2>3. Ending(u)' <=> Ending(u)
      BY <1>1, PopEnding
    <2>4. u \in shuttingDown \ (io.closed \cup io.fin) =>
              io.raw[u] # <<>> \/ io.corked = u \/ Ending(u)
      BY DEF DueInv, FinDue
    <2> QED
      BY <1>1, <1>2, <2>1, <2>2, <2>3, <2>4, DuePop
  <1> QED
    BY <1>3, <1>4

(* The FIN of the socket that was parsed, whose slot is its own.           *)
LEMMA HttpReturnDue ==
    ASSUME Inv, DueInv, NEW room \in Room, HttpReturn(room)
    PROVE  DueInv'
  <1> DEFINE s == Top.s
             r == Uncork(io, s, <<>>, room, FALSE)
             fin == slot # Nil /\ ~r.failed /\ s \in shuttingDown
  <1>1. /\ stack # <<>> /\ Top.kind = "http" /\ stack' = Pop
        /\ s \in Sockets /\ Freed(s, r) /\ (s \in upgraded => slot # Nil)
        /\ fin \in BOOLEAN /\ io' = IF fin THEN Shutdown(r.io, s) ELSE r.io
        /\ UNCHANGED shuttingDown
    BY HttpReturnFacts
  <1> HIDE DEF r, fin
  <1>2. /\ Aside(io, io', s) /\ io'.closed = io.closed /\ io'.raw = r.io.raw
        /\ io'.fin = IF fin /\ s \notin io.closed THEN io.fin \cup {s} ELSE io.fin
    BY <1>1, FinSteps
  <1>3. ASSUME s \in shuttingDown \ (io'.closed \cup io'.fin)
        PROVE  io'.raw[s] # <<>>
    <2>1. slot # Nil
      BY <1>1, <1>3 DEF Inv, Kept
    <2>2. ~fin
      BY <1>2, <1>3
    <2>3. r.failed
      BY <1>3, <2>1, <2>2 DEF fin
    <2> QED
      BY <1>1, <1>2, <1>3, <2>3 DEF Freed
  <1>4. io.fin \subseteq io'.fin
    BY <1>2
  <1> HIDE DEF s
  <1> QED
    BY <1>1, <1>2, <1>3, <1>4, DuePop

LEMMA DataReturnDue ==
    ASSUME Inv, DueInv, NEW room \in Room, DataReturn(room)
    PROVE  DueInv'
  <1> DEFINE s == Top.s
             r == Uncork(io, s, <<>>, room, FALSE)
             fin == TotalLength(r.io, s) = 0 /\ s \in shuttingDown
  <1>1. /\ stack # <<>> /\ Top.kind = "data" /\ stack' = Pop
        /\ s \in Sockets /\ Freed(s, r)
        /\ fin \in BOOLEAN /\ (fin <=> r.io.raw[s] = <<>> /\ s \in shuttingDown)
        /\ io' = IF fin THEN Shutdown(r.io, s) ELSE r.io
        /\ UNCHANGED shuttingDown
    BY DataReturnFacts
  <1> HIDE DEF r, fin
  <1>2. /\ Aside(io, io', s) /\ io'.closed = io.closed /\ io'.raw = r.io.raw
        /\ io'.fin = IF fin /\ s \notin io.closed THEN io.fin \cup {s} ELSE io.fin
    BY <1>1, FinSteps
  <1>3. s \in shuttingDown \ (io'.closed \cup io'.fin) => io'.raw[s] # <<>>
    BY <1>1, <1>2
  <1>4. io.fin \subseteq io'.fin
    BY <1>2
  <1> HIDE DEF s
  <1> QED
    BY <1>1, <1>2, <1>3, <1>4, DuePop

LEMMA ReturnDue ==
    ASSUME Inv, DueInv, Return
    PROVE  DueInv'
  <1>1. PICK room \in Room :
            \/ SendRest(room) \/ EndRest(room)
            \/ DrainMessage(room) \/ DrainEnd(room) \/ DroppedReturn(room)
            \/ CorkEnd(room) \/ HttpReturn(room) \/ DataReturn(room)
    BY DEF Return
  <1> QED
    BY <1>1, SendRestDue, EndRestDue, DrainMessageDue, DrainEndDue, CorkEndDue,
       HttpReturnDue, DataReturnDue

LEMMA NextDue ==
    ASSUME CarefulEnd, Inv, DueInv, [Next]_vars
    PROVE  DueInv'
  <1>1. CASE UNCHANGED vars
    BY <1>1 DEF vars, DueInv, FinDue, DueFrame, Ending
  <1>2. CASE Next
    <2> USE DEF CarefulEnd
    <2>1. CASE Return
      BY <2>1, ReturnDue
    <2>2. CASE \E s \in Sockets, n \in Sizes, room \in Room, special \in BOOLEAN :
                 Send(s, n, room, special)
      BY <2>2, SendDue
    <2>3. CASE \E s \in Sockets, n \in Sizes : SendDrains(s, n)
      BY <2>3, SendDrainsDue
    <2>4. CASE \E s \in Sockets : Subscribe(s) \/ Publish(s)
      BY <2>4, PublishDue
    <2>5. CASE \E s \in Sockets : Drain(s)
      BY <2>5, DrainDue
    <2>6. CASE \E s \in Sockets, room \in Room : End(s, room)
      BY <2>6, EndDue
    <2>7. CASE \E s \in Sockets : EndDrains(s)
      BY <2>7, EndDrainsDue
    <2>8. CASE \E s \in Sockets : Close(s) \/ OnEnd(s) \/ OnTimeoutClose(s)
      BY <2>8, CloseDue DEF Close, OnEnd, OnTimeoutClose, Live
    <2>9. CASE \E s \in Sockets : CorkBegin(s) \/ OnHttpData(s) \/ OnData(s)
      BY <2>9, BeginDue
    <2>10. CASE \E s \in Sockets, room \in Room : Upgrade(s, room)
      BY <2>10, UpgradeDue
    <2>11. CASE \E s \in Sockets, room \in Room : OnWritable(s, room)
      BY <2>11, WritableDue
    <2>12. CASE \E s \in Sockets, room \in Room : OnTimeoutPing(s, room)
      BY <2>12, PingDue
    <2> QED
      BY <1>2, <2>1, <2>2, <2>3, <2>4, <2>5, <2>6, <2>7, <2>8, <2>9, <2>10,
         <2>11, <2>12 DEF Next
  <1> QED
    BY <1>1, <1>2

(* FIN is sent: once no handler runs, only backpressure holds it back.     *)
THEOREM FinComes ==
    ASSUME CarefulEnd
    PROVE  Spec => []FinNotForgotten
  <1>1. Init => DueInv
    BY EmptySeq DEF Init, InitIO, DueInv, FinDue
  <1>2. Inv /\ DueInv => FinNotForgotten
    <2> SUFFICES ASSUME Inv, DueInv, NEW s \in shuttingDown \ io.closed,
                        stack = <<>>, TotalLength(io, s) = 0
                 PROVE  s \in io.fin
      BY DEF FinNotForgotten
    <2>1. s \in Sockets /\ io.corked = Nil
      BY Facts DEF Inv, Kept
    <2>2. io.raw[s] \in Seq(Nat)
      BY <2>1, Facts, Components DEF IOInv, IOSafe
    <2>3. io.raw[s] = <<>>
      BY <2>2, EmptySeq DEF TotalLength
    <2>4. ~Ending(s)
      BY EmptySeq DEF Ending
    <2> QED
      BY <2>1, <2>3, <2>4, SocketAssumption DEF DueInv, FinDue
  <1>3. Inv /\ DueInv /\ [Next]_vars => (Inv /\ DueInv)'
    BY NextInv, NextDue DEF CarefulEnd
  <1> QED
    BY <1>1, <1>2, <1>3, InitInv, PTL DEF Spec

=============================================================================
