------------------------------ MODULE AsyncSocket ------------------------------
(***************************************************************************)
(* The write side of a socket: uWS::AsyncSocket over the cork buffer of    *)
(* the loop (LoopData), the backpressure buffer of the socket              *)
(* (AsyncSocketData, BackPressure) and the kernel.                         *)
(*                                                                         *)
(* These are operators, not actions: one callback of the program makes     *)
(* several of these calls, and the specifications of those callbacks       *)
(* (WebSocket, HttpResponse) compose them.  The state is a record:         *)
(*   corked   LoopData::corkedSocket, or Nil                               *)
(*   cork     the first corkOffset bytes of LoopData::corkBuffer           *)
(*   raw      BackPressure::buffer of every socket                         *)
(*   removed  BackPressure::pendingRemoval of every socket                 *)
(*   sent     what the kernel has taken of every socket                    *)
(*   fin      sockets shut down for writing (us_socket_shutdown)           *)
(*   closed   sockets closed (us_socket_close)                             *)
(*                                                                         *)
(* `room` is how many bytes the kernel takes during one call.  Within a    *)
(* call a write that is cut short is the last one, so one number is enough *)
(* to describe all of them.                                                *)
(***************************************************************************)
EXTENDS Naturals, Sequences

CONSTANTS
    Sockets,
    Nil,           \* nullptr
    CorkSize,      \* CORK_BUFFER_SIZE
    EraseDivisor   \* 32: the part of the buffer that is worth erasing

ASSUME SocketAssumption == Nil \notin Sockets
ASSUME CorkAssumption == /\ CorkSize \in Nat \ {0}
                         /\ EraseDivisor \in Nat \ {0}

Least(a, b) == IF a < b THEN a ELSE b

InitIO ==
    [corked |-> Nil, cork |-> <<>>,
     raw |-> [s \in Sockets |-> <<>>], removed |-> [s \in Sockets |-> 0],
     sent |-> [s \in Sockets |-> <<>>], fin |-> {}, closed |-> {}]

-----------------------------------------------------------------------------
(* BackPressure.  `raw` keeps bytes already sent, the first `removed`.     *)

Length(io, s) == Len(io.raw[s]) - io.removed[s]
TotalLength(io, s) == Len(io.raw[s])
Data(io, s) == SubSeq(io.raw[s], io.removed[s] + 1, Len(io.raw[s]))

\* Mutant: the bytes are dropped but still counted as pending removal.
EraseKeepCount(io, s, n) ==
    LET gone == io.removed[s] + n
    IN  IF gone > Len(io.raw[s]) \div EraseDivisor
        THEN [io EXCEPT !.raw[s] = SubSeq(@, gone + 1, Len(@)), !.removed[s] = gone]
        ELSE [io EXCEPT !.removed[s] = gone]

Erase(io, s, n) ==
    LET gone == io.removed[s] + n
    IN  IF gone > Len(io.raw[s]) \div EraseDivisor
        THEN [io EXCEPT !.raw[s] = SubSeq(@, gone + 1, Len(@)), !.removed[s] = 0]
        ELSE [io EXCEPT !.removed[s] = gone]

Clear(io, s) == [io EXCEPT !.raw[s] = <<>>, !.removed[s] = 0]

AppendRaw(io, s, bytes) == [io EXCEPT !.raw[s] = @ \o bytes]

-----------------------------------------------------------------------------
(* uSockets.  Nothing is taken of a socket that is shut down or closed.    *)

Takes(io, s, room, length) ==
    IF s \in io.fin \cup io.closed THEN 0 ELSE Least(room, length)

KernelWrite(io, s, bytes) == [io EXCEPT !.sent[s] = @ \o bytes]

Shutdown(io, s) ==
    IF s \in io.closed THEN io ELSE [io EXCEPT !.fin = @ \cup {s}]

-----------------------------------------------------------------------------
(* AsyncSocket.  A result is the new state, the number of bytes that       *)
(* count as written and whether the call failed (polling for writable).    *)

Result(io, written, failed) == [io |-> io, written |-> written, failed |-> failed]

CanCork(io) == io.corked = Nil
IsCorked(io, s) == io.corked = s

(* cork() ends the process when another socket has data in the buffer.     *)
CorkAllowed(io, s) == io.cork = <<>> \/ io.corked = s
Cork(io, s) == [io EXCEPT !.corked = s]

UncorkWithoutSending(io, s) ==
    IF IsCorked(io, s) THEN [io EXCEPT !.corked = Nil] ELSE io

(* The part of write() past the backpressure, for a socket that is not     *)
(* corked: a system call, and the rest is buffered unless it is optional.  *)
WriteThrough(io, s, src, room, optionally) ==
    LET n == Takes(io, s, room, Len(src))
        after == KernelWrite(io, s, SubSeq(src, 1, n))
        rest == SubSeq(src, n + 1, Len(src))
    IN  IF src = <<>> THEN Result(io, 0, FALSE)
        ELSE IF n = Len(src) THEN Result(after, n, FALSE)
        ELSE IF optionally THEN Result(after, n, TRUE)
        ELSE Result(AppendRaw(after, s, rest), Len(src), TRUE)

(* write() up to there: the backpressure goes first.  `Then` is the rest   *)
(* of write(), applied to the state and to the room that is left.          *)
FlushFirst(io, s, src, room, optionally, Then(_, _)) ==
    LET n == Takes(io, s, room, Length(io, s))
        after == KernelWrite(io, s, SubSeq(Data(io, s), 1, n))
    IN  IF s \in io.closed THEN Result(io, Len(src), FALSE)
        ELSE IF Length(io, s) = 0 THEN Then(io, room)
        ELSE IF n < Length(io, s)
        THEN IF optionally
             THEN Result(Erase(after, s, n), 0, TRUE)
             ELSE Result(AppendRaw(Erase(after, s, n), s, src), Len(src), TRUE)
        ELSE Then(Clear(after, s), room - n)

(* write() of a socket that is not corked.                                 *)
WriteUncorked(io, s, src, room, optionally) ==
    LET Through(o, r) == WriteThrough(o, s, src, r, optionally)
    IN  FlushFirst(io, s, src, room, optionally, Through)

(* uncork(): the corked data is written, or buffered, before src; when it  *)
(* is not all written src is left alone.                                   *)
Uncork(io, s, src, room, optionally) ==
    LET free == [io EXCEPT !.corked = Nil]
        Rest(first) ==
            LET empty == [first.io EXCEPT !.cork = <<>>]
                used == Len(empty.sent[s]) - Len(io.sent[s])
            IN  IF first.failed THEN Result(empty, 0, TRUE)
                ELSE WriteUncorked(empty, s, src, room - used, optionally)
    IN  IF ~IsCorked(io, s) THEN Result(io, 0, FALSE)
        ELSE IF io.cork = <<>> THEN WriteUncorked(free, s, src, room, optionally)
        ELSE Rest(WriteUncorked(free, s, io.cork, room, FALSE))

(* write()                                                                 *)
Write(io, s, src, room, optionally) ==
    LET Corked(o, r) ==
            IF src = <<>> THEN Result(o, 0, FALSE)
            ELSE IF CorkSize - Len(o.cork) >= Len(src)
            THEN Result([o EXCEPT !.cork = @ \o src], Len(src), FALSE)
            ELSE Uncork(o, s, src, r, optionally)
    IN  IF IsCorked(io, s)
        THEN FlushFirst(io, s, src, room, optionally, Corked)
        ELSE WriteUncorked(io, s, src, room, optionally)

(* getSendBuffer(), with the frame that its caller formats into it, and    *)
(* the attribute it returns.                                               *)
\* Mutant: the cork buffer is used although there is backpressure.
GetSendBufferNoCheck(io, s, frame) ==
    IF /\ IsCorked(io, s) \/ CanCork(io)
       /\ Len(io.cork) + Len(frame) < CorkSize
    THEN [io |-> [Cork(io, s) EXCEPT !.cork = @ \o frame],
          attribute |-> IF IsCorked(io, s) THEN "NEEDS_NOTHING" ELSE "NEEDS_UNCORK"]
    ELSE [io |-> AppendRaw(io, s, frame), attribute |-> "NEEDS_DRAIN"]

\* Mutant: the frame is put in the cork buffer whether it fits or not.
GetSendBufferNoSize(io, s, frame) ==
    IF Length(io, s) = 0 /\ (IsCorked(io, s) \/ CanCork(io))
    THEN [io |-> [Cork(io, s) EXCEPT !.cork = @ \o frame],
          attribute |-> IF IsCorked(io, s) THEN "NEEDS_NOTHING" ELSE "NEEDS_UNCORK"]
    ELSE [io |-> AppendRaw(io, s, frame), attribute |-> "NEEDS_DRAIN"]

GetSendBuffer(io, s, frame) ==
    IF /\ Length(io, s) = 0
       /\ IsCorked(io, s) \/ CanCork(io)
       /\ Len(io.cork) + Len(frame) < CorkSize
    THEN [io |-> [Cork(io, s) EXCEPT !.cork = @ \o frame],
          attribute |-> IF IsCorked(io, s) THEN "NEEDS_NOTHING" ELSE "NEEDS_UNCORK"]
    ELSE IF IsCorked(io, s)
    THEN [io |-> [AppendRaw(io, s, io.cork \o frame) EXCEPT !.cork = <<>>],
          attribute |-> "NEEDS_DRAIN"]
    ELSE [io |-> AppendRaw(io, s, frame), attribute |-> "NEEDS_DRAIN"]

=============================================================================
