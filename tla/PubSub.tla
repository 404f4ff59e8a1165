-------------------------------- MODULE PubSub --------------------------------
(***************************************************************************)
(* What publish/subscribe promises one WebSocket, without topics, palette, *)
(* indices or lists.  Every WebSocket has a mailbox of published messages  *)
(* that it has not been given yet.  A message is put in a mailbox at most  *)
(* once, the mailbox is emptied in order, and what is sent directly is     *)
(* never ahead of what was published before it.  Messages are lost in two  *)
(* ways only: the socket refuses one, and with it the rest of the batch,   *)
(* or the WebSocket goes away.                                             *)
(***************************************************************************)
EXTENDS Naturals, Sequences

CONSTANTS
    Sockets,
    Capacity,     \* messages a mailbox holds before it is emptied
    MaxMessages   \* bound of the model on the number of messages made

VARIABLES mailbox, wire, clock

vars == <<mailbox, wire, clock>>

(* What the WebSocket has been given and will be given, in order.          *)
Stream(s) == wire[s] \o mailbox[s]

Increasing(q) == \A i, j \in 1..Len(q) : i < j => q[i] < q[j]

(* m is later than everything the WebSocket has been given or will be.     *)
Latest(s, m) == \A i \in 1..Len(Stream(s)) : Stream(s)[i] < m

Init ==
    /\ mailbox = [s \in Sockets |-> <<>>]
    /\ wire = [s \in Sockets |-> <<>>]
    /\ clock = 0

(* A new message is made; who is to have it is decided below.              *)
Make ==
    /\ clock < MaxMessages
    /\ clock' = clock + 1
    /\ UNCHANGED <<mailbox, wire>>

Accept(s) ==
    /\ Len(mailbox[s]) < Capacity
    /\ Latest(s, clock)
    /\ mailbox' = [mailbox EXCEPT ![s] = Append(@, clock)]
    /\ UNCHANGED <<wire, clock>>

(* A full mailbox is emptied before it accepts.                            *)
AcceptFull(s, k) ==
    /\ Len(mailbox[s]) = Capacity
    /\ Latest(s, clock)
    /\ k \in 0..Len(mailbox[s])
    /\ wire' = [wire EXCEPT ![s] = @ \o SubSeq(mailbox[s], 1, k)]
    /\ mailbox' = [mailbox EXCEPT ![s] = <<clock>>]
    /\ UNCHANGED clock

(* The socket takes the first k messages of the batch, and refuses the     *)
(* next one if k is not all.                                               *)
Flush(s, k) ==
    /\ k \in 0..Len(mailbox[s])
    /\ wire' = [wire EXCEPT ![s] = @ \o SubSeq(mailbox[s], 1, k)]
    /\ mailbox' = [mailbox EXCEPT ![s] = <<>>]
    /\ UNCHANGED clock

(* A message sent directly, made by this step or by an earlier one.        *)
Direct(s, k) ==
    /\ clock' \in {clock, clock + 1}
    /\ clock' <= MaxMessages
    /\ Latest(s, clock')
    /\ k \in 0..Len(mailbox[s])
    /\ wire' = [wire EXCEPT ![s] = (@ \o SubSeq(mailbox[s], 1, k)) \o <<clock'>>]
    /\ mailbox' = [mailbox EXCEPT ![s] = <<>>]

(* The WebSocket goes away with what is in its mailbox, or a new one       *)
(* takes its name.                                                         *)
Forget(s) ==
    /\ mailbox' = [mailbox EXCEPT ![s] = <<>>]
    /\ UNCHANGED <<wire, clock>>

Renew(s) ==
    /\ mailbox[s] = <<>>
    /\ wire' = [wire EXCEPT ![s] = <<>>]
    /\ UNCHANGED <<mailbox, clock>>

Next ==
    \/ Make
    \/ \E s \in Sockets : Accept(s)
    \/ \E s \in Sockets, k \in 0..Capacity : AcceptFull(s, k)
    \/ \E s \in Sockets, k \in 0..Capacity : Flush(s, k)
    \/ \E s \in Sockets, k \in 0..Capacity : Direct(s, k)
    \/ \E s \in Sockets : Forget(s)
    \/ \E s \in Sockets : Renew(s)

Spec == Init /\ [][Next]_vars

-----------------------------------------------------------------------------
(* Every WebSocket is given the messages meant for it in the order in      *)
(* which publish and send were called, none of them twice: the promise     *)
(* that drain(subscriber) at the head of WebSocket::send is there for.     *)
InOrder == \A s \in Sockets : Increasing(Stream(s))

=============================================================================
