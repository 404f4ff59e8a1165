---------------------------- MODULE TopicTreeProofs ----------------------------
(***************************************************************************)
(* Proofs about TopicTree, for any number of sockets and topics, any       *)
(* capacity of messageIndices and any index width.                         *)
(***************************************************************************)
EXTENDS TopicTree, FiniteSetTheorems, SequenceTheorems, WellFoundedInduction, TLAPS

(* The types hold initially.                                               *)
LEMMA TypeInit == Init => TypeOK
  BY NilAssumption, SizeAssumption DEF Init, TypeOK, Idle, Call, Pointer, Message, Index

(* unlinkDrainableSubscriber leaves a list of pointers.                    *)
LEMMA UnlinkType ==
    ASSUME NEW l \in [head : Pointer, next : [Sockets -> Pointer],
                      prev : [Sockets -> Pointer]],
           NEW s \in Sockets
    PROVE  Unlink(l, s) \in [head : Pointer, next : [Sockets -> Pointer],
                             prev : [Sockets -> Pointer]]
  BY DEF Unlink, Pointer

(* So does the insertion of publish.                                       *)
LEMMA PushHeadType ==
    ASSUME NEW l \in [head : Pointer, next : [Sockets -> Pointer],
                      prev : [Sockets -> Pointer]],
           NEW s \in Sockets
    PROVE  PushHead(l, s) \in [head : Pointer, next : [Sockets -> Pointer],
                               prev : [Sockets -> Pointer]]
  BY DEF PushHead, Pointer


-----------------------------------------------------------------------------
(* The list.  A list that ends and visits exactly P is one whose elements  *)
(* can be ranked so that next leads to the next lower rank in P.           *)

Links == [head : Pointer, next : [Sockets -> Pointer], prev : [Sockets -> Pointer]]

(* P is what a walk along next from c visits; r ranks it.                  *)
Chain(l, c, P, r) ==
    /\ c = Nil <=> P = {}
    /\ c # Nil => c \in P /\ \A q \in P : r[q] <= r[c]
    /\ \A p, q \in P : r[p] = r[q] => p = q
    /\ \A p \in P :
        /\ l.next[p] = Nil => \A q \in P : r[p] <= r[q]
        /\ l.next[p] # Nil =>
             /\ l.next[p] \in P
             /\ r[l.next[p]] < r[p]
             /\ \A q \in P : r[q] < r[p] => r[q] <= r[l.next[p]]

(* The neighbours in P agree, and only the head has no predecessor.        *)
Back(l, P) ==
    /\ l.head # Nil => l.prev[l.head] = Nil
    /\ \A p \in P :
        /\ l.next[p] # Nil => l.prev[l.next[p]] = p
        /\ p # l.head => /\ l.prev[p] \in P
                         /\ l.next[l.prev[p]] = p

WalkOK(l, c, P) == \E r \in [Sockets -> Nat] : Chain(l, c, P, r)
ListOK(l, P) == WalkOK(l, l.head, P) /\ Back(l, P)

(* unlinkDrainableSubscriber takes one element out of the list.            *)
LEMMA ListUnlink ==
    ASSUME NEW l \in Links, NEW P \in SUBSET Sockets, NEW s \in P, ListOK(l, P)
    PROVE  ListOK(Unlink(l, s), P \ {s})
<1> DEFINE u == Unlink(l, s)
<1>1. PICK r \in [Sockets -> Nat] : Chain(l, l.head, P, r)
  BY DEF ListOK, WalkOK
<1>2. Back(l, P)
  BY DEF ListOK
<1>3. u = [head |-> IF l.head = s THEN l.next[s] ELSE l.head,
           next |-> IF l.prev[s] = Nil THEN l.next
                    ELSE [l.next EXCEPT ![l.prev[s]] = l.next[s]],
           prev |-> IF l.next[s] = Nil THEN l.prev
                    ELSE [l.prev EXCEPT ![l.next[s]] = l.prev[s]]]
  BY DEF Unlink
<1>4. /\ l.prev[s] = Nil <=> l.head = s
      /\ l.head # s => l.prev[s] \in P \ {s} /\ l.next[l.prev[s]] = s
      /\ l.next[s] # Nil => l.next[s] \in P \ {s} /\ l.prev[l.next[s]] = s
  BY <1>1, <1>2, NilAssumption DEF Chain, Back, Links, Pointer
<1>5. /\ u.head = (IF l.head = s THEN l.next[s] ELSE l.head)
      /\ \A p \in P \ {s} :
           /\ u.next[p] = (IF l.next[p] = s THEN l.next[s] ELSE l.next[p])
           /\ u.prev[p] = (IF p = l.next[s] THEN l.prev[s] ELSE l.prev[p])
  BY <1>1, <1>2, <1>3, <1>4, NilAssumption DEF Chain, Back, Links, Pointer
<1> HIDE DEF u
<1>6. Chain(u, u.head, P \ {s}, r)
  <2>1. /\ u.head = Nil <=> P \ {s} = {}
        /\ u.head # Nil => u.head \in P \ {s} /\ \A q \in P \ {s} : r[q] <= r[u.head]
    BY <1>1, <1>4, <1>5, NilAssumption DEF Chain, Links, Pointer
  <2>2. ASSUME NEW p \in P \ {s}
        PROVE  /\ u.next[p] = Nil => \A q \in P \ {s} : r[p] <= r[q]
               /\ u.next[p] # Nil =>
                    /\ u.next[p] \in P \ {s}
                    /\ r[u.next[p]] < r[p]
                    /\ \A q \in P \ {s} : r[q] < r[p] => r[q] <= r[u.next[p]]
    BY <1>1, <1>4, <1>5, NilAssumption DEF Chain, Links, Pointer
  <2> QED
    BY <1>1, <2>1, <2>2 DEF Chain
<1>7. Back(u, P \ {s})
  BY <1>1, <1>2, <1>4, <1>5, NilAssumption DEF Chain, Back, Links, Pointer
<1> QED
  BY <1>6, <1>7 DEF ListOK, WalkOK, u

(* Insertion at the head, as publish does it.                              *)
LEMMA ListPush ==
    ASSUME NEW l \in Links, NEW P \in SUBSET Sockets, NEW s \in Sockets,
           s \notin P, ListOK(l, P)
    PROVE  ListOK(PushHead(l, s), P \cup {s})
<1> DEFINE u == PushHead(l, s)
<1>1. PICK r \in [Sockets -> Nat] : Chain(l, l.head, P, r)
  BY DEF ListOK, WalkOK
<1>2. Back(l, P)
  BY DEF ListOK
<1>3. /\ u.head = s /\ u.next[s] = l.head /\ u.prev[s] = Nil
      /\ \A p \in P : /\ u.next[p] = l.next[p]
                      /\ u.prev[p] = (IF p = l.head THEN s ELSE l.prev[p])
  BY <1>1, NilAssumption DEF PushHead, Chain, Links, Pointer
<1> HIDE DEF u
<1> DEFINE top == IF l.head = Nil THEN 0 ELSE r[l.head] + 1
           x == [r EXCEPT ![s] = top]
<1>4. x \in [Sockets -> Nat] /\ x[s] = top /\ \A p \in P : x[p] = r[p] /\ r[p] < top
  BY <1>1, NilAssumption DEF Chain, Links, Pointer
<1>5. Chain(u, u.head, P \cup {s}, x)
  <2> HIDE DEF x
  <2>1. ASSUME NEW p \in P \cup {s}
        PROVE  /\ u.next[p] = Nil => \A q \in P \cup {s} : x[p] <= x[q]
               /\ u.next[p] # Nil =>
                    /\ u.next[p] \in P \cup {s}
                    /\ x[u.next[p]] < x[p]
                    /\ \A q \in P \cup {s} : x[q] < x[p] => x[q] <= x[u.next[p]]
    <3>1. CASE p = s
      BY <1>1, <1>3, <1>4, <3>1, NilAssumption DEF Chain, Links, Pointer
    <3>2. CASE p \in P
      BY <1>1, <1>3, <1>4, <3>2, NilAssumption DEF Chain, Links, Pointer
    <3> QED BY <3>1, <3>2
  <2>2. \A q \in P \cup {s} : x[q] <= x[s]
    BY <1>4
  <2>3. \A p, q \in P \cup {s} : x[p] = x[q] => p = q
    BY <1>1, <1>4 DEF Chain
  <2> QED
    BY <1>3, <2>1, <2>2, <2>3, NilAssumption DEF Chain
<1>6. Back(u, P \cup {s})
  BY <1>1, <1>2, <1>3, NilAssumption DEF Chain, Back, Links, Pointer
<1> QED
  BY <1>4, <1>5, <1>6 DEF ListOK, WalkOK, u

(* The list does not depend on the pointers of those outside it.           *)
LEMMA ListGarbage ==
    ASSUME NEW l \in Links, NEW P \in SUBSET Sockets, NEW s \in Sockets,
           s \notin P, ListOK(l, P), NEW p \in Pointer, NEW n \in Pointer
    PROVE  ListOK([l EXCEPT !.prev[s] = p, !.next[s] = n], P)
<1> DEFINE u == [l EXCEPT !.prev[s] = p, !.next[s] = n]
<1>1. PICK r \in [Sockets -> Nat] : Chain(l, l.head, P, r)
  BY DEF ListOK, WalkOK
<1>2. u.head = l.head /\ \A q \in P : u.next[q] = l.next[q] /\ u.prev[q] = l.prev[q]
  BY DEF Links
<1> HIDE DEF u
<1>3. Chain(u, u.head, P, r)
  BY <1>1, <1>2 DEF Chain
<1>4. Back(u, P)
  BY <1>1, <1>2, NilAssumption DEF ListOK, Back, Chain, Links, Pointer
<1> QED
  BY <1>3, <1>4 DEF ListOK, WalkOK, u

(* One iteration of drain(): the rest of the walk is the rest of the list. *)
LEMMA WalkStep ==
    ASSUME NEW l \in Links, NEW P \in SUBSET Sockets, NEW c \in P, WalkOK(l, c, P)
    PROVE  WalkOK(l, l.next[c], P \ {c})
<1>1. PICK r \in [Sockets -> Nat] : Chain(l, c, P, r)
  BY DEF WalkOK
<1>2. Chain(l, l.next[c], P \ {c}, r)
  BY <1>1, NilAssumption DEF Chain, Links, Pointer
<1> QED
  BY <1>2 DEF WalkOK

(* The walk that stands at nullptr has visited everybody.                  *)
LEMMA WalkEnd ==
    ASSUME NEW l, NEW P \in SUBSET Sockets, WalkOK(l, Nil, P)
    PROVE  P = {}
  BY DEF WalkOK, Chain

-----------------------------------------------------------------------------
(* The inductive invariant.                                                *)

(* Between calls the list is whole; during drain() what remains of it is   *)
(* the walk from the loop variable, and prev is not looked at.             *)
ListInv ==
    /\ call.pc # "drain" => ListOK(list, Pending)
    /\ call.pc = "drain" => WalkOK(list, call.cursor, Pending)

(* Whatever the palette's size, an index is below it, or it is the index   *)
(* of the message being published and the loop has passed s.               *)
InRange(s, i) ==
    \/ messageIndices[s][i] < Len(outgoing)
    \/ /\ messageIndices[s][i] = Len(outgoing)
       /\ call.pc = "publish" /\ call.referenced /\ s \notin call.todo

IndexInv ==
    \A s \in Sockets :
        /\ Len(queued[s]) = Len(messageIndices[s])
        /\ \A i \in 1..Len(messageIndices[s]) :
            /\ InRange(s, i)
            /\ ~Overrun => Denotes(s, i)

(* A call works on subscribers that exist and on a message that was made.  *)
CallInv ==
    /\ call.todo \subseteq subscribers
    /\ call.pc \in {"publish", "drain"} /\ call.todo # {} => call.referenced
    /\ call.pc \in {"publish", "big"} \/ call.resume = "publish" => clock > 0

(* No pending subscriber has been deleted.                                 *)
AliveInv == Pending \subseteq subscribers

IInv == TypeOK /\ TopicsConsistent /\ AliveInv /\ ListInv /\ IndexInv /\ CallInv

-----------------------------------------------------------------------------
(* What drain(s) does, as PublishToFull, SendTo and End use it.            *)

(* A drained subscriber is not pending any more.                           *)
LEMMA PendingWithout ==
    ASSUME NEW s \in Sockets, TypeOK,
           messageIndices' = [messageIndices EXCEPT ![s] = <<>>]
    PROVE  Pending' = Pending \ {s}
  BY DEF TypeOK, Pending, NeedsDrainage

(* drain(s) takes s out of a whole list and leaves it whole; it empties    *)
(* the palette only when nobody else is pending.                           *)
LEMMA DrainedList ==
    ASSUME NEW s \in Sockets, TypeOK, ListOK(list, Pending)
    PROVE  /\ ListAfterDrain(s) \in Links
           /\ ListOK(ListAfterDrain(s), Pending \ {s})
           /\ \/ PaletteAfterDrain(s) = outgoing
              \/ PaletteAfterDrain(s) = <<>> /\ Pending \ {s} = {}
<1>1. list \in Links /\ Pending \in SUBSET Sockets
  BY DEF TypeOK, Links, Pending
<1>2. CASE NeedsDrainage(s)
  <2>1. s \in Pending /\ ListAfterDrain(s) = Unlink(list, s)
    BY <1>2 DEF ListAfterDrain, Pending
  <2>2. Unlink(list, s) \in Links
    BY <1>1, UnlinkType DEF Links
  <2>3. ListOK(Unlink(list, s), Pending \ {s})
    BY <1>1, <2>1, ListUnlink
  <2>4. ListAfterDrain(s).head = Nil => Pending \ {s} = {}
    BY <2>1, <2>3 DEF ListOK, WalkOK, Chain
  <2> QED
    BY <1>2, <2>1, <2>2, <2>3, <2>4 DEF PaletteAfterDrain
<1>3. CASE ~NeedsDrainage(s)
  BY <1>1, <1>3 DEF ListAfterDrain, PaletteAfterDrain, Pending
<1> QED
  BY <1>2, <1>3

(* drainImpl reads the palette within its bounds.                          *)
LEMMA EmittedType ==
    ASSUME NEW s \in Sockets, TypeOK, IndexInv,
           call.pc # "publish" \/ s \in call.todo,
           NEW k \in 0..Len(messageIndices[s])
    PROVE  Emitted(s, k) \in Seq(Message)
<1>1. \A i \in 1..k : /\ messageIndices[s][i] + 1 \in 1..Len(outgoing)
                      /\ outgoing[messageIndices[s][i] + 1] \in Message
  <2> SUFFICES ASSUME NEW i \in 1..k
               PROVE  /\ messageIndices[s][i] + 1 \in 1..Len(outgoing)
                      /\ outgoing[messageIndices[s][i] + 1] \in Message
    OBVIOUS
  <2>1. messageIndices[s] \in Seq(Index) /\ outgoing \in Seq(Message)
    BY DEF TypeOK
  <2>2. i \in 1..Len(messageIndices[s])
    BY <2>1
  <2>3. messageIndices[s][i] \in Nat
    BY <2>1, <2>2, SizeAssumption DEF Index
  <2>4. messageIndices[s][i] < Len(outgoing)
    BY <2>2 DEF IndexInv, InRange
  <2>5. messageIndices[s][i] + 1 \in 1..Len(outgoing)
    BY <2>1, <2>3, <2>4
  <2> QED
    BY <2>1, <2>5
<1> QED
  BY <1>1 DEF Emitted

(* The conjuncts about indices, when the palette is as it was or nobody    *)
(* refers to it any more.                                                  *)
LEMMA IndexAfterDrain ==
    ASSUME NEW s \in Sockets, TypeOK, IndexInv, call' = call,
           call.pc # "publish",
           messageIndices' = [messageIndices EXCEPT ![s] = <<>>],
           queued' = [queued EXCEPT ![s] = <<>>],
           \/ outgoing' = outgoing
           \/ outgoing' = <<>> /\ Pending \ {s} = {}
    PROVE  IndexInv'
<1>1. CASE outgoing' = outgoing
  BY <1>1 DEF TypeOK, IndexInv, InRange, Denotes, Overrun
<1>2. CASE outgoing' = <<>> /\ Pending \ {s} = {}
  <2>1. \A q \in Sockets : messageIndices'[q] = <<>>
    BY <1>2 DEF TypeOK, Pending, NeedsDrainage
  <2> QED
    BY <2>1 DEF TypeOK, IndexInv, Pending, NeedsDrainage
<1> QED
  BY <1>1, <1>2

-----------------------------------------------------------------------------
(* One lemma per action.                                                   *)

(* A new connection keeps the invariant.                                   *)
LEMMA StepOpen == ASSUME IInv, NEW s \in Sockets, Open(s) PROVE IInv'
<1>1. TypeOK'
  BY DEF IInv, TypeOK, Open
<1>2. TopicsConsistent'
  BY DEF IInv, TopicsConsistent, Open
<1>3. AliveInv' /\ ListInv' /\ IndexInv' /\ CallInv'
  BY DEF IInv, Open, AliveInv, ListInv, IndexInv, CallInv, Pending, NeedsDrainage,
         InRange, Denotes, Overrun
<1> QED BY <1>1, <1>2, <1>3 DEF IInv

(* subscribe does, although prev and next of a new Subscriber are          *)
(* garbage: it is not in the list.                                         *)
LEMMA StepSubscribe ==
    ASSUME IInv, NEW s \in Sockets, NEW t \in Topics, Subscribe(s, t)
    PROVE  IInv'
<1>1. list' \in Links /\ (call.pc # "drain" => ListOK(list', Pending))
  <2>1. CASE s \in subscribers /\ list' = list
    BY <2>1 DEF IInv, TypeOK, Links, ListInv
  <2>2. CASE s \notin subscribers
    <3>1. PICK p \in Garbage, n \in Garbage :
             list' = [list EXCEPT !.prev[s] = p, !.next[s] = n]
      BY <2>2 DEF Subscribe
    <3>2. p \in Pointer /\ n \in Pointer
      BY GarbageAssumption DEF Pointer
    <3>3. list \in Links /\ Pending \in SUBSET Sockets /\ s \notin Pending
      BY <2>2 DEF IInv, TypeOK, Links, Pending, AliveInv
    <3>4. list' \in Links
      <4>1. /\ list.prev \in [Sockets -> Pointer] /\ list.next \in [Sockets -> Pointer]
            /\ list.head \in Pointer
        BY <3>3 DEF Links
      <4>2. list' = [head |-> list.head, next |-> [list.next EXCEPT ![s] = n],
                     prev |-> [list.prev EXCEPT ![s] = p]]
        BY <3>1, <3>3 DEF Links
      <4> QED BY <3>2, <4>1, <4>2 DEF Links
    <3> QED
      BY <2>2, <3>1, <3>2, <3>3, <3>4, ListGarbage DEF IInv, ListInv
  <2> QED BY <2>1, <2>2 DEF Subscribe
<1>2. TypeOK'
  BY <1>1 DEF IInv, TypeOK, Subscribe, Links
<1>3. TopicsConsistent'
  <2>1. /\ \A q \in Sockets : subs'[q] = IF q = s THEN subs[q] \cup {t} ELSE subs[q]
        /\ DOMAIN topics' = DOMAIN topics \cup {t}
        /\ \A u \in DOMAIN topics : u # t => topics'[u] = topics[u]
        /\ t \in DOMAIN topics => topics'[t] = topics[t] \cup {s}
        /\ t \notin DOMAIN topics => topics'[t] = {s}
        /\ subscribers' = subscribers \cup {s}
    BY DEF IInv, TypeOK, Subscribe
  <2>2. ASSUME NEW u \in DOMAIN topics'
        PROVE  topics'[u] # {} /\ topics'[u] = {q \in Sockets : u \in subs'[q]}
    <3>1. CASE u # t
      <4>1. u \in DOMAIN topics /\ topics'[u] = topics[u]
        BY <2>1, <3>1
      <4>2. \A q \in Sockets : u \in subs'[q] <=> u \in subs[q]
        BY <2>1, <3>1
      <4>3. topics[u] # {} /\ topics[u] = {q \in Sockets : u \in subs[q]}
        BY <4>1 DEF IInv, TopicsConsistent
      <4> QED BY <4>1, <4>2, <4>3
    <3>2. CASE u = t /\ t \in DOMAIN topics
      <4>1. topics[t] = {q \in Sockets : t \in subs[q]}
        BY <3>2 DEF IInv, TopicsConsistent
      <4>2. topics'[t] = topics[t] \cup {s}
        BY <2>1, <3>2
      <4>3. \A q \in Sockets : t \in subs'[q] <=> t \in subs[q] \/ q = s
        BY <2>1
      <4> QED BY <3>2, <4>1, <4>2, <4>3
    <3>3. CASE u = t /\ t \notin DOMAIN topics
      <4>1. \A q \in Sockets : t \notin subs[q]
        BY <3>3 DEF IInv, TopicsConsistent
      <4> QED BY <2>1, <3>3, <4>1
    <3> QED BY <3>1, <3>2, <3>3
  <2>3. ASSUME NEW q \in Sockets
        PROVE  subs'[q] \subseteq DOMAIN topics' /\ (subs'[q] # {} => q \in subscribers')
    BY <2>1 DEF IInv, TopicsConsistent
  <2> QED BY <2>2, <2>3 DEF TopicsConsistent
<1>4. ListInv'
  BY <1>1 DEF IInv, Subscribe, ListInv, Pending, NeedsDrainage, Idle
<1>5. AliveInv'
  BY DEF IInv, Subscribe, AliveInv, Pending, NeedsDrainage
<1>6. IndexInv'
  BY DEF IInv, Subscribe, IndexInv, InRange, Denotes, Overrun
<1>7. CallInv'
  BY DEF IInv, Subscribe, CallInv
<1> QED BY <1>2, <1>3, <1>4, <1>5, <1>6, <1>7 DEF IInv

(* unsubscribe keeps both sides of a subscription.                         *)
LEMMA StepUnsubscribe ==
    ASSUME IInv, NEW s \in Sockets, NEW t \in Topics, Unsubscribe(s, t)
    PROVE  IInv'
<1>1. TypeOK'
  BY DEF IInv, TypeOK, Unsubscribe
<1>2. TopicsConsistent'
  BY DEF IInv, TypeOK, TopicsConsistent, Unsubscribe
<1>3. AliveInv' /\ ListInv' /\ IndexInv' /\ CallInv'
  BY DEF IInv, Unsubscribe, AliveInv, ListInv, IndexInv, CallInv, Pending,
         NeedsDrainage, InRange, Denotes, Overrun
<1> QED BY <1>1, <1>2, <1>3 DEF IInv

(* publish up to its loop, with or without draining a full palette.        *)
LEMMA StepPublish ==
    ASSUME IInv, NEW sender \in Pointer, NEW t \in Topics, Publish(sender, t)
    PROVE  IInv'
<1>1. topics[t] \ {sender} \in SUBSET Sockets /\ list.head \in Pointer
  BY DEF IInv, TypeOK, Publish
<1>2. call' \in Call
  BY <1>1 DEF Publish, Call, Pointer
<1>3. TypeOK' /\ TopicsConsistent' /\ clock' > 0
  <2>1. clock' \in 0..MaxMessages /\ clock' > 0
    BY SizeAssumption DEF IInv, TypeOK, Publish
  <2>2. TypeOK'
    BY <1>2, <2>1 DEF IInv, TypeOK, Publish
  <2>3. TopicsConsistent'
    BY DEF IInv, TopicsConsistent, Publish
  <2> QED BY <2>1, <2>2, <2>3
<1>4. call.pc = "idle" /\ ListOK(list, Pending)
  BY DEF IInv, Publish, Idle, ListInv
<1>5. ListInv' /\ AliveInv'
  BY <1>4 DEF IInv, Publish, AliveInv, ListInv, ListOK, Pending, NeedsDrainage
<1>6. IndexInv'
  BY <1>4 DEF IInv, Publish, IndexInv, InRange, Denotes, Overrun
<1>7. topics[t] \subseteq subscribers
  BY DEF IInv, TopicsConsistent, Publish
<1>8. CallInv'
  BY <1>3, <1>7 DEF Publish, CallInv
<1> QED BY <1>3, <1>5, <1>6, <1>8 DEF IInv

(* Facts about the index that publish writes.                              *)
LEMMA NextIndexFacts ==
    ASSUME NEW q \in Seq(Message)
    PROVE  /\ NextIndex(q) \in Index
           /\ NextIndex(q) < Len(q) \/ NextIndex(q) = Len(q)
           /\ Len(q) <= PaletteMax => NextIndex(q) = Len(q)
<1>1. Len(q) \in Nat
  OBVIOUS
<1> QED
  BY <1>1, SizeAssumption DEF NextIndex, Index

(* One iteration for a subscriber with room: a new head, a new index.      *)
LEMMA StepPublishTo ==
    ASSUME IInv, NEW s \in Sockets, PublishTo(s) PROVE IInv'
<1>1. /\ NextIndex(outgoing) \in Index
      /\ NextIndex(outgoing) < Len(outgoing) \/ NextIndex(outgoing) = Len(outgoing)
      /\ ~Overrun => NextIndex(outgoing) = Len(outgoing)
  <2>1. outgoing \in Seq(Message) /\ (~Overrun <=> Len(outgoing) <= PaletteMax)
    BY SizeAssumption DEF IInv, TypeOK, Overrun
  <2> QED BY <2>1, NextIndexFacts
<1>2. clock \in Message
  BY SizeAssumption DEF IInv, TypeOK, CallInv, PublishTo, Message
<1>3. list' \in Links /\ ListOK(list', Pending')
  <2>1. Pending' = Pending \cup {s} /\ Pending \in SUBSET Sockets
    <3>1. /\ messageIndices'[s] = Append(messageIndices[s], NextIndex(outgoing))
          /\ messageIndices[s] \in Seq(Index)
          /\ \A q \in Sockets \ {s} : messageIndices'[q] = messageIndices[q]
      BY DEF IInv, TypeOK, PublishTo
    <3>2. messageIndices'[s] # <<>>
      BY <1>1, <3>1
    <3> QED BY <3>1, <3>2 DEF Pending, NeedsDrainage
  <2>2. list \in Links /\ ListOK(list, Pending)
    BY DEF IInv, TypeOK, Links, ListInv, PublishTo
  <2>3. CASE s \in Pending
    BY <2>1, <2>2, <2>3 DEF PublishTo, Pending
  <2>4. CASE s \notin Pending
    <3>1. list' = PushHead(list, s)
      BY <2>4 DEF PublishTo, Pending
    <3> QED
      BY <2>1, <2>2, <2>4, <3>1, ListPush, PushHeadType DEF Links
  <2> QED BY <2>3, <2>4
<1>4. TypeOK'
  <2>1. /\ messageIndices' \in [Sockets -> Seq(Index)]
        /\ queued' \in [Sockets -> Seq(Message)]
        /\ \A q \in Sockets : Len(messageIndices'[q]) <= MaxIndices
    BY <1>1, <1>2, SizeAssumption DEF IInv, TypeOK, PublishTo
  <2>2. call' \in Call
    BY DEF IInv, TypeOK, PublishTo, Call
  <2> QED
    BY <1>3, <2>1, <2>2 DEF IInv, TypeOK, PublishTo, Links
<1>5. TopicsConsistent'
  BY DEF IInv, TopicsConsistent, PublishTo
<1>6. AliveInv' /\ CallInv'
  BY DEF IInv, TypeOK, AliveInv, Pending, NeedsDrainage, CallInv, Call, PublishTo
<1>7. ListInv'
  BY <1>3 DEF PublishTo, ListInv, IInv, TypeOK, Call
<1>8. IndexInv'
  <2>1. /\ call'.pc = "publish" /\ call'.referenced = call.referenced
        /\ call.referenced
        /\ call'.todo = call.todo \ {s}
        /\ outgoing' = outgoing /\ clock' = clock
    BY DEF IInv, TypeOK, CallInv, PublishTo, Call
  <2>2. ASSUME NEW q \in Sockets, q # s
        PROVE  /\ Len(queued'[q]) = Len(messageIndices'[q])
               /\ \A i \in 1..Len(messageIndices'[q]) :
                     InRange(q, i)' /\ (~Overrun' => Denotes(q, i)')
    BY <2>1, <2>2 DEF IInv, TypeOK, IndexInv, PublishTo, InRange, Denotes, Overrun
  <2>3. /\ Len(queued'[s]) = Len(messageIndices'[s])
        /\ \A i \in 1..Len(messageIndices'[s]) :
                     InRange(s, i)' /\ (~Overrun' => Denotes(s, i)')
    <3>1. /\ messageIndices'[s] = Append(messageIndices[s], NextIndex(outgoing))
          /\ queued'[s] = Append(queued[s], clock)
          /\ messageIndices[s] \in Seq(Index) /\ queued[s] \in Seq(Message)
          /\ Len(queued[s]) = Len(messageIndices[s])
      BY DEF IInv, TypeOK, PublishTo, IndexInv
    <3>2. ASSUME NEW i \in 1..Len(messageIndices[s])
          PROVE InRange(s, i)' /\ (~Overrun' => Denotes(s, i)')
      <4>1. messageIndices'[s][i] = messageIndices[s][i] /\ queued'[s][i] = queued[s][i]
        BY <3>1
      <4>2. InRange(s, i) /\ (~Overrun => Denotes(s, i))
        BY DEF IInv, IndexInv
      <4> QED BY <2>1, <4>1, <4>2 DEF InRange, Denotes, Overrun, PublishTo
    <3>3. ASSUME NEW i, i = Len(messageIndices[s]) + 1
          PROVE InRange(s, i)' /\ (~Overrun' => Denotes(s, i)')
      <4>1. messageIndices'[s][i] = NextIndex(outgoing) /\ queued'[s][i] = clock
        BY <3>1, <3>3
      <4> QED BY <1>1, <2>1, <4>1 DEF InRange, Denotes, Overrun
    <3> QED BY <3>1, <3>2, <3>3
  <2> QED BY <2>2, <2>3 DEF IndexInv
<1> QED BY <1>4, <1>5, <1>6, <1>7, <1>8 DEF IInv

(* One iteration for a full subscriber: it leaves the list and comes       *)
(* back as its head, perhaps with a palette emptied in between.            *)
LEMMA StepPublishToFull ==
    ASSUME IInv, NEW s \in Sockets, NEW k \in 0..MaxIndices, PublishToFull(s, k)
    PROVE  IInv'
<1>1. /\ call.pc = "publish" /\ s \in call.todo /\ ListOK(list, Pending)
      /\ TypeOK /\ IndexInv /\ clock \in Message /\ call.referenced
  BY SizeAssumption DEF IInv, ListInv, PublishToFull, TypeOK, CallInv, Message
<1>2. /\ ListAfterDrain(s) \in Links
      /\ ListOK(ListAfterDrain(s), Pending \ {s})
      /\ outgoing' = outgoing \/ (outgoing' = <<>> /\ Pending \ {s} = {})
  BY <1>1, DrainedList DEF PublishToFull
<1>3. outgoing' \in Seq(Message) /\ Len(outgoing') \in Nat
  <2>1. outgoing \in Seq(Message)
    BY <1>1 DEF TypeOK
  <2>2. <<>> \in Seq(Message)
    OBVIOUS
  <2>3. outgoing' \in Seq(Message)
    BY <1>2, <2>1, <2>2
  <2> QED BY <2>3
<1>4. /\ NextIndex(outgoing') \in Index
      /\ NextIndex(outgoing') < Len(outgoing') \/ NextIndex(outgoing') = Len(outgoing')
      /\ ~Overrun' => NextIndex(outgoing') = Len(outgoing')
  <2>1. ~Overrun' <=> Len(outgoing') <= PaletteMax
    BY <1>3, SizeAssumption DEF Overrun
  <2> QED BY <1>3, <2>1, NextIndexFacts
<1>5. /\ messageIndices'[s] = <<NextIndex(outgoing')>>
      /\ queued'[s] = <<clock>>
      /\ \A q \in Sockets \ {s} : /\ messageIndices'[q] = messageIndices[q]
                                  /\ queued'[q] = queued[q]
      /\ messageIndices' \in [Sockets -> Seq(Index)]
      /\ queued' \in [Sockets -> Seq(Message)]
  BY <1>1, <1>4 DEF TypeOK, PublishToFull
<1>6. Pending' = (Pending \ {s}) \cup {s} /\ Pending \ {s} \in SUBSET Sockets
  <2>1. messageIndices'[s] # <<>>
    BY <1>5
  <2> QED BY <1>5, <2>1 DEF Pending, NeedsDrainage
<1>7. list' \in Links /\ ListOK(list', Pending')
  BY <1>2, <1>6, ListPush, PushHeadType DEF Links, PublishToFull
<1>8. TypeOK'
  <2>1. wire' \in [Sockets -> Seq(Message)]
    <3>1. Emitted(s, k) \in Seq(Message)
      BY <1>1, EmittedType DEF PublishToFull
    <3> QED BY <1>1, <3>1 DEF TypeOK, PublishToFull
  <2>2. \A q \in Sockets : Len(messageIndices'[q]) <= MaxIndices
    <3>1. Len(messageIndices'[s]) <= MaxIndices
      BY <1>5, SizeAssumption
    <3> QED BY <1>1, <1>5, <3>1 DEF TypeOK
  <2>3. call' \in Call
    BY <1>1 DEF TypeOK, PublishToFull, Call
  <2> QED
    BY <1>1, <1>3, <1>5, <1>7, <2>1, <2>2, <2>3 DEF TypeOK, PublishToFull, Links
<1>9. TopicsConsistent'
  BY DEF IInv, TopicsConsistent, PublishToFull
<1>10. AliveInv' /\ CallInv'
  BY <1>6 DEF IInv, TypeOK, AliveInv, CallInv, Call, PublishToFull
<1>11. ListInv'
  BY <1>1, <1>7 DEF PublishToFull, ListInv, TypeOK, Call
<1>12. IndexInv'
  <2>1. /\ call'.pc = "publish" /\ call'.referenced /\ clock' = clock
        /\ call'.todo = call.todo \ {s}
    BY <1>1 DEF TypeOK, PublishToFull, Call
  <2>2. ASSUME NEW q \in Sockets, q # s
        PROVE  /\ Len(queued'[q]) = Len(messageIndices'[q])
               /\ \A i \in 1..Len(messageIndices'[q]) :
                     InRange(q, i)' /\ (~Overrun' => Denotes(q, i)')
    <3>1. CASE outgoing' = outgoing
      BY <1>1, <1>5, <2>1, <2>2, <3>1 DEF IndexInv, InRange, Denotes, Overrun
    <3>2. CASE Pending \ {s} = {}
      <4>1. messageIndices[q] = <<>>
        BY <2>2, <3>2 DEF Pending, NeedsDrainage
      <4>2. Len(messageIndices'[q]) = 0 /\ queued'[q] = queued[q]
        BY <1>5, <2>2, <4>1
      <4>3. Len(queued[q]) = 0
        BY <1>1, <4>1 DEF IndexInv
      <4> QED BY <4>2, <4>3
    <3> QED BY <1>2, <3>1, <3>2
  <2>3. /\ Len(queued'[s]) = Len(messageIndices'[s])
        /\ \A i \in 1..Len(messageIndices'[s]) :
                     InRange(s, i)' /\ (~Overrun' => Denotes(s, i)')
    BY <1>4, <1>5, <2>1 DEF InRange, Denotes
  <2> QED BY <2>2, <2>3 DEF IndexInv
<1> QED BY <1>8, <1>9, <1>10, <1>11, <1>12 DEF IInv

(* The message joins the palette at the index that was handed out.         *)
LEMMA StepPublishReturn == ASSUME IInv, PublishReturn PROVE IInv'
<1>1. TypeOK /\ IndexInv /\ call.pc = "publish" /\ ListOK(list, Pending)
  BY DEF IInv, PublishReturn, ListInv
<1>2. clock \in Message
  BY <1>1, SizeAssumption DEF IInv, TypeOK, CallInv, Message
<1>3. outgoing' \in Seq(Message) /\ call' \in Call
  BY <1>1, <1>2 DEF TypeOK, PublishReturn, Idle, Call, Pointer
<1>4. TypeOK'
  BY <1>1, <1>3 DEF TypeOK, PublishReturn
<1>5. TopicsConsistent' /\ AliveInv' /\ CallInv' /\ ListInv'
  BY <1>1 DEF IInv, TopicsConsistent, AliveInv, CallInv, ListInv, Pending,
              NeedsDrainage, PublishReturn, Idle
<1>6. IndexInv'
  <2> SUFFICES ASSUME NEW q \in Sockets, NEW i \in 1..Len(messageIndices[q])
               PROVE  InRange(q, i)' /\ (~Overrun' => Denotes(q, i)')
    BY <1>1 DEF IndexInv, PublishReturn
  <2>1. InRange(q, i) /\ (~Overrun => Denotes(q, i))
    BY <1>1 DEF IndexInv
  <2>2. messageIndices[q][i] \in Nat /\ Len(outgoing) \in Nat
    BY <1>1, SizeAssumption DEF TypeOK, Index
  <2>3. CASE call.referenced
    <3>1. /\ outgoing' = Append(outgoing, clock) /\ outgoing \in Seq(Message)
          /\ Len(outgoing') = Len(outgoing) + 1
          /\ outgoing'[Len(outgoing) + 1] = clock
          /\ \A j \in 1..Len(outgoing) : outgoing'[j] = outgoing[j]
      BY <1>1, <2>3 DEF PublishReturn, TypeOK
    <3>2. ~Overrun' => ~Overrun
      BY <2>2, <3>1, SizeAssumption DEF Overrun
    <3> QED BY <2>1, <2>2, <3>1, <3>2 DEF InRange, Denotes, PublishReturn
  <2>4. CASE ~call.referenced
    BY <2>1, <2>4 DEF InRange, Denotes, Overrun, PublishReturn
  <2> QED BY <2>3, <2>4
<1> QED BY <1>4, <1>5, <1>6 DEF IInv

(* WebSocket::send past the limit check, for Send and PublishBigTo.        *)
LEMMA SendToFacts ==
    ASSUME IInv, NEW s \in Sockets, NEW k, SendTo(s, k),
           call.pc # "publish", call.pc # "drain", clock' \in Message
    PROVE  /\ wire' \in [Sockets -> Seq(Message)]
           /\ messageIndices' \in [Sockets -> Seq(Index)]
           /\ \A q \in Sockets : Len(messageIndices'[q]) <= MaxIndices
           /\ queued' \in [Sockets -> Seq(Message)]
           /\ list' \in Links /\ outgoing' \in Seq(Message)
           /\ Pending' = Pending \ {s} /\ ListOK(list', Pending')
           /\ outgoing' = outgoing \/ (outgoing' = <<>> /\ Pending \ {s} = {})
<1>1. TypeOK /\ IndexInv /\ ListOK(list, Pending)
  BY DEF IInv, ListInv
<1>2. Pending' = Pending \ {s}
  BY <1>1, PendingWithout DEF SendTo
<1>3. /\ list' \in Links /\ ListOK(list', Pending \ {s})
      /\ outgoing' = outgoing \/ (outgoing' = <<>> /\ Pending \ {s} = {})
  BY <1>1, DrainedList DEF SendTo
<1>4. wire' \in [Sockets -> Seq(Message)]
  <2>1. Emitted(s, k) \in Seq(Message)
    BY <1>1, EmittedType DEF SendTo
  <2> QED BY <1>1, <2>1 DEF TypeOK, SendTo
<1>5. /\ messageIndices' \in [Sockets -> Seq(Index)]
      /\ queued' \in [Sockets -> Seq(Message)]
      /\ \A q \in Sockets : Len(messageIndices'[q]) <= MaxIndices
  BY <1>1, SizeAssumption DEF TypeOK, SendTo
<1>6. outgoing' \in Seq(Message)
  <2>1. outgoing \in Seq(Message)
    BY <1>1 DEF TypeOK
  <2>2. <<>> \in Seq(Message)
    OBVIOUS
  <2> QED BY <1>3, <2>1, <2>2
<1> QED BY <1>2, <1>3, <1>4, <1>5, <1>6

(* send drains its own subscriber.                                         *)
LEMMA StepSend ==
    ASSUME IInv, NEW s \in Sockets, NEW k \in 0..MaxIndices, Send(s, k) PROVE IInv'
<1>1. /\ TypeOK /\ IndexInv /\ call.pc = "idle" /\ call' = call
      /\ SendTo(s, k) /\ clock' \in Message /\ clock' \in 0..MaxMessages
  BY SizeAssumption DEF IInv, TypeOK, Send, Idle, Message
<1>2. TypeOK'
  BY <1>1, SendToFacts DEF TypeOK, Send, Links
<1>3. ListInv' /\ AliveInv'
  BY <1>1, SendToFacts DEF IInv, ListInv, AliveInv, Send
<1>4. TopicsConsistent' /\ CallInv'
  BY <1>1, SizeAssumption DEF IInv, TopicsConsistent, CallInv, Send, Message, Idle
<1>5. IndexInv'
  BY <1>1, SendToFacts, IndexAfterDrain DEF SendTo
<1> QED BY <1>2, <1>3, <1>4, <1>5 DEF IInv

(* publishBig up to its loop.                                              *)
LEMMA StepPublishBig ==
    ASSUME IInv, NEW sender \in Pointer, NEW t \in Topics, PublishBig(sender, t)
    PROVE  IInv'
<1>1. topics[t] \ {sender} \in SUBSET Sockets /\ topics[t] \subseteq subscribers
  BY DEF IInv, TypeOK, TopicsConsistent, PublishBig
<1>2. /\ call' \in Call /\ call'.pc = "big" /\ call'.resume = "idle"
      /\ call'.todo = topics[t] \ {sender}
  BY <1>1 DEF PublishBig, Call, Pointer, Idle
<1>3. clock' \in 0..MaxMessages /\ clock' > 0
  BY SizeAssumption DEF IInv, TypeOK, PublishBig
<1>4. TypeOK'
  BY <1>2, <1>3 DEF IInv, TypeOK, PublishBig
<1>5. call.pc = "idle" /\ ListOK(list, Pending)
  BY DEF IInv, PublishBig, Idle, ListInv
<1>6. ListInv' /\ AliveInv' /\ TopicsConsistent'
  BY <1>2, <1>5 DEF IInv, TopicsConsistent, PublishBig, AliveInv, ListInv, Pending,
                    NeedsDrainage
<1>7. IndexInv'
  BY <1>2, <1>5 DEF IInv, PublishBig, IndexInv, InRange, Denotes, Overrun
<1>8. CallInv'
  BY <1>1, <1>2, <1>3 DEF PublishBig, CallInv
<1> QED BY <1>4, <1>6, <1>7, <1>8 DEF IInv

(* The loop of publishBig passes s: only `todo` changes.                   *)
LEMMA BigVisited ==
    ASSUME TypeOK, NEW s \in Sockets, call.pc = "big",
           call' = [call EXCEPT !.todo = @ \ {s}]
    PROVE  /\ call' \in Call /\ call'.pc = "big" /\ call'.resume = call.resume
           /\ call'.todo = call.todo \ {s}
  BY DEF TypeOK, Call

(* One iteration of publishBig is a send.                                  *)
LEMMA StepPublishBigTo ==
    ASSUME IInv, NEW s \in Sockets, NEW k \in 0..MaxIndices, PublishBigTo(s, k)
    PROVE  IInv'
<1>1. /\ TypeOK /\ IndexInv /\ call.pc = "big" /\ SendTo(s, k)
      /\ clock' = clock /\ clock' \in Message
  BY SizeAssumption DEF IInv, TypeOK, CallInv, PublishBigTo, Message
<1>2. /\ call' \in Call /\ call'.pc = "big" /\ call'.resume = call.resume
      /\ call'.todo = call.todo \ {s}
  BY <1>1, BigVisited DEF PublishBigTo
<1>3. TypeOK'
  BY <1>1, <1>2, SendToFacts DEF TypeOK, PublishBigTo, Links
<1>4. ListInv' /\ AliveInv'
  BY <1>1, <1>2, SendToFacts DEF IInv, ListInv, AliveInv, PublishBigTo
<1>5. TopicsConsistent' /\ CallInv'
  BY <1>1, <1>2 DEF IInv, TopicsConsistent, CallInv, PublishBigTo
<1>6. IndexInv'
  <2>1. outgoing' = outgoing \/ (outgoing' = <<>> /\ Pending \ {s} = {})
    BY <1>1, SendToFacts
  <2>2. CASE outgoing' = outgoing
    BY <1>1, <1>2, <2>2 DEF TypeOK, IndexInv, InRange, Denotes, Overrun, SendTo
  <2>3. CASE Pending \ {s} = {}
    <3>1. \A q \in Sockets : messageIndices'[q] = <<>>
      BY <1>1, <2>3 DEF TypeOK, Pending, NeedsDrainage, SendTo
    <3>2. \A q \in Sockets : Len(queued'[q]) = 0
      BY <1>1, <2>3 DEF TypeOK, IndexInv, Pending, NeedsDrainage, SendTo
    <3> QED BY <3>1, <3>2 DEF IndexInv
  <2> QED BY <2>1, <2>2, <2>3
<1> QED BY <1>3, <1>4, <1>5, <1>6 DEF IInv

(* An iteration whose send is dropped changes nothing else.                *)
LEMMA StepPublishBigDropped ==
    ASSUME IInv, NEW s \in Sockets, PublishBigDropped(s) PROVE IInv'
<1>1. TypeOK /\ IndexInv /\ call.pc = "big"
  BY DEF IInv, PublishBigDropped
<1>2. /\ call' \in Call /\ call'.pc = "big" /\ call'.resume = call.resume
      /\ call'.todo = call.todo \ {s}
  BY <1>1, BigVisited DEF PublishBigDropped
<1>3. TypeOK'
  BY <1>1, <1>2 DEF TypeOK, PublishBigDropped
<1>4. ListInv' /\ AliveInv' /\ TopicsConsistent' /\ CallInv'
  BY <1>1, <1>2 DEF IInv, ListInv, AliveInv, TopicsConsistent, CallInv, Pending,
                    NeedsDrainage, PublishBigDropped
<1>5. IndexInv'
  BY <1>1, <1>2 DEF IndexInv, InRange, Denotes, Overrun, PublishBigDropped
<1> QED BY <1>3, <1>4, <1>5 DEF IInv

(* The end of publishBig.                                                  *)
LEMMA StepPublishBigReturn == ASSUME IInv, PublishBigReturn PROVE IInv'
<1>1. TypeOK /\ IndexInv /\ call.pc = "big"
  BY DEF IInv, PublishBigReturn
<1>2. call' \in Call /\ call'.pc = "idle" /\ call'.resume = "idle" /\ call'.todo = {}
  BY DEF PublishBigReturn, Idle, Call, Pointer
<1>3. TypeOK'
  BY <1>1, <1>2 DEF TypeOK, PublishBigReturn
<1>4. ListInv' /\ AliveInv' /\ TopicsConsistent' /\ CallInv'
  BY <1>1, <1>2 DEF IInv, ListInv, AliveInv, TopicsConsistent, CallInv, Pending,
                    NeedsDrainage, PublishBigReturn
<1>5. IndexInv'
  BY <1>1, <1>2 DEF IndexInv, InRange, Denotes, Overrun, PublishBigReturn
<1> QED BY <1>3, <1>4, <1>5 DEF IInv

(* drain() starts at the head of a whole list.                             *)
LEMMA StepDrain == ASSUME IInv, Drain PROVE IInv'
<1>1. TypeOK /\ IndexInv /\ call.pc = "idle" /\ ListOK(list, Pending)
  BY DEF IInv, ListInv, Drain, Idle
<1>2. /\ call' \in Call /\ call'.pc = "drain" /\ call'.cursor = list.head
      /\ call'.resume = "idle" /\ call'.todo = {}
  BY <1>1 DEF TypeOK, Drain, Idle, Call, Pointer
<1>3. TypeOK'
  BY <1>1, <1>2 DEF TypeOK, Drain
<1>4. ListInv' /\ AliveInv' /\ TopicsConsistent' /\ CallInv'
  BY <1>1, <1>2 DEF IInv, ListInv, ListOK, AliveInv, TopicsConsistent, CallInv,
                    Pending, NeedsDrainage, Drain
<1>5. IndexInv'
  BY <1>1, <1>2 DEF IndexInv, InRange, Denotes, Overrun, Drain
<1> QED BY <1>3, <1>4, <1>5 DEF IInv

(* One iteration of drain() moves the walk by one subscriber.              *)
LEMMA StepDrainStep ==
    ASSUME IInv, NEW k \in 0..MaxIndices, DrainStep(k) PROVE IInv'
<1> DEFINE s == call.cursor
<1>1. TypeOK /\ IndexInv /\ call.pc = "drain" /\ WalkOK(list, s, Pending)
  BY DEF IInv, ListInv, DrainStep
<1>2. s \in Pending /\ s \in Sockets
  BY <1>1 DEF DrainStep, WalkOK, Chain, Pending
<1>3. /\ call' \in Call /\ call'.pc = "drain" /\ call'.cursor = list.next[s]
      /\ call'.resume = call.resume /\ call'.todo = call.todo
      /\ call'.referenced = call.referenced
  BY <1>1, <1>2 DEF TypeOK, DrainStep, Call
<1>4. wire' \in [Sockets -> Seq(Message)]
  <2>1. Emitted(s, k) \in Seq(Message)
    BY <1>1, <1>2, EmittedType DEF DrainStep
  <2> QED BY <1>1, <1>2, <2>1 DEF TypeOK, DrainStep
<1>5. TypeOK'
  BY <1>1, <1>2, <1>3, <1>4, SizeAssumption DEF TypeOK, DrainStep
<1>6. Pending' = Pending \ {s}
  BY <1>1, <1>2, PendingWithout DEF DrainStep
<1>7. ListInv'
  <2>1. list \in Links /\ Pending \in SUBSET Sockets
    BY <1>1 DEF TypeOK, Links, Pending
  <2>2. WalkOK(list, list.next[s], Pending \ {s})
    BY <1>1, <1>2, <2>1, WalkStep
  <2>3. list' = list
    BY DEF DrainStep
  <2> QED BY <1>3, <1>6, <2>2, <2>3 DEF ListInv
<1>8. AliveInv' /\ TopicsConsistent' /\ CallInv'
  BY <1>1, <1>3, <1>6 DEF IInv, AliveInv, TopicsConsistent, CallInv, DrainStep
<1>9. IndexInv'
  BY <1>1, <1>2, <1>3 DEF TypeOK, IndexInv, InRange, Denotes, Overrun, DrainStep
<1> QED BY <1>5, <1>7, <1>8, <1>9 DEF IInv

(* drain() ends when nobody is pending, so the palette may go.             *)
LEMMA StepDrainReturn == ASSUME IInv, DrainReturn PROVE IInv'
<1>1. TypeOK /\ IndexInv /\ call.pc = "drain" /\ WalkOK(list, Nil, Pending)
  BY DEF IInv, ListInv, DrainReturn
<1>2. Pending = {} /\ Pending' = {}
  BY <1>1, WalkEnd DEF Pending, NeedsDrainage, DrainReturn
<1>3. /\ call' \in Call /\ call'.pc \in {"idle", "publish"} /\ call'.resume = "idle"
      /\ call'.todo \subseteq call.todo
      /\ call'.pc = "publish" => call.resume = "publish"
      /\ call'.todo # {} => call'.referenced = call.referenced
  BY <1>1 DEF TypeOK, DrainReturn, Idle, Call, Pointer
<1>4. list' \in Links /\ ListOK(list', {})
  <2>1. list' = [head |-> Nil, next |-> list.next, prev |-> list.prev]
    BY <1>1 DEF TypeOK, DrainReturn
  <2>2. list' \in Links /\ list'.head = Nil
    BY <1>1, <2>1 DEF TypeOK, Links, Pointer
  <2>3. [s \in Sockets |-> 0] \in [Sockets -> Nat]
    OBVIOUS
  <2>4. Chain(list', Nil, {}, [s \in Sockets |-> 0]) /\ Back(list', {})
    BY <2>2 DEF Chain, Back
  <2> QED BY <2>2, <2>3, <2>4 DEF ListOK, WalkOK
<1>5. TypeOK'
  <2>1. outgoing' \in Seq(Message)
    BY DEF DrainReturn
  <2> QED BY <1>1, <1>3, <1>4, <2>1 DEF TypeOK, DrainReturn, Links
<1>6. ListInv' /\ AliveInv'
  BY <1>2, <1>3, <1>4 DEF ListInv, AliveInv
<1>7. TopicsConsistent'
  BY DEF IInv, TopicsConsistent, DrainReturn
<1>8. CallInv'
  BY <1>1, <1>3 DEF IInv, CallInv, DrainReturn
<1>9. IndexInv'
  <2>1. \A q \in Sockets : messageIndices'[q] = <<>> /\ queued'[q] = queued[q]
    BY <1>2 DEF Pending, NeedsDrainage, DrainReturn
  <2>2. \A q \in Sockets : Len(queued[q]) = 0
    BY <1>1, <1>2 DEF IndexInv, Pending, NeedsDrainage
  <2> QED BY <2>1, <2>2 DEF IndexInv
<1> QED BY <1>5, <1>6, <1>7, <1>8, <1>9 DEF IInv

(* freeSubscriber: what end and close have in common.                      *)
LEMMA FreeFacts ==
    ASSUME IInv, NEW s \in Sockets, Free(s), call = Idle, call' = call,
           \/ outgoing' = outgoing
           \/ outgoing' = <<>> /\ Pending \ {s} = {}
    PROVE  /\ subs' \in [Sockets -> SUBSET Topics]
           /\ DOMAIN topics' \subseteq Topics
           /\ \A t \in DOMAIN topics' : topics'[t] \subseteq Sockets
           /\ list' \in Links
           /\ messageIndices' \in [Sockets -> Seq(Index)]
           /\ \A q \in Sockets : Len(messageIndices'[q]) <= MaxIndices
           /\ queued' \in [Sockets -> Seq(Message)]
           /\ TopicsConsistent' /\ AliveInv' /\ ListInv' /\ IndexInv' /\ CallInv'
<1>1. TypeOK /\ IndexInv /\ call.pc = "idle" /\ ListOK(list, Pending)
  BY DEF IInv, ListInv, Idle
<1>2. Pending' = Pending \ {s}
  BY <1>1, PendingWithout DEF Free
<1>3. list' \in Links /\ ListOK(list', Pending')
  BY <1>1, <1>2, DrainedList DEF Free
<1>4. /\ subs' \in [Sockets -> SUBSET Topics]
      /\ messageIndices' \in [Sockets -> Seq(Index)]
      /\ \A q \in Sockets : Len(messageIndices'[q]) <= MaxIndices
      /\ queued' \in [Sockets -> Seq(Message)]
  BY <1>1, SizeAssumption DEF TypeOK, Free
<1>5. /\ DOMAIN topics' = {u \in DOMAIN topics : ~(u \in subs[s] /\ topics[u] = {s})}
      /\ \A t \in DOMAIN topics' :
            topics'[t] = IF t \in subs[s] THEN topics[t] \ {s} ELSE topics[t]
  BY DEF Free, TopicsWithout
<1>6. /\ DOMAIN topics' \subseteq Topics
      /\ \A t \in DOMAIN topics' : topics'[t] \subseteq Sockets
  BY <1>1, <1>5 DEF TypeOK
<1>7. TopicsConsistent'
  <2>1. \A q \in Sockets : subs'[q] = IF q = s THEN {} ELSE subs[q]
    BY <1>1 DEF TypeOK, Free
  <2>2. ASSUME NEW t \in DOMAIN topics'
        PROVE  topics'[t] # {} /\ topics'[t] = {q \in Sockets : t \in subs'[q]}
    <3>1. t \in DOMAIN topics /\ topics[t] # {}
          /\ topics[t] = {q \in Sockets : t \in subs[q]}
      BY <1>5 DEF IInv, TopicsConsistent
    <3>2. topics'[t] = topics[t] \ {s}
      BY <1>5, <3>1
    <3>3. topics'[t] # {}
      BY <1>5, <3>1, <3>2
    <3>4. \A q \in Sockets : t \in subs'[q] <=> t \in subs[q] /\ q # s
      BY <2>1
    <3> QED BY <3>1, <3>2, <3>3, <3>4
  <2>3. ASSUME NEW q \in Sockets
        PROVE  subs'[q] \subseteq DOMAIN topics' /\ (subs'[q] # {} => q \in subscribers')
    <3>1. CASE q = s
      BY <2>1, <3>1
    <3>2. CASE q # s
      <4>1. /\ subs'[q] = subs[q] /\ subs[q] \subseteq DOMAIN topics
            /\ subs[q] # {} => q \in subscribers
        BY <2>1, <3>2 DEF IInv, TopicsConsistent
      <4>2. \A t \in subs[q] : q \in topics[t]
        BY <4>1 DEF IInv, TopicsConsistent
      <4> QED BY <1>5, <3>2, <4>1, <4>2 DEF Free
    <3> QED BY <3>1, <3>2
  <2> QED BY <2>2, <2>3 DEF TopicsConsistent
<1>8. AliveInv'
  BY <1>2 DEF IInv, AliveInv, Free
<1>9. ListInv'
  BY <1>1, <1>3 DEF ListInv
<1>10. IndexInv'
  BY <1>1, IndexAfterDrain DEF Free
<1>11. CallInv'
  BY DEF CallInv, Idle
<1> QED BY <1>3, <1>4, <1>6, <1>7, <1>8, <1>9, <1>10, <1>11

(* end drains and frees the subscriber.                                    *)
LEMMA StepEnd ==
    ASSUME IInv, NEW s \in Sockets, NEW k \in 0..MaxIndices, End(s, k) PROVE IInv'
<1>1. /\ TypeOK /\ IndexInv /\ call = Idle /\ call' = call /\ call.pc = "idle"
      /\ Free(s) /\ clock' \in Message /\ clock' \in 0..MaxMessages
      /\ ListOK(list, Pending)
  BY SizeAssumption DEF IInv, ListInv, TypeOK, End, Idle, Message
<1>2. outgoing' = outgoing \/ (outgoing' = <<>> /\ Pending \ {s} = {})
  BY <1>1, DrainedList DEF End
<1>3. outgoing' \in Seq(Message)
  <2>1. <<>> \in Seq(Message) /\ outgoing \in Seq(Message)
    BY <1>1 DEF TypeOK
  <2> QED BY <1>2, <2>1
<1>4. wire' \in [Sockets -> Seq(Message)]
  <2>1. Emitted(s, k) \in Seq(Message)
    BY <1>1, EmittedType DEF End
  <2> QED BY <1>1, <2>1 DEF TypeOK, End
<1>5. subscribers' \subseteq open' /\ open' \subseteq Sockets
  BY <1>1 DEF TypeOK, End, Free
<1>6. TypeOK'
  BY <1>1, <1>2, <1>3, <1>4, <1>5, FreeFacts DEF TypeOK, Links
<1> QED BY <1>1, <1>2, <1>6, FreeFacts DEF IInv

(* close frees it without draining, in the list or not.                    *)
LEMMA StepClose == ASSUME IInv, NEW s \in Sockets, Close(s) PROVE IInv'
<1>1. /\ TypeOK /\ call = Idle /\ call' = call /\ Free(s) /\ outgoing' = outgoing
      /\ clock' = clock /\ wire' = wire
  BY DEF IInv, Close
<1>2. subscribers' \subseteq open' /\ open' \subseteq Sockets
  BY <1>1 DEF TypeOK, Close, Free
<1>3. TypeOK'
  BY <1>1, <1>2, FreeFacts DEF TypeOK, Links
<1> QED BY <1>1, <1>3, FreeFacts DEF IInv

-----------------------------------------------------------------------------
(* The invariant holds initially.                                          *)
LEMMA InitIInv == Init => IInv
<1> SUFFICES ASSUME Init PROVE IInv
  OBVIOUS
<1>1. TypeOK
  BY TypeInit
<1>2. Pending = {}
  BY DEF Init, Pending, NeedsDrainage
<1>3. ListOK(list, {})
  <2>1. [s \in Sockets |-> 0] \in [Sockets -> Nat]
    OBVIOUS
  <2>2. Chain(list, list.head, {}, [s \in Sockets |-> 0]) /\ Back(list, {})
    BY DEF Init, Chain, Back
  <2> QED BY <2>1, <2>2 DEF ListOK, WalkOK
<1>4. TopicsConsistent /\ AliveInv /\ ListInv /\ IndexInv /\ CallInv
  BY <1>2, <1>3 DEF Init, TopicsConsistent, AliveInv, ListInv, IndexInv, CallInv, Idle
<1> QED BY <1>1, <1>4 DEF IInv

(* Every step keeps it.                                                    *)
LEMMA NextIInv == IInv /\ [Next]_vars => IInv'
<1> SUFFICES ASSUME IInv, [Next]_vars PROVE IInv'
  OBVIOUS
<1>1. CASE CallStep
  BY <1>1, StepPublishTo, StepPublishToFull, StepPublishReturn, StepPublishBigTo,
     StepPublishBigDropped, StepPublishBigReturn, StepDrainStep, StepDrainReturn
     DEF CallStep
<1>2. CASE \E s \in Sockets : Open(s)
  BY <1>2, StepOpen
<1>3. CASE \E s \in Sockets, t \in Topics : Subscribe(s, t)
  BY <1>3, StepSubscribe
<1>4. CASE \E s \in Sockets, t \in Topics : Unsubscribe(s, t)
  BY <1>4, StepUnsubscribe
<1>5. CASE \E sender \in Pointer, t \in Topics : Publish(sender, t)
  BY <1>5, StepPublish
<1>6. CASE \E sender \in Pointer, t \in Topics : PublishBig(sender, t)
  BY <1>6, StepPublishBig
<1>7. CASE \E s \in Sockets, k \in 0..MaxIndices : Send(s, k)
  BY <1>7, StepSend
<1>8. CASE Drain
  BY <1>8, StepDrain
<1>9. CASE \E s \in Sockets, k \in 0..MaxIndices : End(s, k)
  BY <1>9, StepEnd
<1>10. CASE \E s \in Sockets : Close(s)
  BY <1>10, StepClose
<1>11. CASE UNCHANGED vars
  <2>1. TypeOK' /\ TopicsConsistent'
    BY <1>11 DEF vars, IInv, TypeOK, TopicsConsistent
  <2>2. AliveInv' /\ ListInv' /\ IndexInv' /\ CallInv'
    BY <1>11 DEF vars, IInv, AliveInv, ListInv, IndexInv, CallInv, Pending,
                 NeedsDrainage, InRange, Denotes, Overrun
  <2> QED BY <2>1, <2>2 DEF IInv
<1> QED
  BY <1>1, <1>2, <1>3, <1>4, <1>5, <1>6, <1>7, <1>8, <1>9, <1>10, <1>11 DEF Next

(* The inductive invariant holds in every reachable state.                 *)
THEOREM Invariance == Spec => []IInv
  BY InitIInv, NextIInv, PTL DEF Spec

(* Type correctness; in particular no index array outgrows its capacity    *)
(* and no walk or read of the palette leaves its bounds.                   *)
THEOREM TypeCorrect == Spec => []TypeOK
<1>1. IInv => TypeOK
  BY DEF IInv
<1> QED BY Invariance, <1>1, PTL

(* The two sides of a subscription agree and no empty topic is kept.       *)
THEOREM TopicsAgree == Spec => []TopicsConsistent
<1>1. IInv => TopicsConsistent
  BY DEF IInv
<1> QED BY Invariance, <1>1, PTL

(* The intrusive list that unlinkDrainableSubscriber and publish edit      *)
(* links exactly the subscribers with pending messages, both ways.         *)
THEOREM ListWellLinked == Spec => []LinksAgree
<1>1. ASSUME IInv PROVE LinksAgree
  <2>1. SUFFICES ASSUME call.pc # "drain" PROVE LinksAgree!2
    BY DEF LinksAgree
  <2>2. PICK r \in [Sockets -> Nat] : Chain(list, list.head, Pending, r)
    BY <1>1, <2>1 DEF IInv, ListInv, ListOK, WalkOK
  <2>3. Back(list, Pending)
    BY <1>1, <2>1 DEF IInv, ListInv, ListOK
  <2> QED
    BY <2>2, <2>3, NilAssumption DEF Chain, Back, Pending
<1> QED BY Invariance, <1>1, PTL

(* Until the palette outgrows the 16-bit index, every pending index        *)
(* denotes the message that was published to its subscriber.               *)
THEOREM IndicesSound == Spec => []IndexSound
<1>1. IInv => IndexSound
  BY DEF IInv, IndexInv, IndexSound
<1> QED BY Invariance, <1>1, PTL


-----------------------------------------------------------------------------
(* The walk along next.  The induction over its steps rests on the natural *)
(* numbers being well-founded.                                             *)

(* A set of numbers that has a member has a least one.                     *)
LEMMA Least ==
    ASSUME NEW T \in SUBSET Nat, T # {}
    PROVE  \E m \in T : \A k \in T : ~(k < m)
<1>1. IsWellFoundedOn(OpToRel(<, Nat), Nat)
  BY NatLessThanWellFounded
<1>2. \E m \in T : \A k \in T : ~(<<k, m>> \in OpToRel(<, Nat))
  BY <1>1, WFMin
<1>3. \A k, m \in Nat : k < m => <<k, m>> \in OpToRel(<, Nat)
  BY DEF OpToRel
<1> QED
  BY <1>2, <1>3

(* A set with 0 and the successors of its members has every number.        *)
LEMMA Induct ==
    ASSUME NEW S \in SUBSET Nat, 0 \in S, \A n \in S : n + 1 \in S
    PROVE  S = Nat
<1> SUFFICES ASSUME Nat \ S # {} PROVE FALSE
  OBVIOUS
<1>1. PICK m \in Nat \ S : \A k \in Nat \ S : ~(k < m)
  BY Least
<1>2. m - 1 \in Nat /\ m - 1 < m
  OBVIOUS
<1>3. m - 1 \in S
  BY <1>1, <1>2
<1>4. m - 1 + 1 \in S
  BY <1>3
<1> QED
  BY <1>4

Start == IF call.pc = "drain" THEN call.cursor ELSE list.head
After(p) == IF p = Nil THEN Nil ELSE list.next[p]
IsWalk(f, n) == f = [i \in 0..n |-> IF i = 0 THEN Start ELSE After(f[i - 1])]

(* Walk is the function that its definition describes.                     *)
LEMMA WalkIs ==
    ASSUME Cardinality(Sockets) \in Nat
    PROVE  IsWalk(Walk, Cardinality(Sockets))
<1> DEFINE S == {n \in Nat : \E f : IsWalk(f, n)}
<1>1. 0 \in S
  <2> DEFINE f == [i \in 0..0 |-> Start]
  <2>1. IsWalk(f, 0)
    BY DEF IsWalk
  <2> QED
    BY <2>1
<1>2. ASSUME NEW n \in S PROVE n + 1 \in S
  <2>1. PICK f : IsWalk(f, n)
    OBVIOUS
  <2> DEFINE g == [i \in 0..(n + 1) |-> IF i = n + 1 THEN After(f[n]) ELSE f[i]]
  <2>2. \A i \in 0..n : f[i] = IF i = 0 THEN Start ELSE After(f[i - 1])
    BY <2>1 DEF IsWalk
  <2>3. \A i \in 0..n : g[i] = f[i]
    OBVIOUS
  <2>4. \A i \in 0..(n + 1) : i # 0 => i - 1 \in 0..n
    OBVIOUS
  <2>5. \A i \in 0..(n + 1) : g[i] = IF i = 0 THEN Start ELSE After(g[i - 1])
    BY <2>2, <2>3, <2>4
  <2>6. IsWalk(g, n + 1)
    BY <2>5 DEF IsWalk
  <2> QED
    BY <2>6
<1> HIDE DEF S
<1>3. S = Nat
  BY <1>1, <1>2, Induct DEF S
<1>4. \E f : IsWalk(f, Cardinality(Sockets))
  BY <1>3 DEF S
<1> QED
  BY <1>4 DEF Walk, IsWalk, Start, After

(* The first i elements of a walk over P, of which r ranks the elements.   *)
Visited(i) == {Walk[j] : j \in 0..(i - 1)}

Reached(P, r, i) ==
    \/ Walk[i] = Nil /\ Visited(i) \ {Nil} = P
    \/ /\ Walk[i] \in P
       /\ Visited(i) = {p \in P : r[p] > r[Walk[i]]}
       /\ IsFiniteSet(Visited(i)) /\ Cardinality(Visited(i)) = i

(* A walk visits the elements by rank, one a step, until it has them all.  *)
LEMMA WalkReaches ==
    ASSUME IsFiniteSet(Sockets), list \in Links,
           NEW P \in SUBSET Sockets, NEW r \in [Sockets -> Nat], Chain(list, Start, P, r)
    PROVE  \A i \in 0..Cardinality(Sockets) : Reached(P, r, i)
<1> DEFINE N == Cardinality(Sockets)
           S == {n \in Nat : n <= N => Reached(P, r, n)}
<1>1. N \in Nat
  BY FS_CardinalityType
<1>2. \A i \in 0..N : Walk[i] = IF i = 0 THEN Start ELSE After(Walk[i - 1])
  BY <1>1, WalkIs DEF IsWalk
<1>3. Nil \notin P
  BY NilAssumption
<1> HIDE DEF N
<1>4. 0 \in S
  <2>1. Visited(0) = {} /\ Walk[0] = Start
    BY <1>1, <1>2 DEF Visited
  <2>2. \A p \in P : r[p] \in Nat
    OBVIOUS
  <2>3. CASE Start = Nil
    BY <2>1, <2>3 DEF Chain, Reached
  <2>4. CASE Start # Nil
    <3>1. Start \in P /\ \A p \in P : r[p] <= r[Start]
      BY <2>4 DEF Chain
    <3>2. {p \in P : r[p] > r[Start]} = {}
      BY <2>2, <3>1
    <3> QED
      BY <2>1, <3>1, <3>2, FS_EmptySet DEF Reached
  <2> QED
    BY <2>3, <2>4
<1>5. ASSUME NEW n \in S PROVE n + 1 \in S
  <2> SUFFICES ASSUME n + 1 <= N PROVE Reached(P, r, n + 1)
    OBVIOUS
  <2> DEFINE w == Walk[n]
  <2>1. n \in Nat /\ n + 1 \in 0..N /\ n + 1 # 0 /\ (n + 1) - 1 = n /\ n <= N
    BY <1>1
  <2>2. Reached(P, r, n)
    BY <2>1
  <2>3. Walk[n + 1] = After(w)
    BY <1>2, <2>1
  <2>4. Visited(n + 1) = Visited(n) \cup {w}
    <3>1. \A j : j \in 0..n <=> j \in 0..(n - 1) \/ j = n
      BY <2>1
    <3> QED
      BY <2>1, <3>1 DEF Visited
  <2> HIDE DEF w, S
  <2>5. CASE w = Nil /\ Visited(n) \ {Nil} = P
    BY <2>3, <2>4, <2>5 DEF Reached, After
  <2>6. CASE /\ w \in P /\ Visited(n) = {p \in P : r[p] > r[w]}
             /\ IsFiniteSet(Visited(n)) /\ Cardinality(Visited(n)) = n
    <3>1. \A p \in P : r[p] \in Nat
      OBVIOUS
    <3>2. w \notin Visited(n) /\ w # Nil
      BY <1>3, <2>6, <3>1
    <3>3. IsFiniteSet(Visited(n + 1)) /\ Cardinality(Visited(n + 1)) = n + 1
      <4> DEFINE V == Visited(n)
      <4>1. IsFiniteSet(V) /\ Cardinality(V) = n /\ w \notin V
        BY <2>6, <3>2
      <4> HIDE DEF V
      <4>2. IsFiniteSet(V \cup {w}) /\ Cardinality(V \cup {w}) = n + 1
        BY <4>1, FS_AddElement
      <4> QED
        BY <2>4, <4>2 DEF V
    <3>4. Walk[n + 1] = list.next[w]
      BY <2>3, <3>2 DEF After
    <3>5. CASE list.next[w] = Nil
      <4>1. \A p \in P : r[w] <= r[p]
        BY <2>6, <3>5 DEF Chain
      <4>2. \A p \in P : r[p] > r[w] \/ p = w
        BY <2>6, <3>1, <4>1 DEF Chain
      <4>3. Visited(n + 1) = P
        BY <2>4, <2>6, <4>2
      <4> QED
        BY <1>3, <3>4, <3>5, <4>3 DEF Reached
    <3>6. CASE list.next[w] # Nil
      <4> DEFINE v == list.next[w]
      <4>1. v \in P /\ r[v] < r[w] /\ \A p \in P : r[p] < r[w] => r[p] <= r[v]
        BY <2>6, <3>6 DEF Chain
      <4>2. \A p \in P : r[p] = r[w] => p = w
        BY <2>6 DEF Chain
      <4> HIDE DEF v
      <4>3. \A p \in P : r[p] > r[v] <=> (r[p] > r[w] \/ p = w)
        BY <2>6, <3>1, <4>1, <4>2
      <4>4. Visited(n + 1) = {p \in P : r[p] > r[v]}
        BY <2>4, <2>6, <4>3
      <4> QED
        BY <3>3, <3>4, <4>1, <4>4 DEF Reached, v
    <3> QED
      BY <3>5, <3>6
  <2> QED
    BY <2>2, <2>5, <2>6 DEF Reached, w
<1>6. S = Nat
  <2> HIDE DEF S
  <2>1. S \in SUBSET Nat
    BY DEF S
  <2> QED
    BY <1>4, <1>5, <2>1, Induct
<1> QED
  BY <1>1, <1>6 DEF N

(* drainableSubscribers, from the head or from where drain() is, ends and  *)
(* visits exactly the subscribers with pending messages, none of which is  *)
(* deleted: of any finite number of subscribers.                           *)
THEOREM DrainListKept ==
    ASSUME IsFiniteSet(Sockets)
    PROVE  Spec => []DrainListExact
<1>1. ASSUME IInv PROVE DrainListExact
  <2> DEFINE N == Cardinality(Sockets)
  <2>1. list \in Links /\ Pending \in SUBSET Sockets /\ Pending \subseteq subscribers
    BY <1>1 DEF IInv, TypeOK, Links, Pending, AliveInv
  <2>2. WalkOK(list, Start, Pending)
    BY <1>1 DEF IInv, ListInv, ListOK, Start
  <2>3. PICK r \in [Sockets -> Nat] : Chain(list, Start, Pending, r)
    BY <2>2 DEF WalkOK
  <2>4. N \in Nat /\ IsWalk(Walk, N)
    BY FS_CardinalityType, WalkIs
  <2>5. DOMAIN Walk = 0..N
    BY <2>4 DEF IsWalk
  <2>6. Reached(Pending, r, N)
    BY <2>1, <2>3, <2>4, WalkReaches
  <2> HIDE DEF N
  <2>7. {Walk[i] : i \in 0..N} = Visited(N) \cup {Walk[N]}
    <3>1. \A j : j \in 0..N <=> j \in 0..(N - 1) \/ j = N
      BY <2>4
    <3> QED
      BY <2>4, <3>1 DEF Visited
  <2>8. Walk[N] = Nil
    <3> SUFFICES ASSUME Walk[N] # Nil PROVE FALSE
      OBVIOUS
    <3>1. /\ Walk[N] \in Pending
          /\ Visited(N) = {p \in Pending : r[p] > r[Walk[N]]}
          /\ IsFiniteSet(Visited(N)) /\ Cardinality(Visited(N)) = N
      BY <2>6 DEF Reached
    <3>2. Walk[N] \notin Visited(N)
      BY <2>1, <3>1
    <3>3. Cardinality(Visited(N) \cup {Walk[N]}) = N + 1
      BY <3>1, <3>2, FS_AddElement
    <3>4. Visited(N) \cup {Walk[N]} \in SUBSET Sockets
      BY <2>1, <3>1
    <3>5. N + 1 <= N
      BY <3>3, <3>4, FS_Subset DEF N
    <3> QED
      BY <2>4, <3>5
  <2>9. {Walk[i] : i \in 0..N} \ {Nil} = Pending
    BY <2>1, <2>6, <2>7, <2>8, NilAssumption DEF Reached
  <2> QED
    BY <2>1, <2>5, <2>8, <2>9 DEF DrainListExact, N
<1> QED BY Invariance, <1>1, PTL

-----------------------------------------------------------------------------
(* TopicTree implements PubSub.  The invariant above says what an index    *)
(* denotes; to see that no message overtakes another one it takes in       *)
(* addition a bound on everything that a WebSocket was given or will be    *)
(* given: the message a call is about is later, for those who are still    *)
(* to have it.                                                             *)

Bounded(q, m) == \A i \in 1..Len(q) : q[i] <= m

(* A publish or publishBig is under way: message `clock` is not in the     *)
(* palette yet.                                                            *)
Busy == call.pc \in {"publish", "big"} \/ call.resume = "publish"

Bound(s) == IF s \in call.todo THEN clock - 1 ELSE clock
PaletteBound == IF Busy THEN clock - 1 ELSE clock

FreshInv ==
    /\ \A s \in Sockets : /\ Bounded(queued[s], Bound(s))
                          /\ Bounded(wire[s], Bound(s))
    /\ Bounded(outgoing, PaletteBound)
    /\ call.todo # {} => Busy

-----------------------------------------------------------------------------
(* Bounds of sequences.                                                    *)

(* A bound of two sequences bounds their concatenation.                    *)
LEMMA BoundedConcat ==
    ASSUME NEW p \in Seq(Message), NEW q \in Seq(Message), NEW m \in Int,
           Bounded(p, m), Bounded(q, m)
    PROVE  p \o q \in Seq(Message) /\ Bounded(p \o q, m)
  BY DEF Bounded, Message

(* A larger number is a bound as well.                                     *)
LEMMA BoundedMore ==
    ASSUME NEW p \in Seq(Message), NEW m \in Int, NEW n \in Int, m <= n,
           Bounded(p, m)
    PROVE  Bounded(p, n)
  BY SizeAssumption DEF Bounded, Message

(* An element within the bound may be appended.                            *)
LEMMA BoundedAppend ==
    ASSUME NEW p \in Seq(Message), NEW m \in Int, NEW x \in Message, x <= m,
           Bounded(p, m)
    PROVE  /\ Append(p, x) \in Seq(Message) /\ Bounded(Append(p, x), m)
           /\ p \o <<x>> \in Seq(Message) /\ Bounded(p \o <<x>>, m)
  BY SizeAssumption DEF Bounded, Message

(* What drainImpl takes from the palette is within its bound.              *)
LEMMA EmittedBounded ==
    ASSUME NEW s \in Sockets, TypeOK, IndexInv,
           call.pc # "publish" \/ s \in call.todo,
           NEW k \in 0..Len(messageIndices[s]),
           NEW m \in Int, Bounded(outgoing, m)
    PROVE  Emitted(s, k) \in Seq(Message) /\ Bounded(Emitted(s, k), m)
<1>1. Emitted(s, k) \in Seq(Message)
  BY EmittedType
<1>2. messageIndices[s] \in Seq(Index) /\ outgoing \in Seq(Message) /\ k \in Nat
  BY DEF TypeOK
<1>3. Len(Emitted(s, k)) = k
  BY <1>2 DEF Emitted
<1>4. ASSUME NEW i \in 1..k PROVE Emitted(s, k)[i] <= m
  <2>1. i \in 1..Len(messageIndices[s])
    BY <1>2
  <2>2. messageIndices[s][i] \in Nat /\ messageIndices[s][i] < Len(outgoing)
    BY <1>2, <2>1, SizeAssumption, SMTT(30) DEF IndexInv, InRange, Index
  <2>3. messageIndices[s][i] + 1 \in 1..Len(outgoing)
    BY <1>2, <2>2
  <2> QED BY <2>3 DEF Emitted, Bounded
<1> QED BY <1>1, <1>3, <1>4 DEF Bounded

(* Until an overrun it is what was published to s, in order.               *)
LEMMA EmittedIsQueued ==
    ASSUME NEW s \in Sockets, TypeOK, IndexInv, ~Overrun,
           call.pc # "publish" \/ s \in call.todo,
           NEW k \in 0..Len(messageIndices[s])
    PROVE  /\ k \in 0..Len(queued[s])
           /\ Emitted(s, k) = SubSeq(queued[s], 1, k)
<1>1. /\ messageIndices[s] \in Seq(Index) /\ queued[s] \in Seq(Message)
      /\ k \in Nat /\ Len(queued[s]) = Len(messageIndices[s])
  BY DEF TypeOK, IndexInv
<1>2. ASSUME NEW i \in 1..k
      PROVE  outgoing[messageIndices[s][i] + 1] = queued[s][i]
  <2>1. i \in 1..Len(messageIndices[s])
    BY <1>1
  <2>2. messageIndices[s][i] \in Nat /\ messageIndices[s][i] < Len(outgoing)
    BY <1>1, <2>1, SizeAssumption DEF IndexInv, InRange, Index
  <2> QED BY <2>1, <2>2 DEF IndexInv, Denotes, TypeOK
<1>3. SubSeq(queued[s], 1, k) = [i \in 1..k |-> queued[s][i]]
  BY <1>1
<1> QED BY <1>1, <1>2, <1>3 DEF Emitted

-----------------------------------------------------------------------------
(* One lemma per kind of step: it keeps the bounds, and it is a step of    *)
(* PubSub or none.                                                         *)

Stutters == UNCHANGED <<queued, wire, clock>>

(* What follows from the types, at once.                                   *)
LEMMA Typed ==
    ASSUME TypeOK
    PROVE  /\ clock \in Nat /\ clock \in Int /\ clock - 1 \in Int
           /\ clock <= MaxMessages /\ MaxMessages \in Nat /\ MaxIndices \in Nat
           /\ outgoing \in Seq(Message)
           /\ \A s \in Sockets : /\ queued[s] \in Seq(Message)
                                 /\ wire[s] \in Seq(Message)
                                 /\ Bound(s) \in Int /\ Bound(s) <= clock
           /\ PaletteBound \in Int /\ PaletteBound <= clock
  BY SizeAssumption DEF TypeOK, Bound, PaletteBound

(* The calls that make a message and begin a loop.                         *)
LEMMA MakeStep ==
    ASSUME IInv, FreshInv, NEW sender \in Pointer, NEW t \in Topics,
           Publish(sender, t) \/ PublishBig(sender, t)
    PROVE  FreshInv' /\ Abstract!Make
<1> USE DEF IInv
<1>1. /\ clock' = clock + 1 /\ clock < MaxMessages
      /\ queued' = queued /\ wire' = wire /\ outgoing' = outgoing
  BY DEF Publish, PublishBig
<1>2. Busy'
  <2>1. CASE Publish(sender, t)
    <3>1. call'.pc = "publish" \/ call'.resume = "publish"
      BY <2>1 DEF Publish
    <3> QED BY <3>1 DEF Busy
  <2>2. CASE PublishBig(sender, t)
    BY <2>2 DEF PublishBig, Busy, Idle
  <2> QED BY <2>1, <2>2
<1>3. ASSUME NEW s \in Sockets
      PROVE  Bounded(queued[s], clock) /\ Bounded(wire[s], clock)
  BY Typed, BoundedMore DEF FreshInv
<1>4. Bounded(outgoing, clock)
  BY Typed, BoundedMore DEF FreshInv
<1>5. \A s \in Sockets : Bound(s)' \in {clock, clock + 1}
  BY <1>1, Typed DEF Bound
<1>6. PaletteBound' = clock
  BY <1>1, <1>2, Typed DEF PaletteBound
<1>7. ASSUME NEW s \in Sockets
      PROVE  /\ Bounded(queued'[s], Bound(s)') /\ Bounded(wire'[s], Bound(s)')
  <2>1. CASE Bound(s)' = clock
    BY <1>1, <1>3, <2>1
  <2>2. CASE Bound(s)' = clock + 1
    BY <1>1, <1>3, <2>2, Typed, BoundedMore
  <2> QED BY <1>5, <2>1, <2>2
<1>8. FreshInv'
  BY <1>1, <1>2, <1>4, <1>6, <1>7 DEF FreshInv, Bounded
<1> QED BY <1>1, <1>8 DEF Abstract!Make

(* A WebSocket that is still to have message `clock` has nothing as late.  *)
LEMMA StreamLatest ==
    ASSUME IInv, FreshInv, NEW s \in Sockets, NEW m \in Int,
           Bounded(queued[s], m - 1), Bounded(wire[s], m - 1)
    PROVE  Abstract!Latest(s, m)
<1>1. queued[s] \in Seq(Message) /\ wire[s] \in Seq(Message) /\ m - 1 \in Int
  BY Typed DEF IInv
<1>2. /\ wire[s] \o queued[s] \in Seq(Message)
      /\ Bounded(wire[s] \o queued[s], m - 1)
  BY <1>1, BoundedConcat
<1>3. ASSUME NEW q \in Seq(Message), Bounded(q, m - 1)
      PROVE  \A i \in 1..Len(q) : q[i] < m
  BY <1>3, SizeAssumption DEF Bounded, Message
<1> QED BY <1>2, <1>3 DEF Abstract!Latest, Abstract!Stream

(* An iteration of publish for a subscriber with room.                     *)
LEMMA AcceptStep ==
    ASSUME IInv, FreshInv, NEW s \in Sockets, PublishTo(s)
    PROVE  FreshInv' /\ Abstract!Accept(s)
<1> USE DEF IInv
<1>1. /\ s \in call.todo /\ call.pc = "publish" /\ Bound(s) = clock - 1
      /\ clock \in Message
  BY Typed DEF PublishTo, Bound, CallInv, Message
<1>2. Abstract!Latest(s, clock)
  BY <1>1, Typed, StreamLatest DEF FreshInv
<1>3. Len(queued[s]) < MaxIndices
  BY SizeAssumption DEF PublishTo, TypeOK, IndexInv
<1>4. Abstract!Accept(s)
  BY <1>2, <1>3 DEF Abstract!Accept, PublishTo
<1>5. /\ clock' = clock /\ wire' = wire /\ outgoing' = outgoing
      /\ queued' = [queued EXCEPT ![s] = Append(queued[s], clock)]
      /\ call' = [call EXCEPT !.todo = call.todo \ {s}]
  BY DEF PublishTo
<1>6. /\ call'.pc = call.pc /\ call'.resume = call.resume
      /\ call'.todo = call.todo \ {s}
  BY <1>5 DEF TypeOK, Call
<1>7. /\ PaletteBound' = PaletteBound /\ Bound(s)' = clock
      /\ \A q \in Sockets \ {s} : Bound(q)' = Bound(q)
      /\ Busy'
  BY <1>1, <1>5, <1>6 DEF PaletteBound, Busy, Bound
<1>8. Bounded(queued'[s], clock) /\ Bounded(wire'[s], clock)
  <2>1. Bounded(queued[s], clock) /\ Bounded(wire[s], clock)
    BY <1>1, Typed, BoundedMore DEF FreshInv
  <2>2. queued[s] \in Seq(Message) /\ clock \in Int /\ clock <= clock
    BY Typed
  <2>3. Bounded(Append(queued[s], clock), clock)
    BY <1>1, <2>1, <2>2, BoundedAppend
  <2> QED BY <1>5, <2>1, <2>3 DEF TypeOK
<1>9. \A q \in Sockets \ {s} : queued'[q] = queued[q]
  BY <1>5 DEF TypeOK
<1>10. FreshInv'
  BY <1>5, <1>7, <1>8, <1>9 DEF FreshInv, Bounded
<1> QED BY <1>4, <1>10

(* Draining s gives it nothing that its bound forbids.                     *)
LEMMA WireAfter ==
    ASSUME IInv, FreshInv, NEW s \in Sockets,
           call.pc # "publish" \/ s \in call.todo,
           NEW k \in 0..Len(messageIndices[s])
    PROVE  /\ wire[s] \o Emitted(s, k) \in Seq(Message)
           /\ Bounded(wire[s] \o Emitted(s, k), Bound(s))
<1>1. PaletteBound <= Bound(s)
  BY Typed DEF IInv, FreshInv, PaletteBound, Bound
<1>2. Bounded(outgoing, Bound(s))
  BY <1>1, Typed, BoundedMore DEF IInv, FreshInv
<1>3. Emitted(s, k) \in Seq(Message) /\ Bounded(Emitted(s, k), Bound(s))
  BY <1>2, Typed, EmittedBounded DEF IInv
<1> QED BY <1>3, Typed, BoundedConcat DEF IInv, FreshInv

(* An iteration of publish for a full subscriber.                          *)
LEMMA AcceptFullStep ==
    ASSUME IInv, FreshInv, NEW s \in Sockets, NEW k \in 0..MaxIndices,
           PublishToFull(s, k)
    PROVE  FreshInv' /\ (~Overrun => Abstract!AcceptFull(s, k))
<1> USE DEF IInv
<1>1. /\ s \in call.todo /\ call.pc = "publish" /\ Bound(s) = clock - 1
      /\ clock \in Message /\ k \in 0..Len(messageIndices[s])
      /\ Len(queued[s]) = MaxIndices
  BY Typed DEF PublishToFull, Bound, CallInv, Message, IndexInv
<1>2. Abstract!Latest(s, clock)
  BY <1>1, Typed, StreamLatest DEF FreshInv
<1>3. ~Overrun => Abstract!AcceptFull(s, k)
  <2> SUFFICES ASSUME ~Overrun PROVE Abstract!AcceptFull(s, k)
    OBVIOUS
  <2>1. k \in 0..Len(queued[s]) /\ Emitted(s, k) = SubSeq(queued[s], 1, k)
    BY <1>1, EmittedIsQueued
  <2> QED BY <1>1, <1>2, <2>1 DEF Abstract!AcceptFull, PublishToFull
<1>4. /\ clock' = clock
      /\ wire' = [wire EXCEPT ![s] = wire[s] \o Emitted(s, k)]
      /\ queued' = [queued EXCEPT ![s] = <<clock>>]
      /\ call' = [call EXCEPT !.todo = call.todo \ {s}]
      /\ outgoing' = PaletteAfterDrain(s)
  BY DEF PublishToFull
<1>5. /\ call'.pc = call.pc /\ call'.resume = call.resume
      /\ call'.todo = call.todo \ {s}
  BY <1>4 DEF TypeOK, Call
<1>6. /\ PaletteBound' = PaletteBound /\ Bound(s)' = clock
      /\ \A q \in Sockets \ {s} : Bound(q)' = Bound(q)
      /\ Busy'
  BY <1>1, <1>4, <1>5 DEF PaletteBound, Busy, Bound
<1>7. Bounded(wire'[s], clock)
  <2>1. /\ wire[s] \o Emitted(s, k) \in Seq(Message)
        /\ Bounded(wire[s] \o Emitted(s, k), Bound(s))
    BY <1>1, WireAfter
  <2>2. Bounded(wire[s] \o Emitted(s, k), clock)
    BY <2>1, Typed, BoundedMore
  <2> QED BY <1>4, <2>2 DEF TypeOK
<1>8. Bounded(queued'[s], clock)
  BY <1>4, Typed DEF Bounded, TypeOK
<1>9. \A q \in Sockets \ {s} : queued'[q] = queued[q] /\ wire'[q] = wire[q]
  BY <1>4 DEF TypeOK
<1>10. Bounded(outgoing', PaletteBound')
  BY <1>4, <1>6, Typed DEF PaletteAfterDrain, FreshInv, Bounded
<1>11. FreshInv'
  BY <1>6, <1>7, <1>8, <1>9, <1>10 DEF FreshInv
<1> QED BY <1>3, <1>11

(* What was drained, and then a message that is later.                     *)
LEMMA WireDirect ==
    ASSUME IInv, FreshInv, NEW s \in Sockets, call.pc # "publish",
           NEW k \in 0..Len(messageIndices[s]),
           NEW m \in Message, Bound(s) <= m
    PROVE  Bounded((wire[s] \o Emitted(s, k)) \o <<m>>, m)
<1>1. /\ wire[s] \o Emitted(s, k) \in Seq(Message)
      /\ Bounded(wire[s] \o Emitted(s, k), Bound(s))
  BY WireAfter
<1>2. m \in Int /\ m <= m /\ Bound(s) \in Int
  BY Typed, SizeAssumption DEF Message, IInv
<1>3. Bounded(wire[s] \o Emitted(s, k), m)
  BY <1>1, <1>2, BoundedMore
<1> QED BY <1>1, <1>2, <1>3, BoundedAppend

(* A send, or an end whose close frame is accepted, outside any loop.      *)
LEMMA DirectStep ==
    ASSUME IInv, FreshInv, NEW s \in Sockets,
           NEW k \in 0..Len(messageIndices[s]),
           call = Idle, call' = call, clock < MaxMessages, clock' = clock + 1,
           wire' = [wire EXCEPT ![s] = (wire[s] \o Emitted(s, k)) \o <<clock'>>],
           queued' = [queued EXCEPT ![s] = <<>>],
           outgoing' = PaletteAfterDrain(s)
    PROVE  FreshInv' /\ (~Overrun => Abstract!Direct(s, k))
<1> USE DEF IInv
<1>1. /\ call.pc = "idle" /\ call.todo = {} /\ ~Busy /\ ~Busy'
      /\ clock + 1 \in Message
  BY Typed DEF Idle, Busy, Message
<1>2. /\ PaletteBound = clock /\ PaletteBound' = clock + 1
      /\ \A q \in Sockets : Bound(q) = clock /\ Bound(q)' = clock + 1
  BY <1>1 DEF PaletteBound, Bound
<1>3. Bounded(wire'[s], clock + 1)
  <2>1. Bounded((wire[s] \o Emitted(s, k)) \o <<clock + 1>>, clock + 1)
    BY <1>1, <1>2, Typed, WireDirect
  <2> QED BY <2>1 DEF TypeOK
<1>4. Bounded(queued'[s], clock + 1)
  BY DEF Bounded, TypeOK
<1>5. ASSUME NEW q \in Sockets \ {s}
      PROVE  Bounded(queued'[q], clock + 1) /\ Bounded(wire'[q], clock + 1)
  <2>1. queued'[q] = queued[q] /\ wire'[q] = wire[q]
    BY DEF TypeOK
  <2>2. Bounded(queued[q], clock) /\ Bounded(wire[q], clock)
    BY <1>2 DEF FreshInv
  <2>3. Bounded(queued[q], clock + 1) /\ Bounded(wire[q], clock + 1)
    BY <2>2, Typed, BoundedMore, SMTT(30)
  <2> QED BY <2>1, <2>3
<1>6. Bounded(outgoing', clock + 1)
  <2>1. Bounded(outgoing, clock + 1)
    BY <1>2, Typed, BoundedMore DEF FreshInv
  <2> QED BY <2>1, Typed DEF PaletteAfterDrain, Bounded
<1>7. FreshInv'
  BY <1>1, <1>2, <1>3, <1>4, <1>5, <1>6 DEF FreshInv
<1>8. ASSUME ~Overrun PROVE Abstract!Direct(s, k)
  <2>1. k \in 0..Len(queued[s]) /\ Emitted(s, k) = SubSeq(queued[s], 1, k)
    BY <1>1, <1>8, EmittedIsQueued
  <2>2. clock + 1 \in Int /\ (clock + 1) - 1 = clock
    BY Typed
  <2>3. Abstract!Latest(s, clock + 1)
    BY <1>2, <2>2, StreamLatest DEF FreshInv
  <2>4. clock' \in {clock, clock + 1} /\ clock' <= MaxMessages
    BY Typed
  <2> QED BY <2>1, <2>3, <2>4 DEF Abstract!Direct
<1> QED BY <1>7, <1>8

(* An iteration of publishBig, whose message was made when it began.       *)
LEMMA BigStep ==
    ASSUME IInv, FreshInv, NEW s \in Sockets, NEW k \in 0..MaxIndices,
           PublishBigTo(s, k)
    PROVE  FreshInv' /\ (~Overrun => Abstract!Direct(s, k))
<1> USE DEF IInv
<1>1. /\ s \in call.todo /\ call.pc = "big" /\ Bound(s) = clock - 1
      /\ clock \in Message /\ k \in 0..Len(messageIndices[s])
  BY Typed DEF PublishBigTo, SendTo, Bound, CallInv, Message
<1>2. /\ clock' = clock
      /\ wire' = [wire EXCEPT ![s] = (wire[s] \o Emitted(s, k)) \o <<clock>>]
      /\ queued' = [queued EXCEPT ![s] = <<>>]
      /\ call' = [call EXCEPT !.todo = call.todo \ {s}]
      /\ outgoing' = PaletteAfterDrain(s)
  BY DEF PublishBigTo, SendTo
<1>3. /\ call'.pc = call.pc /\ call'.resume = call.resume
      /\ call'.todo = call.todo \ {s}
  BY <1>2 DEF TypeOK, Call
<1>4. /\ PaletteBound' = PaletteBound /\ Bound(s)' = clock
      /\ \A q \in Sockets \ {s} : Bound(q)' = Bound(q)
      /\ Busy'
  BY <1>1, <1>2, <1>3 DEF PaletteBound, Busy, Bound
<1>5. Bounded(wire'[s], clock)
  <2>1. Bounded((wire[s] \o Emitted(s, k)) \o <<clock>>, clock)
    BY <1>1, Typed, WireDirect
  <2> QED BY <1>2, <2>1 DEF TypeOK
<1>6. Bounded(queued'[s], clock)
  BY <1>2 DEF Bounded, TypeOK
<1>7. \A q \in Sockets \ {s} : queued'[q] = queued[q] /\ wire'[q] = wire[q]
  BY <1>2 DEF TypeOK
<1>8. Bounded(outgoing', PaletteBound')
  BY <1>2, <1>4, Typed DEF PaletteAfterDrain, FreshInv, Bounded
<1>9. FreshInv'
  BY <1>4, <1>5, <1>6, <1>7, <1>8 DEF FreshInv
<1>10. ASSUME ~Overrun PROVE Abstract!Direct(s, k)
  <2>1. k \in 0..Len(queued[s]) /\ Emitted(s, k) = SubSeq(queued[s], 1, k)
    BY <1>1, <1>10, EmittedIsQueued
  <2>2. Abstract!Latest(s, clock)
    BY <1>1, Typed, StreamLatest DEF FreshInv
  <2>3. clock' \in {clock, clock + 1} /\ clock' <= MaxMessages
    BY <1>2, Typed
  <2> QED BY <1>2, <2>1, <2>2, <2>3 DEF Abstract!Direct
<1> QED BY <1>9, <1>10

(* An iteration of drain().                                                *)
LEMMA FlushStep ==
    ASSUME IInv, FreshInv, NEW k \in 0..MaxIndices, DrainStep(k)
    PROVE  FreshInv' /\ (~Overrun => Abstract!Flush(call.cursor, k))
<1> USE DEF IInv
<1> DEFINE s == call.cursor
<1>1. /\ s \in Sockets /\ call.pc = "drain" /\ k \in 0..Len(messageIndices[s])
  BY DEF DrainStep, TypeOK, Call, Pointer
<1>2. /\ clock' = clock /\ outgoing' = outgoing
      /\ wire' = [wire EXCEPT ![s] = wire[s] \o Emitted(s, k)]
      /\ queued' = [queued EXCEPT ![s] = <<>>]
      /\ call' = [call EXCEPT !.cursor = list.next[s]]
  BY DEF DrainStep
<1> HIDE DEF s
<1>3. /\ call'.pc = call.pc /\ call'.resume = call.resume
      /\ call'.todo = call.todo
  BY <1>2 DEF TypeOK, Call
<1>4. /\ PaletteBound' = PaletteBound /\ (Busy' <=> Busy)
      /\ \A q \in Sockets : Bound(q)' = Bound(q)
  BY <1>2, <1>3 DEF PaletteBound, Busy, Bound
<1>5. Bounded(wire'[s], Bound(s))
  <2>1. Bounded(wire[s] \o Emitted(s, k), Bound(s))
    BY <1>1, WireAfter
  <2> QED BY <1>1, <1>2, <2>1 DEF TypeOK
<1>6. Bounded(queued'[s], Bound(s))
  BY <1>1, <1>2 DEF Bounded, TypeOK
<1>7. \A q \in Sockets \ {s} : queued'[q] = queued[q] /\ wire'[q] = wire[q]
  BY <1>2 DEF TypeOK
<1>8. FreshInv'
  BY <1>2, <1>3, <1>4, <1>5, <1>6, <1>7 DEF FreshInv
<1>9. ASSUME ~Overrun PROVE Abstract!Flush(s, k)
  <2>1. k \in 0..Len(queued[s]) /\ Emitted(s, k) = SubSeq(queued[s], 1, k)
    BY <1>1, <1>9, EmittedIsQueued
  <2> QED BY <1>2, <2>1 DEF Abstract!Flush
<1> QED BY <1>8, <1>9 DEF s

(* A close event loses what is pending; a name that is free has nothing.   *)
LEMMA CloseStep ==
    ASSUME IInv, FreshInv, NEW s \in Sockets, Close(s)
    PROVE  FreshInv' /\ Abstract!Forget(s)
<1>1. /\ clock' = clock /\ outgoing' = outgoing /\ call' = call /\ wire' = wire
      /\ queued' = [queued EXCEPT ![s] = <<>>]
  BY DEF Close, Free
<1>2. \A q \in Sockets : queued'[q] = IF q = s THEN <<>> ELSE queued[q]
  BY <1>1 DEF IInv, TypeOK
<1>3. \A q \in Sockets : Bounded(queued'[q], Bound(q))
  BY <1>2 DEF FreshInv, Bounded
<1>4. /\ PaletteBound' = PaletteBound /\ (Busy' <=> Busy)
      /\ \A q \in Sockets : Bound(q)' = Bound(q)
  BY <1>1 DEF PaletteBound, Busy, Bound
<1>5. FreshInv'
  BY <1>1, <1>3, <1>4 DEF FreshInv
<1> QED BY <1>1, <1>5 DEF Abstract!Forget

(* The name of a closed WebSocket is used again.                           *)
LEMMA OpenStep ==
    ASSUME IInv, FreshInv, NEW s \in Sockets, Open(s)
    PROVE  FreshInv' /\ Abstract!Renew(s)
<1>1. /\ clock' = clock /\ outgoing' = outgoing /\ call' = call
      /\ queued' = queued /\ wire' = [wire EXCEPT ![s] = <<>>]
  BY DEF Open
<1>2. queued[s] = <<>>
  <2>1. s \notin Pending
    BY DEF Open, IInv, TypeOK, AliveInv
  <2>2. Len(messageIndices[s]) = 0
    BY <2>1 DEF Pending, NeedsDrainage
  <2> QED BY <2>2 DEF IInv, TypeOK, IndexInv
<1>3. \A q \in Sockets : wire'[q] = IF q = s THEN <<>> ELSE wire[q]
  BY <1>1 DEF IInv, TypeOK
<1>4. \A q \in Sockets : Bounded(wire'[q], Bound(q))
  BY <1>3 DEF FreshInv, Bounded
<1>5. /\ PaletteBound' = PaletteBound /\ (Busy' <=> Busy)
      /\ \A q \in Sockets : Bound(q)' = Bound(q)
  BY <1>1 DEF PaletteBound, Busy, Bound
<1>6. FreshInv'
  BY <1>1, <1>4, <1>5 DEF FreshInv
<1> QED BY <1>1, <1>2, <1>6 DEF Abstract!Renew

(* Subscriptions, and the begin of drain(), are invisible.                 *)
LEMMA InvisibleCalls ==
    ASSUME IInv, FreshInv,
           \/ \E s \in Sockets, t \in Topics : Subscribe(s, t) \/ Unsubscribe(s, t)
           \/ Drain
           \/ UNCHANGED vars
    PROVE  FreshInv' /\ Stutters
<1>1. UNCHANGED <<queued, wire, clock, outgoing>>
  BY DEF Subscribe, Unsubscribe, Drain, vars
<1>2. call' = call \/ (call = Idle /\ call'.pc = "drain" /\ call'.resume = "idle"
                                  /\ call'.todo = {})
  BY DEF Subscribe, Unsubscribe, Drain, vars, Idle
<1>3. /\ PaletteBound' = PaletteBound /\ (Busy' <=> Busy)
      /\ \A q \in Sockets : Bound(q)' = Bound(q)
      /\ call'.todo = call.todo
  BY <1>1, <1>2 DEF PaletteBound, Busy, Bound, Idle
<1> QED BY <1>1, <1>3 DEF FreshInv, Stutters

(* The message of a publish joins the palette when no subscriber is still  *)
(* to have it; the other ends of loops are invisible as well.              *)
LEMMA InvisibleReturns ==
    ASSUME IInv, FreshInv,
           \/ PublishReturn \/ PublishBigReturn \/ DrainReturn
           \/ \E s \in Sockets : PublishBigDropped(s)
    PROVE  FreshInv' /\ Stutters
<1> USE DEF IInv
<1>1. UNCHANGED <<queued, wire, clock>>
  BY DEF PublishReturn, PublishBigReturn, DrainReturn, PublishBigDropped
<1>2. call'.todo \subseteq call.todo
  <2>1. CASE PublishReturn \/ PublishBigReturn
    BY <2>1 DEF PublishReturn, PublishBigReturn, Idle
  <2>2. CASE DrainReturn
    <3>1. CASE call.resume = "publish"
      BY <2>2, <3>1 DEF DrainReturn, TypeOK, Call
    <3>2. CASE call.resume # "publish"
      BY <2>2, <3>2 DEF DrainReturn, Idle
    <3> QED BY <3>1, <3>2
  <2>3. CASE \E s \in Sockets : PublishBigDropped(s)
    BY <2>3 DEF PublishBigDropped, TypeOK, Call
  <2> QED BY <2>1, <2>2, <2>3
<1>3. ASSUME NEW q \in Sockets
      PROVE  Bounded(queued'[q], Bound(q)') /\ Bounded(wire'[q], Bound(q)')
  <2>1. Bound(q)' \in Int /\ Bound(q) <= Bound(q)'
    BY <1>1, <1>2, Typed DEF Bound
  <2>2. Bounded(queued[q], Bound(q)') /\ Bounded(wire[q], Bound(q)')
    BY <2>1, Typed, BoundedMore DEF FreshInv
  <2> QED BY <1>1, <2>2
<1>4. Bounded(outgoing', PaletteBound') /\ (call'.todo # {} => Busy')
  <2>1. CASE PublishReturn
    <3>1. /\ call'.todo = {} /\ ~Busy' /\ clock > 0 /\ clock \in Message
          /\ outgoing' \in {outgoing, Append(outgoing, clock)}
      BY <2>1, Typed DEF PublishReturn, Idle, Busy, CallInv, Message
    <3>2. Bounded(outgoing, clock)
      BY Typed, BoundedMore DEF FreshInv
    <3>3. clock \in Int /\ clock <= clock /\ outgoing \in Seq(Message)
      BY Typed
    <3>4. Bounded(Append(outgoing, clock), clock)
      BY <3>1, <3>2, <3>3, BoundedAppend
    <3>5. PaletteBound' = clock
      BY <1>1, <3>1 DEF PaletteBound
    <3> QED BY <3>1, <3>2, <3>4, <3>5
  <2>2. CASE PublishBigReturn
    <3>1. outgoing' = outgoing /\ call'.todo = {} /\ ~Busy'
      BY <2>2 DEF PublishBigReturn, Idle, Busy
    <3>2. PaletteBound' = clock
      BY <1>1, <3>1 DEF PaletteBound
    <3>3. Bounded(outgoing, clock)
      BY Typed, BoundedMore DEF FreshInv
    <3> QED BY <3>1, <3>2, <3>3
  <2>3. CASE DrainReturn
    <3>1. outgoing' = <<>>
      BY <2>3 DEF DrainReturn
    <3>2. call'.todo # {} => Busy'
      <4>1. CASE call.resume = "publish"
        BY <2>3, <4>1 DEF DrainReturn, Busy, TypeOK, Call
      <4>2. CASE call.resume # "publish"
        BY <2>3, <4>2 DEF DrainReturn, Idle
      <4> QED BY <4>1, <4>2
    <3> QED BY <3>1, <3>2 DEF Bounded
  <2>4. CASE \E s \in Sockets : PublishBigDropped(s)
    <3>1. /\ outgoing' = outgoing /\ call.pc = "big"
          /\ call'.pc = call.pc /\ call'.resume = call.resume
      BY <2>4 DEF PublishBigDropped, TypeOK, Call
    <3>2. Busy /\ Busy'
      BY <3>1 DEF Busy
    <3> QED BY <1>1, <3>1, <3>2 DEF FreshInv, PaletteBound
  <2> QED BY <2>1, <2>2, <2>3, <2>4
<1> QED BY <1>1, <1>3, <1>4 DEF FreshInv, Stutters

-----------------------------------------------------------------------------
(* Every step keeps the bounds and is allowed by PubSub.                   *)
LEMMA StepRefines ==
    ASSUME IInv, FreshInv, [Next]_vars
    PROVE  FreshInv' /\ ((~Overrun => Abstract!Next) \/ Stutters)
<1>0. MaxIndices \in Nat
  BY SizeAssumption
<1>1. CASE \E s \in Sockets : PublishTo(s)
  BY <1>1, AcceptStep DEF Abstract!Next
<1>2. CASE \E s \in Sockets, k \in 0..MaxIndices : PublishToFull(s, k)
  BY <1>2, AcceptFullStep DEF Abstract!Next
<1>3. CASE \/ PublishReturn \/ PublishBigReturn \/ DrainReturn
           \/ \E s \in Sockets : PublishBigDropped(s)
  BY <1>3, InvisibleReturns
<1>4. CASE \E s \in Sockets, k \in 0..MaxIndices : PublishBigTo(s, k)
  BY <1>4, BigStep DEF Abstract!Next
<1>5. CASE \E k \in 0..MaxIndices : DrainStep(k)
  <2>1. PICK k \in 0..MaxIndices : DrainStep(k)
    BY <1>5
  <2>2. call.cursor \in Sockets
    BY <2>1 DEF DrainStep, IInv, TypeOK, Call, Pointer
  <2> QED BY <2>1, <2>2, FlushStep DEF Abstract!Next
<1>6. CASE \E s \in Sockets : Open(s)
  BY <1>6, OpenStep DEF Abstract!Next
<1>7. CASE \/ \E s \in Sockets, t \in Topics : Subscribe(s, t) \/ Unsubscribe(s, t)
           \/ Drain
           \/ UNCHANGED vars
  BY <1>7, InvisibleCalls
<1>8. CASE \E sender \in Pointer, t \in Topics :
                Publish(sender, t) \/ PublishBig(sender, t)
  BY <1>8, MakeStep DEF Abstract!Next
<1>9. CASE \E s \in Sockets, k \in 0..MaxIndices : Send(s, k)
  <2>1. PICK s \in Sockets, k \in 0..MaxIndices : Send(s, k)
    BY <1>9
  <2>2. FreshInv' /\ (~Overrun => Abstract!Direct(s, k))
    BY <2>1, DirectStep DEF Send, SendTo
  <2> QED BY <2>2 DEF Abstract!Next
<1>10. CASE \E s \in Sockets, k \in 0..MaxIndices : End(s, k)
  <2>1. PICK s \in Sockets, k \in 0..MaxIndices : End(s, k)
    BY <1>10
  <2>2. FreshInv' /\ (~Overrun => Abstract!Direct(s, k))
    BY <2>1, DirectStep DEF End, Free
  <2> QED BY <2>2 DEF Abstract!Next
<1>11. CASE \E s \in Sockets : Close(s)
  BY <1>11, CloseStep DEF Abstract!Next
<1> QED BY <1>1, <1>2, <1>3, <1>4, <1>5, <1>6, <1>7, <1>8, <1>9, <1>10, <1>11
        DEF Next, CallStep

(* Until the palette outgrows the 16-bit index, publish, publishBig, send, *)
(* drain, end and close do to every WebSocket's stream what PubSub allows: *)
(* in order, nothing twice, loss only by refusal or close.                 *)
THEOREM ImplementsPubSub == Spec => RefinesPubSub
<1>1. Init => Abstract!Init
  BY DEF Init, Abstract!Init
<1>2. Init => FreshInv
  <2> SUFFICES ASSUME Init PROVE FreshInv
    OBVIOUS
  <2> QED BY DEF Init, FreshInv, Bounded, Idle
<1>3. IInv /\ FreshInv /\ [Next]_vars => FreshInv'
  BY StepRefines
<1>4. IInv /\ FreshInv /\ [Next]_vars
        => [~Overrun => Abstract!Next]_<<queued, wire, clock>>
  BY StepRefines DEF Stutters
<1> QED BY <1>1, <1>2, <1>3, <1>4, Invariance, PTL DEF Spec, RefinesPubSub
-----------------------------------------------------------------------------
(* The promise of the abstract mailboxes, for any number of WebSockets and *)
(* any capacity: wire holds what was delivered, queued what will be.       *)

MailTyped ==
    /\ clock \in Nat
    /\ queued \in [Sockets -> Seq(Nat)]
    /\ wire \in [Sockets -> Seq(Nat)]

MailInv == MailTyped /\ Abstract!InOrder

AllBelow(q, m) == \A i \in 1..Len(q) : q[i] < m

-----------------------------------------------------------------------------
(* What is left of an increasing sequence when its end is cut off.         *)
LEMMA CutOff ==
    ASSUME NEW w \in Seq(Nat), NEW b \in Seq(Nat), NEW k \in 0..Len(b),
           Abstract!Increasing(w \o b)
    PROVE  /\ w \o SubSeq(b, 1, k) \in Seq(Nat)
           /\ Abstract!Increasing(w \o SubSeq(b, 1, k))
           /\ \A m \in Nat : AllBelow(w \o b, m) => AllBelow(w \o SubSeq(b, 1, k), m)
<1> DEFINE c == SubSeq(b, 1, k)
<1>1. /\ c \in Seq(Nat) /\ Len(c) = k /\ k <= Len(b) /\ k \in Nat
      /\ \A i \in 1..k : c[i] = b[i]
  OBVIOUS
<1> HIDE DEF c
<1>2. /\ w \o c \in Seq(Nat) /\ Len(w \o c) = Len(w) + k
      /\ w \o b \in Seq(Nat) /\ Len(w \o b) = Len(w) + Len(b)
  <2>1. w \o c \in Seq(Nat) /\ w \o b \in Seq(Nat)
    BY <1>1
  <2>2. Len(w \o c) = Len(w) + Len(c)
    BY <1>1, ConcatProperties
  <2>3. Len(w \o b) = Len(w) + Len(b)
    BY ConcatProperties
  <2> QED BY <1>1, <2>1, <2>2, <2>3
<1>3. ASSUME NEW i \in 1..(Len(w) + k) PROVE (w \o c)[i] = (w \o b)[i]
  <2>1. CASE i <= Len(w)
    BY <1>1, <2>1
  <2>2. CASE i > Len(w)
    <3>1. i - Len(w) \in 1..k
      BY <1>1, <2>2
    <3>2. (w \o c)[i] = c[i - Len(w)] /\ (w \o b)[i] = b[i - Len(w)]
      BY <1>1, <2>2
    <3> QED BY <1>1, <3>1, <3>2
  <2> QED BY <1>1, <2>1, <2>2
<1> DEFINE p == w \o c
           q == w \o b
<1>4. /\ p \in Seq(Nat) /\ q \in Seq(Nat) /\ Abstract!Increasing(q)
      /\ Len(p) \in Nat /\ Len(q) \in Nat /\ Len(p) <= Len(q)
      /\ \A i \in 1..Len(p) : p[i] = q[i]
  BY <1>1, <1>2, <1>3
<1> HIDE DEF p, q
<1>5. \A i \in 1..Len(p) : i \in 1..Len(q)
  BY <1>4
<1>6. Abstract!Increasing(p)
  BY <1>4, <1>5 DEF Abstract!Increasing
<1>7. \A m \in Nat : AllBelow(q, m) => AllBelow(p, m)
  BY <1>4, <1>5 DEF AllBelow
<1> QED BY <1>2, <1>6, <1>7 DEF c, p, q

(* A later message may be appended.                                        *)
LEMMA AppendLater ==
    ASSUME NEW q \in Seq(Nat), NEW m \in Nat, Abstract!Increasing(q), AllBelow(q, m)
    PROVE  /\ q \o <<m>> \in Seq(Nat) /\ Abstract!Increasing(q \o <<m>>)
           /\ Append(q, m) \in Seq(Nat) /\ Abstract!Increasing(Append(q, m))
  BY DEF Abstract!Increasing, AllBelow

(* Every step keeps every stream in order.                                 *)
LEMMA StepInOrder == MailInv /\ [Abstract!Next]_<<queued, wire, clock>> => MailInv'
<1> SUFFICES ASSUME MailInv, [Abstract!Next]_<<queued, wire, clock>> PROVE MailInv'
  OBVIOUS
<1> USE DEF MailInv, MailTyped
<1>0. ASSUME NEW s \in Sockets
      PROVE  wire[s] \in Seq(Nat) /\ queued[s] \in Seq(Nat)
             /\ Abstract!Increasing(wire[s] \o queued[s])
  BY DEF Abstract!InOrder, Abstract!Stream
<1>1. CASE Abstract!Make
  BY <1>1 DEF Abstract!Make, Abstract!InOrder, Abstract!Stream
<1>2. ASSUME NEW s \in Sockets, Abstract!Accept(s) PROVE MailInv'
  <2>1. AllBelow(wire[s] \o queued[s], clock)
    BY <1>2 DEF Abstract!Accept, Abstract!Latest, Abstract!Stream, AllBelow
  <2>2. wire[s] \o Append(queued[s], clock) = Append(wire[s] \o queued[s], clock)
    BY <1>0
  <2>3. Abstract!Increasing(wire[s] \o Append(queued[s], clock))
    <3>1. wire[s] \o queued[s] \in Seq(Nat)
      BY <1>0
    <3>2. Abstract!Increasing(Append(wire[s] \o queued[s], clock))
      BY <1>0, <2>1, <3>1, AppendLater
    <3> QED BY <2>2, <3>2
  <2>4. /\ wire' = wire /\ clock' = clock
        /\ queued' = [queued EXCEPT ![s] = Append(queued[s], clock)]
    BY <1>2 DEF Abstract!Accept
  <2> QED BY <2>3, <2>4 DEF Abstract!InOrder, Abstract!Stream
<1>3. ASSUME NEW s \in Sockets, NEW k, Abstract!AcceptFull(s, k) PROVE MailInv'
  <2> DEFINE p == wire[s] \o SubSeq(queued[s], 1, k)
  <2>1. AllBelow(wire[s] \o queued[s], clock) /\ k \in 0..Len(queued[s])
    BY <1>3 DEF Abstract!AcceptFull, Abstract!Latest, Abstract!Stream, AllBelow
  <2>2. p \in Seq(Nat) /\ Abstract!Increasing(p) /\ AllBelow(p, clock)
    BY <1>0, <2>1, CutOff
  <2>3. /\ wire' = [wire EXCEPT ![s] = p] /\ clock' = clock
        /\ queued' = [queued EXCEPT ![s] = <<clock>>]
    BY <1>3 DEF Abstract!AcceptFull
  <2> HIDE DEF p
  <2>4. Abstract!Increasing(p \o <<clock>>)
    BY <2>2, AppendLater
  <2>5. MailTyped'
    BY <2>2, <2>3
  <2> QED BY <2>3, <2>4, <2>5 DEF Abstract!InOrder, Abstract!Stream
<1>4. ASSUME NEW s \in Sockets, NEW p \in Seq(Nat), Abstract!Increasing(p),
             clock' \in Nat, wire' = [wire EXCEPT ![s] = p],
             queued' = [queued EXCEPT ![s] = <<>>]
      PROVE  MailInv'
  <2>1. p \o <<>> = p
    OBVIOUS
  <2>2. MailTyped'
    BY <1>4
  <2> QED BY <1>4, <2>1, <2>2 DEF Abstract!InOrder, Abstract!Stream
<1>5. ASSUME NEW s \in Sockets, NEW k, Abstract!Flush(s, k) PROVE MailInv'
  <2>1. /\ wire[s] \o SubSeq(queued[s], 1, k) \in Seq(Nat)
        /\ Abstract!Increasing(wire[s] \o SubSeq(queued[s], 1, k))
    BY <1>0, <1>5, CutOff DEF Abstract!Flush
  <2> QED BY <1>4, <1>5, <2>1 DEF Abstract!Flush
<1>6. ASSUME NEW s \in Sockets, NEW k, Abstract!Direct(s, k) PROVE MailInv'
  <2> DEFINE p == wire[s] \o SubSeq(queued[s], 1, k)
  <2>1. /\ AllBelow(wire[s] \o queued[s], clock') /\ k \in 0..Len(queued[s])
        /\ clock' \in Nat
    BY <1>6 DEF Abstract!Direct, Abstract!Latest, Abstract!Stream, AllBelow
  <2>2. p \in Seq(Nat) /\ Abstract!Increasing(p) /\ AllBelow(p, clock')
    BY <1>0, <2>1, CutOff
  <2>3. /\ wire' = [wire EXCEPT ![s] = p \o <<clock'>>]
        /\ queued' = [queued EXCEPT ![s] = <<>>]
    BY <1>6 DEF Abstract!Direct
  <2> HIDE DEF p
  <2>4. p \o <<clock'>> \in Seq(Nat) /\ Abstract!Increasing(p \o <<clock'>>)
    BY <2>1, <2>2, AppendLater
  <2> QED BY <1>4, <2>1, <2>3, <2>4
<1>7. ASSUME NEW s \in Sockets, Abstract!Forget(s) PROVE MailInv'
  <2>1. wire[s] \o SubSeq(queued[s], 1, 0) = wire[s]
    BY <1>0
  <2>2. Abstract!Increasing(wire[s])
    <3>1. 0 \in 0..Len(queued[s])
      BY <1>0
    <3>2. Abstract!Increasing(wire[s] \o SubSeq(queued[s], 1, 0))
      BY <1>0, <3>1, CutOff
    <3> QED BY <2>1, <3>2
  <2>3. wire' = [wire EXCEPT ![s] = wire[s]]
    BY <1>7 DEF Abstract!Forget
  <2> QED BY <1>0, <1>4, <1>7, <2>2, <2>3 DEF Abstract!Forget
<1>8. ASSUME NEW s \in Sockets, Abstract!Renew(s) PROVE MailInv'
  <2>1. queued' = [queued EXCEPT ![s] = <<>>]
    BY <1>8 DEF Abstract!Renew
  <2>2. Abstract!Increasing(<<>>) /\ <<>> \in Seq(Nat)
    BY DEF Abstract!Increasing
  <2> QED BY <1>4, <1>8, <2>1, <2>2 DEF Abstract!Renew
<1>9. CASE UNCHANGED <<queued, wire, clock>>
  BY <1>9 DEF Abstract!InOrder, Abstract!Stream
<1> QED BY <1>1, <1>2, <1>3, <1>5, <1>6, <1>7, <1>8, <1>9 DEF Abstract!Next

(* The mailboxes are empty at first.                                       *)
LEMMA MailAtFirst == Abstract!Init => MailInv
<1> SUFFICES ASSUME Abstract!Init PROVE MailInv
  OBVIOUS
<1>1. ASSUME NEW s \in Sockets PROVE Abstract!Stream(s) = <<>>
  <2>1. <<>> \o <<>> = <<>>
    OBVIOUS
  <2> QED BY <2>1 DEF Abstract!Init, Abstract!Stream
<1>2. Abstract!InOrder
  BY <1>1 DEF Abstract!InOrder, Abstract!Increasing
<1> QED BY <1>2 DEF Abstract!Init, MailInv, MailTyped

(* PubSub gives every WebSocket its messages in the order in which they    *)
(* were made and none of them twice.                                       *)
THEOREM Promise == Abstract!Spec => []Abstract!InOrder
<1>1. MailInv => Abstract!InOrder
  BY DEF MailInv
<1>2. MailInv /\ [Abstract!Next]_Abstract!vars => MailInv'
  BY StepInOrder DEF Abstract!vars
<1> QED BY <1>1, <1>2, MailAtFirst, PTL DEF Abstract!Spec

(* So do publish, publishBig, send and the drains of TopicTree, which      *)
(* implement it, while the palette does not outgrow the index.             *)
THEOREM DeliveredInOrder == Spec /\ []~Overrun => []Abstract!InOrder
<1>1. ~Overrun /\ [~Overrun => Abstract!Next]_<<queued, wire, clock>>
        => [Abstract!Next]_<<queued, wire, clock>>
  OBVIOUS
<1>2. MailInv => Abstract!InOrder
  BY DEF MailInv
<1> QED BY <1>1, <1>2, MailAtFirst, StepInOrder, ImplementsPubSub, PTL DEF RefinesPubSub

=============================================================================
