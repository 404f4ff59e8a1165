------------------------------- MODULE TopicTree -------------------------------
(***************************************************************************)
(* The publish/subscribe engine of an App: uWS::TopicTree together with    *)
(* the WebSocket operations that drive it (subscribe, unsubscribe,         *)
(* publish, send, end, close) and the loop's pre and post handlers.        *)
(*                                                                         *)
(* Everything runs on the one loop thread.  A publish to a topic does not  *)
(* write to the subscribers: it stores the message once in a palette and   *)
(* gives every subscriber the 16-bit index of that entry.  Subscribers     *)
(* with pending indices are linked in an intrusive doubly linked list.     *)
(* Draining a subscriber hands its messages to WebSocket::send, which may  *)
(* refuse one (backpressure over the limit), and then the rest of the      *)
(* batch is dropped.  The palette is emptied when the list becomes empty.  *)
(*                                                                         *)
(* A message is its position in the order of the calls that made it, so    *)
(* "sent later" is "greater".  The loops of the code that call back        *)
(* (publish, publishBig, drain) are one step per iteration; `call` holds   *)
(* the call in progress.  Topics are iterated in any order: they are       *)
(* unordered sets.                                                         *)
(***************************************************************************)
EXTENDS Naturals, Sequences, FiniteSets

CONSTANTS
    Sockets,      \* WebSockets; also names their Subscriber objects
    Topics,       \* topic names
    Nil,          \* nullptr
    MaxIndices,   \* capacity of Subscriber::messageIndices (32 in the code)
    PaletteMax,   \* UINT16_MAX in the code: the widest index
    MaxMessages,  \* bound of the model on the number of messages made
    Garbage       \* what an uninitialised prev or next may hold

ASSUME NilAssumption == Nil \notin Sockets
ASSUME SizeAssumption == /\ MaxIndices \in Nat \ {0}
                         /\ PaletteMax \in Nat \ {0}
                         /\ MaxMessages \in Nat
ASSUME GarbageAssumption == /\ Garbage \subseteq Sockets \cup {Nil}
                            /\ Garbage # {}

VARIABLES
    open,            \* WebSockets that have neither ended nor closed
    subscribers,     \* those whose WebSocketData::subscriber is not null
    subs,            \* Subscriber::topics
    topics,          \* TopicTree::topics: a map from existing names to sets
    list,            \* drainableSubscribers (head) and every prev and next
    messageIndices,  \* the first numMessageIndices entries of each array
    outgoing,        \* outgoingMessages, the palette
    call,            \* the TopicTree call in progress
    clock,           \* messages made so far
    queued,          \* history: the messages each pending index stands for
    wire             \* history: what each WebSocket was given to send

vars == <<open, subscribers, subs, topics, list, messageIndices, outgoing,
          call, clock, queued, wire>>

Message == 1..MaxMessages
Pointer == Sockets \cup {Nil}

(* The index written is (uint16_t) outgoingMessages.size().                *)
Index == 0..PaletteMax

(* `sender` and `topic` are the arguments of publish, `todo` the members   *)
(* its loop has still to visit, `cursor` the loop variable of drain(),     *)
(* `resume` what drain() returns to.                                       *)
Call == [pc : {"idle", "publish", "big", "drain"},
         resume : {"idle", "publish"},
         sender : Pointer,
         topic : Topics \cup {Nil},
         todo : SUBSET Sockets,
         cursor : Pointer,
         referenced : BOOLEAN]

Idle == [pc |-> "idle", resume |-> "idle", sender |-> Nil, topic |-> Nil,
         todo |-> {}, cursor |-> Nil, referenced |-> FALSE]

-----------------------------------------------------------------------------
(* The intrusive list.                                                     *)

NeedsDrainage(s) == messageIndices[s] # <<>>

Unlink(l, s) ==
    [head |-> IF l.head = s THEN l.next[s] ELSE l.head,
     next |-> IF l.prev[s] = Nil THEN l.next
              ELSE [l.next EXCEPT ![l.prev[s]] = l.next[s]],
     prev |-> IF l.next[s] = Nil THEN l.prev
              ELSE [l.prev EXCEPT ![l.next[s]] = l.prev[s]]]

\* Mutant: prev keeps what an earlier life of the subscriber left there.
PushHeadStalePrev(l, s) ==
    [head |-> s,
     next |-> [l.next EXCEPT ![s] = l.head],
     prev |-> IF l.head = Nil THEN l.prev
              ELSE [l.prev EXCEPT ![l.head] = s]]

PushHead(l, s) ==
    [head |-> s,
     next |-> [l.next EXCEPT ![s] = l.head],
     prev |-> IF l.head = Nil THEN [l.prev EXCEPT ![s] = Nil]
              ELSE [l.prev EXCEPT ![s] = Nil, ![l.head] = s]]

-----------------------------------------------------------------------------
(* What drain(s) does to the list and to the palette.                      *)

ListAfterDrain(s) == IF NeedsDrainage(s) THEN Unlink(list, s) ELSE list

\* Mutant: the palette is emptied although others still refer to it.
PaletteAfterDrainAlways(s) == IF NeedsDrainage(s) THEN <<>> ELSE outgoing

PaletteAfterDrain(s) ==
    IF NeedsDrainage(s) /\ ListAfterDrain(s).head = Nil THEN <<>> ELSE outgoing

(* The loop of drainImpl: the callback accepts the first k of the pending  *)
(* messages and, when k is not all of them, refuses the next and stops.    *)
Emitted(s, k) == [i \in 1..k |-> outgoing[messageIndices[s][i] + 1]]

(* The index a publish writes for the message it is about to push.         *)
NextIndex(palette) == Len(palette) % (PaletteMax + 1)

(* freeSubscriber, the part about topics.                                  *)
TopicsWithout(s) ==
    [t \in {u \in DOMAIN topics : ~(u \in subs[s] /\ topics[u] = {s})} |->
        IF t \in subs[s] THEN topics[t] \ {s} ELSE topics[t]]

(* freeSubscriber: leave every topic, and the list when we are in it.      *)
\* Mutant: a pending subscriber is deleted while it is still linked.
FreeLinked(s) ==
    /\ subscribers' = subscribers \ {s}
    /\ topics' = TopicsWithout(s)
    /\ subs' = [subs EXCEPT ![s] = {}]
    /\ list' = list
    /\ messageIndices' = [messageIndices EXCEPT ![s] = <<>>]
    /\ queued' = [queued EXCEPT ![s] = <<>>]

Free(s) ==
    /\ subscribers' = subscribers \ {s}
    /\ topics' = TopicsWithout(s)
    /\ subs' = [subs EXCEPT ![s] = {}]
    /\ list' = ListAfterDrain(s)
    /\ messageIndices' = [messageIndices EXCEPT ![s] = <<>>]
    /\ queued' = [queued EXCEPT ![s] = <<>>]

-----------------------------------------------------------------------------
Init ==
    /\ open = Sockets
    /\ subscribers = {}
    /\ subs = [s \in Sockets |-> {}]
    /\ topics = [t \in {} |-> {}]
    /\ list = [head |-> Nil,
               next |-> [s \in Sockets |-> Nil],
               prev |-> [s \in Sockets |-> Nil]]
    /\ messageIndices = [s \in Sockets |-> <<>>]
    /\ outgoing = <<>>
    /\ call = Idle
    /\ clock = 0
    /\ queued = [s \in Sockets |-> <<>>]
    /\ wire = [s \in Sockets |-> <<>>]

(* A new connection: the name of a closed WebSocket is used again.         *)
Open(s) ==
    /\ call = Idle
    /\ s \notin open
    /\ open' = open \cup {s}
    /\ wire' = [wire EXCEPT ![s] = <<>>]
    /\ UNCHANGED <<subscribers, subs, topics, list, messageIndices, outgoing,
                   call, clock, queued>>

(* WebSocket::subscribe, which creates the Subscriber on first use, and    *)
(* TopicTree::subscribe.  A second subscription to t changes nothing.      *)
Subscribe(s, t) ==
    /\ call = Idle
    /\ s \in open
    /\ t \notin subs[s]
    /\ subscribers' = subscribers \cup {s}
    /\ \/ s \in subscribers /\ list' = list
       \/ /\ s \notin subscribers
          /\ \E p, n \in Garbage :
                list' = [list EXCEPT !.prev[s] = p, !.next[s] = n]
    /\ subs' = [subs EXCEPT ![s] = @ \cup {t}]
    /\ topics' = [u \in DOMAIN topics \cup {t} |->
                    IF u = t
                    THEN (IF t \in DOMAIN topics THEN topics[t] ELSE {}) \cup {s}
                    ELSE topics[u]]
    /\ UNCHANGED <<open, messageIndices, outgoing, call, clock, queued, wire>>

(* WebSocket::unsubscribe and TopicTree::unsubscribe.  The Subscriber      *)
(* stays, with what is pending, when it leaves its last topic.             *)
\* Mutant: the topic stays when its last subscriber leaves.
UnsubscribeKeepTopic(s, t) ==
    /\ call = Idle
    /\ s \in subscribers
    /\ t \in subs[s]
    /\ subs' = [subs EXCEPT ![s] = @ \ {t}]
    /\ topics' = [topics EXCEPT ![t] = @ \ {s}]
    /\ UNCHANGED <<open, subscribers, list, messageIndices, outgoing, call,
                   clock, queued, wire>>

Unsubscribe(s, t) ==
    /\ call = Idle
    /\ s \in subscribers
    /\ t \in DOMAIN topics
    /\ t \in subs[s]
    /\ subs' = [subs EXCEPT ![s] = @ \ {t}]
    /\ topics' = [u \in {v \in DOMAIN topics : ~(v = t /\ topics[t] = {s})} |->
                    IF u = t THEN topics[t] \ {s} ELSE topics[u]]
    /\ UNCHANGED <<open, subscribers, list, messageIndices, outgoing, call,
                   clock, queued, wire>>

(* publish, up to its loop: App::publish has no sender; WebSocket::publish *)
(* has itself as sender, and needs a Subscriber.  A full palette is        *)
(* drained first, and drain() does nothing when its list is empty.         *)
Publish(sender, t) ==
    /\ call = Idle
    /\ sender \in subscribers \cup {Nil}
    /\ t \in DOMAIN topics
    /\ clock < MaxMessages
    /\ clock' = clock + 1
    /\ call' =
         LET full == Len(outgoing) = PaletteMax /\ list.head # Nil
         IN  [pc |-> IF full THEN "drain" ELSE "publish",
              resume |-> IF full THEN "publish" ELSE "idle",
              sender |-> sender,
              topic |-> t,
              todo |-> topics[t] \ {sender},
              cursor |-> IF full THEN list.head ELSE Nil,
              referenced |-> topics[t] \ {sender} # {}]
    /\ UNCHANGED <<open, subscribers, subs, topics, list, messageIndices,
                   outgoing, queued, wire>>

(* One iteration of the loop of publish, for a subscriber with room.       *)
\* Mutant: nobody looks whether there is room.
PublishToNoLimit(s) ==
    /\ call.pc = "publish"
    /\ s \in call.todo
    /\ messageIndices' =
         [messageIndices EXCEPT ![s] = Append(@, NextIndex(outgoing))]
    /\ list' = IF NeedsDrainage(s) THEN list ELSE PushHead(list, s)
    /\ queued' = [queued EXCEPT ![s] = Append(@, clock)]
    /\ call' = [call EXCEPT !.todo = @ \ {s}]
    /\ UNCHANGED <<open, subscribers, subs, topics, outgoing, clock, wire>>

PublishTo(s) ==
    /\ call.pc = "publish"
    /\ s \in call.todo
    /\ Len(messageIndices[s]) # MaxIndices
    /\ messageIndices' =
         [messageIndices EXCEPT ![s] = Append(@, NextIndex(outgoing))]
    /\ list' = IF NeedsDrainage(s) THEN list ELSE PushHead(list, s)
    /\ queued' = [queued EXCEPT ![s] = Append(@, clock)]
    /\ call' = [call EXCEPT !.todo = @ \ {s}]
    /\ UNCHANGED <<open, subscribers, subs, topics, outgoing, clock, wire>>

(* The same for a subscriber whose array is full: drain(s), which may also *)
(* empty the palette, and then the message is its first pending one.       *)
PublishToFull(s, k) ==
    /\ call.pc = "publish"
    /\ s \in call.todo
    /\ Len(messageIndices[s]) = MaxIndices
    /\ k \in 0..MaxIndices
    /\ wire' = [wire EXCEPT ![s] = @ \o Emitted(s, k)]
    /\ outgoing' = PaletteAfterDrain(s)
    /\ messageIndices' =
         [messageIndices EXCEPT ![s] = <<NextIndex(outgoing')>>]
    /\ list' = PushHead(ListAfterDrain(s), s)
    /\ queued' = [queued EXCEPT ![s] = <<clock>>]
    /\ call' = [call EXCEPT !.todo = @ \ {s}]
    /\ UNCHANGED <<open, subscribers, subs, topics, clock>>

(* The end of publish: the message is stored if anybody refers to it.      *)
PublishReturn ==
    /\ call.pc = "publish"
    /\ call.todo = {}
    /\ outgoing' = IF call.referenced THEN Append(outgoing, clock) ELSE outgoing
    /\ call' = Idle
    /\ UNCHANGED <<open, subscribers, subs, topics, list, messageIndices,
                   clock, queued, wire>>

(* WebSocket::send to one socket, past the limit check: drain(subscriber)  *)
(* first, then the message itself.                                         *)
\* Mutant: the message overtakes what was published before it.
SendToNoDrain(s, k) ==
    /\ k = 0
    /\ wire' = [wire EXCEPT ![s] = Append(@, clock')]
    /\ UNCHANGED <<list, messageIndices, outgoing, queued>>

SendTo(s, k) ==
    /\ k \in 0..Len(messageIndices[s])
    /\ wire' = [wire EXCEPT ![s] = (@ \o Emitted(s, k)) \o <<clock'>>]
    /\ list' = ListAfterDrain(s)
    /\ outgoing' = PaletteAfterDrain(s)
    /\ messageIndices' = [messageIndices EXCEPT ![s] = <<>>]
    /\ queued' = [queued EXCEPT ![s] = <<>>]

(* A send by the application.  A send over the limit returns DROPPED       *)
(* before it touches anything and is not a step.                           *)
Send(s, k) ==
    /\ call = Idle
    /\ s \in open
    /\ clock < MaxMessages
    /\ clock' = clock + 1
    /\ SendTo(s, k)
    /\ UNCHANGED <<open, subscribers, subs, topics, call>>

(* publishBig: every member but the sender is sent the message directly.   *)
PublishBig(sender, t) ==
    /\ call = Idle
    /\ sender \in subscribers \cup {Nil}
    /\ t \in DOMAIN topics
    /\ clock < MaxMessages
    /\ clock' = clock + 1
    /\ call' = [Idle EXCEPT !.pc = "big", !.sender = sender, !.topic = t,
                            !.todo = topics[t] \ {sender}]
    /\ UNCHANGED <<open, subscribers, subs, topics, list, messageIndices,
                   outgoing, queued, wire>>

PublishBigTo(s, k) ==
    /\ call.pc = "big"
    /\ s \in call.todo
    /\ clock' = clock
    /\ SendTo(s, k)
    /\ call' = [call EXCEPT !.todo = @ \ {s}]
    /\ UNCHANGED <<open, subscribers, subs, topics>>

(* That send returned DROPPED.                                             *)
PublishBigDropped(s) ==
    /\ call.pc = "big"
    /\ s \in call.todo
    /\ call' = [call EXCEPT !.todo = @ \ {s}]
    /\ UNCHANGED <<open, subscribers, subs, topics, list, messageIndices,
                   outgoing, clock, queued, wire>>

PublishBigReturn ==
    /\ call.pc = "big"
    /\ call.todo = {}
    /\ call' = Idle
    /\ UNCHANGED <<open, subscribers, subs, topics, list, messageIndices,
                   outgoing, clock, queued, wire>>

(* drain(), called by the pre and the post handler of every loop iteration *)
(* (and by publish, above).                                                *)
\* Mutant: the handlers drain only a palette that has become large.
DrainLarge ==
    /\ call = Idle
    /\ list.head # Nil
    /\ Len(outgoing) >= PaletteMax
    /\ call' = [Idle EXCEPT !.pc = "drain", !.cursor = list.head]
    /\ UNCHANGED <<open, subscribers, subs, topics, list, messageIndices,
                   outgoing, clock, queued, wire>>

Drain ==
    /\ call = Idle
    /\ list.head # Nil
    /\ call' = [Idle EXCEPT !.pc = "drain", !.cursor = list.head]
    /\ UNCHANGED <<open, subscribers, subs, topics, list, messageIndices,
                   outgoing, clock, queued, wire>>

(* One iteration of its loop: drainImpl, which leaves prev and next.       *)
DrainStep(k) ==
    /\ call.pc = "drain"
    /\ call.cursor # Nil
    /\ LET s == call.cursor
       IN  /\ k \in 0..Len(messageIndices[s])
           /\ wire' = [wire EXCEPT ![s] = @ \o Emitted(s, k)]
           /\ messageIndices' = [messageIndices EXCEPT ![s] = <<>>]
           /\ queued' = [queued EXCEPT ![s] = <<>>]
           /\ call' = [call EXCEPT !.cursor = list.next[s]]
    /\ UNCHANGED <<open, subscribers, subs, topics, list, outgoing, clock>>

DrainReturn ==
    /\ call.pc = "drain"
    /\ call.cursor = Nil
    /\ list' = [list EXCEPT !.head = Nil]
    /\ outgoing' = <<>>
    /\ call' = IF call.resume = "publish"
               THEN [call EXCEPT !.pc = "publish", !.resume = "idle"]
               ELSE Idle
    /\ UNCHANGED <<open, subscribers, subs, topics, messageIndices, clock,
                   queued, wire>>

(* WebSocket::end whose close frame is accepted: the frame is sent as any  *)
(* message, so what is pending goes first, and then freeSubscriber.        *)
End(s, k) ==
    /\ call = Idle
    /\ s \in open
    /\ clock < MaxMessages
    /\ clock' = clock + 1
    /\ open' = open \ {s}
    /\ k \in 0..Len(messageIndices[s])
    /\ wire' = [wire EXCEPT ![s] = (@ \o Emitted(s, k)) \o <<clock'>>]
    /\ outgoing' = PaletteAfterDrain(s)
    /\ Free(s)
    /\ UNCHANGED call

(* The close event of the socket, or WebSocket::end whose close frame is   *)
(* refused: freeSubscriber, and nothing empties the palette.               *)
Close(s) ==
    /\ call = Idle
    /\ s \in open
    /\ open' = open \ {s}
    /\ Free(s)
    /\ UNCHANGED <<outgoing, call, clock, wire>>

-----------------------------------------------------------------------------
(* The steps of a call in progress, and the calls.                         *)
CallStep ==
    \/ \E s \in Sockets : PublishTo(s)
    \/ \E s \in Sockets, k \in 0..MaxIndices : PublishToFull(s, k)
    \/ PublishReturn
    \/ \E s \in Sockets, k \in 0..MaxIndices : PublishBigTo(s, k)
    \/ \E s \in Sockets : PublishBigDropped(s)
    \/ PublishBigReturn
    \/ \E k \in 0..MaxIndices : DrainStep(k)
    \/ DrainReturn

Next ==
    \/ CallStep
    \/ \E s \in Sockets : Open(s)
    \/ \E s \in Sockets, t \in Topics : Subscribe(s, t)
    \/ \E s \in Sockets, t \in Topics : Unsubscribe(s, t)
    \/ \E sender \in Pointer, t \in Topics : Publish(sender, t)
    \/ \E sender \in Pointer, t \in Topics : PublishBig(sender, t)
    \/ \E s \in Sockets, k \in 0..MaxIndices : Send(s, k)
    \/ Drain
    \/ \E s \in Sockets, k \in 0..MaxIndices : End(s, k)
    \/ \E s \in Sockets : Close(s)

Spec == Init /\ [][Next]_vars

(* A call returns, and every loop iteration runs the pre and the post      *)
(* handler after a finite number of application callbacks.                 *)
FairSpec == Spec /\ WF_vars(CallStep) /\ SF_vars(Drain)

-----------------------------------------------------------------------------
(* Properties.                                                             *)

Pending == {s \in Sockets : NeedsDrainage(s)}

(* More entries than an index can tell apart: see PaletteFitsIndex.        *)
Overrun == Len(outgoing) > PaletteMax

(* The types of the variables; a pending subscriber holds at most          *)
(* MaxIndices indices (the length of the array messageIndices).            *)
TypeOK ==
    /\ open \subseteq Sockets
    /\ subscribers \subseteq open
    /\ subs \in [Sockets -> SUBSET Topics]
    /\ DOMAIN topics \subseteq Topics
    /\ \A t \in DOMAIN topics : topics[t] \subseteq Sockets
    /\ list \in [head : Pointer, next : [Sockets -> Pointer],
                 prev : [Sockets -> Pointer]]
    /\ messageIndices \in [Sockets -> Seq(Index)]
    /\ \A s \in Sockets : Len(messageIndices[s]) <= MaxIndices
    /\ outgoing \in Seq(Message)
    /\ call \in Call
    /\ clock \in 0..MaxMessages
    /\ queued \in [Sockets -> Seq(Message)]
    /\ wire \in [Sockets -> Seq(Message)]

(* Following next from where the walk starts (the head, or drain()'s loop  *)
(* variable) for as many steps as there are subscribers.                   *)
Walk ==
    LET start == IF call.pc = "drain" THEN call.cursor ELSE list.head
        w[i \in 0..Cardinality(Sockets)] ==
            IF i = 0 THEN start
            ELSE IF w[i - 1] = Nil THEN Nil ELSE list.next[w[i - 1]]
    IN  w

(* The list of drainableSubscribers, of which prev and next are undefined  *)
(* outside it and stale after drain(), ends, and visits exactly the        *)
(* subscribers with pending messages, none of which has been deleted.      *)
DrainListExact ==
    /\ Walk[Cardinality(Sockets)] = Nil
    /\ {Walk[i] : i \in DOMAIN Walk} \ {Nil} = Pending
    /\ Pending \subseteq subscribers

(* Neighbours agree: what unlinkDrainableSubscriber relies on, for every   *)
(* subscriber in the list whenever no drain() is under way.                *)
LinksAgree ==
    call.pc # "drain" =>
        /\ list.head = Nil <=> Pending = {}
        /\ list.head # Nil => list.head \in Pending /\ list.prev[list.head] = Nil
        /\ \A s \in Pending :
            /\ list.next[s] # Nil => /\ list.next[s] \in Pending
                                    /\ list.prev[list.next[s]] = s
            /\ list.prev[s] # Nil => /\ list.prev[s] \in Pending
                                    /\ list.next[list.prev[s]] = s
            /\ list.prev[s] = Nil => list.head = s

(* What the i-th pending index of s denotes: an entry of the palette, or   *)
(* the message that the publish in progress has yet to push.               *)
Denotes(s, i) ==
    LET x == messageIndices[s][i]
    IN  \/ x < Len(outgoing) /\ outgoing[x + 1] = queued[s][i]
        \/ /\ x = Len(outgoing) /\ queued[s][i] = clock
           /\ call.pc = "publish" /\ call.referenced

(* As long as the palette has not outgrown the index type, every pending   *)
(* index of every subscriber still denotes the message that was published  *)
(* to it, although drain(s) and drain() empty the palette in between.      *)
IndexSound ==
    ~Overrun =>
        \A s \in Sockets :
            /\ Len(queued[s]) = Len(messageIndices[s])
            /\ \A i \in 1..Len(messageIndices[s]) : Denotes(s, i)

(* A topic exists exactly while it has a subscriber, and the two sides of  *)
(* a subscription agree: Subscriber::topics holds pointers into topics.    *)
TopicsConsistent ==
    /\ \A t \in DOMAIN topics :
        topics[t] # {} /\ topics[t] = {s \in Sockets : t \in subs[s]}
    /\ \A s \in Sockets : /\ subs[s] \subseteq DOMAIN topics
                          /\ subs[s] # {} => s \in subscribers

(* Every step is one that PubSub allows, until the palette outgrows the    *)
(* index type: order, no duplicates, and loss only where the socket        *)
(* refuses or goes away.                                                   *)
Abstract == INSTANCE PubSub WITH mailbox <- queued, Capacity <- MaxIndices
RefinesPubSub ==
    Abstract!Init /\ [][~Overrun => Abstract!Next]_<<queued, wire, clock>>

(* What is published does not stay buffered: a pending message is handed   *)
(* to the socket, refused or dropped with its WebSocket.                   *)
DrainsEventually ==
    \A s \in Sockets, m \in Message :
        (\E i \in 1..Len(queued[s]) : queued[s][i] = m)
            ~> ~(\E i \in 1..Len(queued[s]) : queued[s][i] = m)

(* "Palette of outgoing messages, up to 64k" (TopicTree.h:102): 64k is     *)
(* what a 16-bit index can tell apart.                                     *)
PaletteFitsIndex == Len(outgoing) <= PaletteMax + 1

=============================================================================
