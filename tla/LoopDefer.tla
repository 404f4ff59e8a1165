------------------------------- MODULE LoopDefer -------------------------------
(***************************************************************************)
(* Loop::defer, called from any thread, and Loop::wakeupCb, called by the  *)
(* loop's own thread: two queues, a mutex over which of them is current,   *)
(* and the wakeup of uSockets.  The loop runs the callbacks of the queue   *)
(* that is not current without holding the mutex.  A callback may itself   *)
(* defer another one.  A callback is its number in the order of pushes.    *)
(***************************************************************************)
EXTENDS Naturals, Sequences

CONSTANTS
    Threads,       \* threads other than the loop's that call defer
    LoopThread,    \* the loop's thread
    Nobody,        \* what a free mutex has instead of a holder
    MaxCallbacks   \* bound of the model on the number of callbacks

ASSUME ThreadAssumption == /\ LoopThread \notin Threads
                           /\ Nobody \notin Threads \cup {LoopThread}
ASSUME BoundAssumption == MaxCallbacks \in Nat

VARIABLES
    mutex,         \* holder of deferMutex, or Nobody
    current,       \* currentDeferQueue
    queues,        \* deferQueues
    wakeup,        \* a wakeup is pending in uSockets
    pc,            \* where in defer each thread is ("no": not in it)
    into,          \* the queue that defer has read from currentDeferQueue
    loop,          \* where in wakeupCb the loop is
    old,           \* oldDeferQueue
    next,          \* index of the callback the loop of wakeupCb is at
    called,        \* calls of defer so far
    made,          \* callbacks pushed so far
    ran            \* history: the callbacks that were called, in order

vars == <<mutex, current, queues, wakeup, pc, into, loop, old, next, called,
          made, ran>>

AllThreads == Threads \cup {LoopThread}
Callback == 1..MaxCallbacks

Other(q) == (q + 1) % 2

Init ==
    /\ mutex = Nobody
    /\ current = 0
    /\ queues = [q \in {0, 1} |-> <<>>]
    /\ wakeup = FALSE
    /\ pc = [t \in AllThreads |-> "no"]
    /\ into = [t \in AllThreads |-> 0]
    /\ loop = "poll"
    /\ old = 0
    /\ next = 1
    /\ called = 0
    /\ made = 0
    /\ ran = <<>>

-----------------------------------------------------------------------------
(* Loop::defer, in thread t.  The loop's thread is in it only from inside  *)
(* a callback.                                                             *)

Call(t) ==
    /\ pc[t] = "no"
    /\ t = LoopThread => loop = "inside"
    /\ called < MaxCallbacks
    /\ called' = called + 1
    /\ pc' = [pc EXCEPT ![t] = "lock"]
    /\ UNCHANGED <<mutex, current, queues, wakeup, into, loop, old, next,
                   made, ran>>

\* Mutant: defer does not take the mutex.
LockNot(t) ==
    /\ pc[t] = "lock"
    /\ pc' = [pc EXCEPT ![t] = "select"]
    /\ UNCHANGED <<mutex, current, queues, wakeup, into, loop, old, next,
                   called, made, ran>>

Lock(t) ==
    /\ pc[t] = "lock"
    /\ mutex = Nobody
    /\ mutex' = t
    /\ pc' = [pc EXCEPT ![t] = "select"]
    /\ UNCHANGED <<current, queues, wakeup, into, loop, old, next, called,
                   made, ran>>

(* deferQueues[currentDeferQueue].emplace_back(cb), in its two parts.      *)
Select(t) ==
    /\ pc[t] = "select"
    /\ into' = [into EXCEPT ![t] = current]
    /\ pc' = [pc EXCEPT ![t] = "push"]
    /\ UNCHANGED <<mutex, current, queues, wakeup, loop, old, next, called,
                   made, ran>>

Push(t) ==
    /\ pc[t] = "push"
    /\ made' = made + 1
    /\ queues' = [queues EXCEPT ![into[t]] = Append(@, made + 1)]
    /\ pc' = [pc EXCEPT ![t] = "unlock"]
    /\ UNCHANGED <<mutex, current, wakeup, into, loop, old, next, called,
                   ran>>

Unlock(t) ==
    /\ pc[t] = "unlock"
    /\ mutex' = Nobody
    /\ pc' = [pc EXCEPT ![t] = "wake"]
    /\ UNCHANGED <<current, queues, wakeup, into, loop, old, next, called,
                   made, ran>>

\* Mutant: nobody wakes the loop.
WakeNot(t) ==
    /\ pc[t] = "wake"
    /\ pc' = [pc EXCEPT ![t] = "no"]
    /\ UNCHANGED <<mutex, current, queues, wakeup, into, loop, old, next,
                   called, made, ran>>

(* us_wakeup_loop: wakeups that the loop has not seen yet are one.         *)
Wake(t) ==
    /\ pc[t] = "wake"
    /\ wakeup' = TRUE
    /\ pc' = [pc EXCEPT ![t] = "no"]
    /\ UNCHANGED <<mutex, current, queues, into, loop, old, next, called,
                   made, ran>>

-----------------------------------------------------------------------------
(* Loop::wakeupCb.                                                         *)

LoopStep(from, to) == loop = from /\ loop' = to

(* uSockets calls it for a pending wakeup, which it takes back first.      *)
Wakened ==
    /\ LoopStep("poll", "lock")
    /\ wakeup
    /\ wakeup' = FALSE
    /\ UNCHANGED <<mutex, current, queues, pc, into, old, next, called, made,
                   ran>>

SwapLock ==
    /\ LoopStep("lock", "swap")
    /\ mutex = Nobody
    /\ mutex' = LoopThread
    /\ UNCHANGED <<current, queues, wakeup, pc, into, old, next, called, made,
                   ran>>

Swap ==
    /\ LoopStep("swap", "unlock")
    /\ old' = current
    /\ current' = Other(current)
    /\ UNCHANGED <<mutex, queues, wakeup, pc, into, next, called, made, ran>>

SwapUnlock ==
    /\ LoopStep("unlock", "drain")
    /\ mutex' = Nobody
    /\ next' = 1
    /\ UNCHANGED <<current, queues, wakeup, pc, into, old, called, made, ran>>

(* x(): from here to Returned the callback runs, and may call defer.       *)
Invoke ==
    /\ LoopStep("drain", "inside")
    /\ next <= Len(queues[old])
    /\ ran' = Append(ran, queues[old][next])
    /\ UNCHANGED <<mutex, current, queues, wakeup, pc, into, old, next,
                   called, made>>

Returned ==
    /\ LoopStep("inside", "drain")
    /\ pc[LoopThread] = "no"
    /\ next' = next + 1
    /\ UNCHANGED <<mutex, current, queues, wakeup, pc, into, old, called,
                   made, ran>>

\* Mutant: the queue is not cleared after it was drained.
DrainedNotCleared ==
    /\ LoopStep("drain", "poll")
    /\ next > Len(queues[old])
    /\ next' = 1
    /\ UNCHANGED <<mutex, current, queues, wakeup, pc, into, old, called,
                   made, ran>>

Drained ==
    /\ LoopStep("drain", "poll")
    /\ next > Len(queues[old])
    /\ queues' = [queues EXCEPT ![old] = <<>>]
    /\ next' = 1
    /\ UNCHANGED <<mutex, current, wakeup, pc, into, old, called, made, ran>>

-----------------------------------------------------------------------------
DeferStep(t) == Lock(t) \/ Select(t) \/ Push(t) \/ Unlock(t) \/ Wake(t)

WakeupCb ==
    Wakened \/ SwapLock \/ Swap \/ SwapUnlock \/ Invoke \/ Returned \/ Drained

Next ==
    \/ \E t \in AllThreads : Call(t) \/ DeferStep(t)
    \/ WakeupCb

Spec == Init /\ [][Next]_vars

(* Threads and the loop run; a callback returns.  Nobody has to call       *)
(* defer, and the mutex need not be fair: the calls are finitely many.     *)
FairSpec ==
    /\ Spec
    /\ WF_vars(WakeupCb)
    /\ \A t \in AllThreads : WF_vars(DeferStep(t))

-----------------------------------------------------------------------------
(* Properties.                                                             *)

TypeOK ==
    /\ mutex \in AllThreads \cup {Nobody}
    /\ current \in {0, 1}
    /\ queues \in [{0, 1} -> Seq(Nat)]
    /\ wakeup \in BOOLEAN
    /\ pc \in [AllThreads ->
               {"no", "lock", "select", "push", "unlock", "wake"}]
    /\ into \in [AllThreads -> {0, 1}]
    /\ loop \in {"poll", "lock", "swap", "unlock", "drain", "inside"}
    /\ old \in {0, 1}
    /\ next \in Nat \ {0}
    /\ called \in 0..MaxCallbacks
    /\ made \in Nat
    /\ ran \in Seq(Nat)

(* The loop is between SwapUnlock and Drained: it iterates queues[old]     *)
(* without the mutex.                                                      *)
Draining == loop \in {"drain", "inside"}

(* Iterating is safe without the mutex: no thread, the loop's own callback *)
(* included, touches the queue that wakeupCb iterates (a push would        *)
(* reallocate the vector under the iterator).                              *)
IteratedUntouched ==
    [][Draining /\ Draining' => queues'[old] = queues[old]]_vars

(* The callbacks that have not run: what is left of the queue being        *)
(* drained, then the current queue.                                        *)
Left == IF loop = "inside" THEN next + 1 ELSE next
Remaining ==
    IF loop \in {"unlock", "drain", "inside"}
    THEN SubSeq(queues[old], IF loop = "unlock" THEN 1 ELSE Left,
                Len(queues[old]))
         \o queues[current]
    ELSE queues[current]

(* defer and wakeupCb implement one queue: no callback is lost or run      *)
(* twice, and they run in the order of the pushes of all threads.          *)
Abstract == INSTANCE DeferFifo WITH waiting <- Remaining
RefinesFifo == Abstract!Spec

(* Every deferred callback runs: no wakeup is lost between a push and a    *)
(* swap.                                                                   *)
DeferredRuns == \A n \in Callback : made >= n ~> Len(ran) >= n

=============================================================================
