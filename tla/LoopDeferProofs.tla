---------------------------- MODULE LoopDeferProofs ----------------------------
(***************************************************************************)
(* Proofs about LoopDefer, for any number of threads and of callbacks.     *)
(***************************************************************************)
EXTENDS LoopDefer, SequenceTheorems, TLAPS

(* Thread t is between the lock and the unlock of defer.                   *)
Holds(t) == pc[t] \in {"select", "push", "unlock"}

(* The loop is past the swap: the queue it drains is not the current one.  *)
Swapped == loop \in {"unlock", "drain", "inside"}

(* Whoever is between a lock and an unlock is the holder of the mutex.     *)
Exclusion ==
    /\ \A t \in AllThreads : Holds(t) => mutex = t
    /\ loop \in {"swap", "unlock"} => mutex = LoopThread
    /\ pc[LoopThread] # "no" => loop = "inside"

(* What defer has read is still the current queue when it pushes.          *)
IntoCurrent == \A t \in AllThreads : pc[t] = "push" => into[t] = current

(* Where the loop is in the queue it drains; the other one is empty when   *)
(* it drains none.                                                         *)
QueuesSplit ==
    /\ Swapped => old = Other(current)
    /\ ~Swapped => queues[Other(current)] = <<>>
    /\ loop = "drain" => next <= Len(queues[old]) + 1
    /\ loop = "inside" => next <= Len(queues[old])

IInv == TypeOK /\ Exclusion /\ IntoCurrent /\ QueuesSplit
-----------------------------------------------------------------------------
(* There are two queues.                                                   *)
LEMMA OtherQueue ==
    ASSUME NEW q \in {0, 1}
    PROVE  Other(q) \in {0, 1} /\ Other(q) # q /\ Other(Other(q)) = q
  BY DEF Other

(* The loop's thread is one of the threads.                                *)
LEMMA LoopIsThread == LoopThread \in AllThreads /\ Nobody \notin AllThreads
  BY ThreadAssumption DEF AllThreads

(* The invariant holds before anybody calls defer.                        *)
LEMMA InitIInv == Init => IInv
  <1> SUFFICES ASSUME Init PROVE IInv
    OBVIOUS
  <1> USE LoopIsThread
  <1>1. TypeOK
    <2>1. <<>> \in Seq(Nat)
      OBVIOUS
    <2>2. queues \in [{0, 1} -> Seq(Nat)] /\ ran \in Seq(Nat)
      BY <2>1 DEF Init
    <2>3. into \in [AllThreads -> {0, 1}]
      BY DEF Init
    <2>4. called \in 0..MaxCallbacks
      BY BoundAssumption DEF Init
    <2>5. pc \in [AllThreads ->
                   {"no", "lock", "select", "push", "unlock", "wake"}]
      BY DEF Init
    <2>6. wakeup \in BOOLEAN
      BY DEF Init
    <2> QED BY <2>2, <2>3, <2>4, <2>5, <2>6 DEF Init, TypeOK
  <1>2. Exclusion /\ IntoCurrent
    BY DEF Init, Exclusion, IntoCurrent, Holds
  <1>3. QueuesSplit
    BY OtherQueue DEF Init, QueuesSplit, Swapped
  <1> QED BY <1>1, <1>2, <1>3 DEF IInv

(* The steps of defer keep the invariant: only the holder of the mutex is  *)
(* past its lock, so the queue it has read stays current until it pushes.  *)
LEMMA DeferKeeps ==
    ASSUME IInv, NEW t \in AllThreads, Call(t) \/ DeferStep(t)
    PROVE  IInv'
  <1> USE LoopIsThread, BoundAssumption
  <1>1. CASE Call(t)
    <2>1. TypeOK'
      BY <1>1 DEF Call, IInv, TypeOK
    <2>2. Exclusion'
      BY <1>1 DEF Call, IInv, TypeOK, Exclusion, Holds
    <2>3. IntoCurrent'
      BY <1>1 DEF Call, IInv, TypeOK, IntoCurrent, Exclusion, Holds
    <2>4. QueuesSplit'
      BY <1>1, OtherQueue DEF Call, IInv, TypeOK, QueuesSplit, Swapped,
                              IntoCurrent
    <2> QED BY <2>1, <2>2, <2>3, <2>4 DEF IInv
  <1>2. CASE Lock(t)
    <2>1. TypeOK'
      BY <1>2 DEF Lock, IInv, TypeOK
    <2>2. Exclusion'
      BY <1>2 DEF Lock, IInv, TypeOK, Exclusion, Holds
    <2>3. IntoCurrent'
      BY <1>2 DEF Lock, IInv, TypeOK, IntoCurrent, Exclusion, Holds
    <2>4. QueuesSplit'
      BY <1>2, OtherQueue DEF Lock, IInv, TypeOK, QueuesSplit, Swapped,
                              IntoCurrent
    <2> QED BY <2>1, <2>2, <2>3, <2>4 DEF IInv
  <1>3. CASE Select(t)
    <2>1. TypeOK'
      BY <1>3 DEF Select, IInv, TypeOK
    <2>2. Exclusion'
      BY <1>3 DEF Select, IInv, TypeOK, Exclusion, Holds
    <2>3. IntoCurrent'
      BY <1>3 DEF Select, IInv, TypeOK, IntoCurrent, Exclusion, Holds
    <2>4. QueuesSplit'
      BY <1>3, OtherQueue DEF Select, IInv, TypeOK, QueuesSplit, Swapped,
                              IntoCurrent
    <2> QED BY <2>1, <2>2, <2>3, <2>4 DEF IInv
  <1>4. CASE Push(t)
    <2>1. TypeOK'
      BY <1>4 DEF Push, IInv, TypeOK
    <2>2. Exclusion'
      BY <1>4 DEF Push, IInv, TypeOK, Exclusion, Holds
    <2>3. IntoCurrent'
      BY <1>4 DEF Push, IInv, TypeOK, IntoCurrent, Exclusion, Holds
    <2>4. QueuesSplit'
      BY <1>4, OtherQueue DEF Push, IInv, TypeOK, QueuesSplit, Swapped,
                              IntoCurrent
    <2> QED BY <2>1, <2>2, <2>3, <2>4 DEF IInv
  <1>5. CASE Unlock(t)
    <2>1. TypeOK'
      BY <1>5 DEF Unlock, IInv, TypeOK
    <2>2. Exclusion'
      BY <1>5 DEF Unlock, IInv, TypeOK, Exclusion, Holds
    <2>3. IntoCurrent'
      BY <1>5 DEF Unlock, IInv, TypeOK, IntoCurrent, Exclusion, Holds
    <2>4. QueuesSplit'
      BY <1>5, OtherQueue DEF Unlock, IInv, TypeOK, QueuesSplit, Swapped,
                              IntoCurrent
    <2> QED BY <2>1, <2>2, <2>3, <2>4 DEF IInv
  <1>6. CASE Wake(t)
    <2>1. TypeOK'
      BY <1>6 DEF Wake, IInv, TypeOK
    <2>2. Exclusion'
      BY <1>6 DEF Wake, IInv, TypeOK, Exclusion, Holds
    <2>3. IntoCurrent'
      BY <1>6 DEF Wake, IInv, TypeOK, IntoCurrent, Exclusion, Holds
    <2>4. QueuesSplit'
      BY <1>6, OtherQueue DEF Wake, IInv, TypeOK, QueuesSplit, Swapped,
                              IntoCurrent
    <2> QED BY <2>1, <2>2, <2>3, <2>4 DEF IInv
  <1> QED BY <1>1, <1>2, <1>3, <1>4, <1>5, <1>6 DEF DeferStep

(* The steps of wakeupCb keep the invariant: the mutex keeps the swap away *)
(* from a defer that has read the current queue.                           *)
LEMMA WakeupKeeps ==
    ASSUME IInv, WakeupCb
    PROVE  IInv'
  <1> USE LoopIsThread
  <1>1. CASE Wakened
    <2>1. TypeOK'
      BY <1>1, OtherQueue DEF Wakened, LoopStep, IInv, TypeOK
    <2>2. Exclusion'
      BY <1>1 DEF Wakened, LoopStep, IInv, TypeOK, Exclusion, Holds
    <2>3. IntoCurrent'
      BY <1>1 DEF Wakened, LoopStep, IInv, TypeOK, IntoCurrent, Exclusion,
                  Holds
    <2>4. QueuesSplit'
      BY <1>1, OtherQueue DEF Wakened, LoopStep, IInv, TypeOK, QueuesSplit,
                              Swapped
    <2> QED BY <2>1, <2>2, <2>3, <2>4 DEF IInv
  <1>2. CASE SwapLock
    <2>1. TypeOK'
      BY <1>2, OtherQueue DEF SwapLock, LoopStep, IInv, TypeOK
    <2>2. Exclusion'
      BY <1>2 DEF SwapLock, LoopStep, IInv, TypeOK, Exclusion, Holds
    <2>3. IntoCurrent'
      BY <1>2 DEF SwapLock, LoopStep, IInv, TypeOK, IntoCurrent, Exclusion,
                  Holds
    <2>4. QueuesSplit'
      BY <1>2, OtherQueue DEF SwapLock, LoopStep, IInv, TypeOK, QueuesSplit,
                              Swapped
    <2> QED BY <2>1, <2>2, <2>3, <2>4 DEF IInv
  <1>3. CASE Swap
    <2>1. TypeOK'
      BY <1>3, OtherQueue DEF Swap, LoopStep, IInv, TypeOK
    <2>2. Exclusion'
      BY <1>3 DEF Swap, LoopStep, IInv, TypeOK, Exclusion, Holds
    <2>3. IntoCurrent'
      BY <1>3 DEF Swap, LoopStep, IInv, TypeOK, IntoCurrent, Exclusion, Holds
    <2>4. QueuesSplit'
      BY <1>3, OtherQueue DEF Swap, LoopStep, IInv, TypeOK, QueuesSplit,
                              Swapped
    <2> QED BY <2>1, <2>2, <2>3, <2>4 DEF IInv
  <1>4. CASE SwapUnlock
    <2>1. TypeOK'
      BY <1>4, OtherQueue DEF SwapUnlock, LoopStep, IInv, TypeOK
    <2>2. Exclusion'
      BY <1>4 DEF SwapUnlock, LoopStep, IInv, TypeOK, Exclusion, Holds
    <2>3. IntoCurrent'
      BY <1>4 DEF SwapUnlock, LoopStep, IInv, TypeOK, IntoCurrent, Exclusion,
                  Holds
    <2>4. QueuesSplit'
      BY <1>4, OtherQueue DEF SwapUnlock, LoopStep, IInv, TypeOK, QueuesSplit,
                              Swapped
    <2> QED BY <2>1, <2>2, <2>3, <2>4 DEF IInv
  <1>5. CASE Invoke
    <2>1. TypeOK'
      BY <1>5, OtherQueue DEF Invoke, LoopStep, IInv, TypeOK
    <2>2. Exclusion'
      BY <1>5 DEF Invoke, LoopStep, IInv, TypeOK, Exclusion, Holds
    <2>3. IntoCurrent'
      BY <1>5 DEF Invoke, LoopStep, IInv, TypeOK, IntoCurrent, Exclusion, Holds
    <2>4. QueuesSplit'
      BY <1>5, OtherQueue DEF Invoke, LoopStep, IInv, TypeOK, QueuesSplit,
                              Swapped
    <2> QED BY <2>1, <2>2, <2>3, <2>4 DEF IInv
  <1>6. CASE Returned
    <2>1. TypeOK'
      BY <1>6, OtherQueue DEF Returned, LoopStep, IInv, TypeOK
    <2>2. Exclusion'
      BY <1>6 DEF Returned, LoopStep, IInv, TypeOK, Exclusion, Holds
    <2>3. IntoCurrent'
      BY <1>6 DEF Returned, LoopStep, IInv, TypeOK, IntoCurrent, Exclusion,
                  Holds
    <2>4. QueuesSplit'
      BY <1>6, OtherQueue DEF Returned, LoopStep, IInv, TypeOK, QueuesSplit,
                              Swapped
    <2> QED BY <2>1, <2>2, <2>3, <2>4 DEF IInv
  <1>7. CASE Drained
    <2>1. TypeOK'
      BY <1>7, OtherQueue DEF Drained, LoopStep, IInv, TypeOK
    <2>2. Exclusion'
      BY <1>7 DEF Drained, LoopStep, IInv, TypeOK, Exclusion, Holds
    <2>3. IntoCurrent'
      BY <1>7 DEF Drained, LoopStep, IInv, TypeOK, IntoCurrent, Exclusion,
                  Holds
    <2>4. QueuesSplit'
      BY <1>7, OtherQueue DEF Drained, LoopStep, IInv, TypeOK, QueuesSplit,
                              Swapped
    <2> QED BY <2>1, <2>2, <2>3, <2>4 DEF IInv
  <1> QED BY <1>1, <1>2, <1>3, <1>4, <1>5, <1>6, <1>7 DEF WakeupCb

(* Every step keeps it.                                                   *)
LEMMA NextIInv == IInv /\ [Next]_vars => IInv'
  <1> SUFFICES ASSUME IInv, [Next]_vars PROVE IInv'
    OBVIOUS
  <1>1. CASE Next
    BY <1>1, DeferKeeps, WakeupKeeps DEF Next
  <1>2. CASE UNCHANGED vars
    BY <1>2 DEF vars, IInv, TypeOK, Exclusion, Holds, IntoCurrent,
                QueuesSplit, Swapped
  <1> QED BY <1>1, <1>2

(* deferMutex does its work: at most one of the threads and the loop is    *)
(* inside, what defer read is current when it pushes, and the queue that   *)
(* wakeupCb drains is the other one.                                       *)
THEOREM Invariance == Spec => []IInv
  BY InitIInv, NextIInv, PTL DEF Spec

(* Every variable of defer and wakeupCb keeps its type; in particular      *)
(* currentDeferQueue is 0 or 1.                                            *)
THEOREM TypeCorrect == Spec => []TypeOK
  <1>1. IInv => TypeOK
    BY DEF IInv
  <1> QED BY <1>1, Invariance, PTL

(* wakeupCb iterates without the mutex a queue that nobody touches.        *)
THEOREM IterationSafe == Spec => IteratedUntouched
  <1>1. ASSUME IInv, [Next]_vars, Draining, Draining'
        PROVE  queues'[old] = queues[old]
    <2> USE <1>1 DEF IInv, Draining
    <2>1. ASSUME NEW t \in AllThreads, Push(t) PROVE queues'[old] = queues[old]
      <3>1. into[t] = current
        BY <2>1 DEF Push, IntoCurrent
      <3>2. old # current
        BY OtherQueue DEF QueuesSplit, Swapped, TypeOK
      <3> QED BY <2>1, <3>1, <3>2 DEF Push, TypeOK
    <2>2. CASE \E t \in AllThreads : Call(t) \/ DeferStep(t)
      BY <2>1, <2>2 DEF DeferStep, Call, Lock, Select, Unlock, Wake
    <2>3. CASE WakeupCb
      BY <2>3 DEF WakeupCb, LoopStep, Wakened, SwapLock, Swap, SwapUnlock,
                  Invoke, Returned, Drained
    <2>4. CASE UNCHANGED vars
      BY <2>4 DEF vars
    <2> QED BY <1>1, <2>2, <2>3, <2>4 DEF Next
  <1>2. IInv /\ [Next]_vars
            => [Draining /\ Draining' => queues'[old] = queues[old]]_vars
    BY <1>1
  <1> QED BY <1>2, Invariance, PTL DEF Spec, IteratedUntouched

-----------------------------------------------------------------------------
(* Facts about sequences that the refinement needs.                        *)

(* Appending to the second of two sequences appends to both.               *)
LEMMA ConcatAppend ==
    ASSUME NEW p \in Seq(Nat), NEW q \in Seq(Nat), NEW x \in Nat
    PROVE  p \o Append(q, x) = Append(p \o q, x)
  OBVIOUS

(* A sequence with an element put in front of it.                          *)
LEMMA Prepended ==
    ASSUME NEW x \in Nat, NEW w \in Seq(Nat)
    PROVE  /\ <<x>> \o w # <<>> /\ Head(<<x>> \o w) = x
           /\ Tail(<<x>> \o w) = w
  <1> DEFINE r == <<x>> \o w
  <1>1. /\ r \in Seq(Nat) /\ Len(r) = 1 + Len(w) /\ r[1] = x
        /\ \A j \in 1..Len(w) : r[j + 1] = w[j]
    OBVIOUS
  <1> HIDE DEF r
  <1>2. r # <<>> /\ Head(r) = x
    BY <1>1
  <1>3. Tail(r) = w
    BY <1>1, <1>2, SMTT(30)
  <1> QED BY <1>2, <1>3 DEF r

(* It does not matter whether it is put there before or after appending z. *)
LEMMA PrependConcat ==
    ASSUME NEW x \in Nat, NEW y \in Seq(Nat), NEW z \in Seq(Nat)
    PROVE  (<<x>> \o y) \o z = <<x>> \o (y \o z)
  OBVIOUS

(* The rest of p from its i-th element starts with that element.           *)
LEMMA RestOf ==
    ASSUME NEW p \in Seq(Nat), NEW q \in Seq(Nat), NEW i \in 1..Len(p)
    PROVE  LET r == SubSeq(p, i, Len(p)) \o q
           IN  /\ r # <<>> /\ Head(r) = p[i]
               /\ Tail(r) = SubSeq(p, i + 1, Len(p)) \o q
  <1> DEFINE a == SubSeq(p, i, Len(p))
             b == SubSeq(p, i + 1, Len(p))
             x == p[i]
  <1>1. x \in Nat /\ b \in Seq(Nat)
    OBVIOUS
  <1>2. a = <<x>> \o b
    BY SubSeqRecursiveFirst
  <1> HIDE DEF a, b, x
  <1>3. (<<x>> \o b) \o q = <<x>> \o (b \o q)
    BY <1>1, PrependConcat
  <1>4. a \o q = <<x>> \o (b \o q)
    BY <1>2, <1>3
  <1>5. b \o q \in Seq(Nat)
    BY <1>1
  <1>6. a \o q # <<>> /\ Head(a \o q) = x /\ Tail(a \o q) = b \o q
    BY <1>1, <1>4, <1>5, Prepended
  <1> QED BY <1>6 DEF a, b, x

(* Nothing is left past the end, and all of it from the start.             *)
LEMMA RestEnds ==
    ASSUME NEW p \in Seq(Nat), NEW q \in Seq(Nat)
    PROVE  /\ SubSeq(p, Len(p) + 1, Len(p)) \o q = q
           /\ SubSeq(p, 1, Len(p)) \o <<>> = p
  OBVIOUS

(* A push is a Defer of the abstract queue.                                *)
LEMMA PushIsDefer ==
    ASSUME IInv, NEW t \in AllThreads, Push(t)
    PROVE  Abstract!Defer
  <1> USE DEF IInv
  <1>1. into[t] = current /\ current \in {0, 1}
    BY DEF Push, IntoCurrent, TypeOK
  <1>2. /\ queues'[current] = Append(queues[current], made + 1)
        /\ queues'[Other(current)] = queues[Other(current)]
    BY <1>1, OtherQueue DEF Push, TypeOK
  <1>3. Swapped => queues'[old] = queues[old]
    BY <1>2 DEF QueuesSplit
  <1>4. /\ queues[current] \in Seq(Nat) /\ queues[old] \in Seq(Nat)
        /\ made + 1 \in Nat
    BY DEF TypeOK
  <1>5. Remaining' = Append(Remaining, made + 1)
    <2>1. CASE Swapped
      <3> DEFINE from == IF loop = "unlock" THEN 1
                         ELSE IF loop = "inside" THEN next + 1 ELSE next
                 rest == SubSeq(queues[old], from, Len(queues[old]))
      <3>1. Remaining = rest \o queues[current]
        BY <2>1 DEF Swapped, Remaining, Left
      <3>2. Remaining' = rest \o Append(queues[current], made + 1)
        BY <2>1, <1>2, <1>3 DEF Swapped, Remaining, Left, Push
      <3>3. rest \in Seq(Nat)
        BY <1>4 DEF TypeOK
      <3> HIDE DEF rest
      <3> QED BY <3>1, <3>2, <3>3, <1>4, ConcatAppend
    <2>2. CASE ~Swapped
      BY <2>2, <1>2 DEF Swapped, Remaining, Push
    <2> QED BY <2>1, <2>2
  <1> QED BY <1>5 DEF Push, Abstract!Defer

(* The call of a callback is a Run.                                        *)
LEMMA InvokeIsRun ==
    ASSUME IInv, Invoke
    PROVE  Abstract!Run
  <1> USE DEF IInv
  <1> DEFINE p == queues[old]
             q == queues[current]
  <1>1. p \in Seq(Nat) /\ q \in Seq(Nat) /\ next \in 1..Len(p)
    BY DEF Invoke, TypeOK
  <1>2. Remaining = SubSeq(p, next, Len(p)) \o q
    BY DEF Invoke, LoopStep, Remaining, Left
  <1>3. Remaining' = SubSeq(p, next + 1, Len(p)) \o q
    BY DEF Invoke, LoopStep, Remaining, Left
  <1>4. ran' = Append(ran, p[next]) /\ made' = made
    BY DEF Invoke
  <1> HIDE DEF p, q
  <1>5. /\ Remaining # <<>> /\ Head(Remaining) = p[next]
        /\ Tail(Remaining) = Remaining'
    BY <1>1, <1>2, <1>3, RestOf
  <1> QED BY <1>4, <1>5 DEF Abstract!Run

(* No other step of wakeupCb is visible: the swap, the return of a call    *)
(* and the clearing of the drained queue leave what remains as it is.      *)
LEMMA WakeupStutters ==
    ASSUME IInv, WakeupCb, ~Invoke
    PROVE  UNCHANGED <<made, Remaining, ran>>
  <1> USE DEF IInv
  <1>0. /\ queues[old] \in Seq(Nat) /\ queues[current] \in Seq(Nat)
        /\ current \in {0, 1} /\ old \in {0, 1} /\ next \in Nat
        /\ queues \in [{0, 1} -> Seq(Nat)]
    BY DEF TypeOK
  <1>1. CASE Wakened \/ SwapLock
    BY <1>1 DEF Wakened, SwapLock, LoopStep, Remaining
  <1>2. CASE Swap
    <2>1. /\ Remaining = queues[current]
          /\ Remaining' = SubSeq(queues[current], 1, Len(queues[current]))
                          \o queues[Other(current)]
      BY <1>2 DEF Swap, LoopStep, Remaining
    <2>2. queues[Other(current)] = <<>>
      BY <1>2 DEF Swap, LoopStep, QueuesSplit, Swapped
    <2>3. Remaining' = Remaining
      BY <2>1, <2>2, <1>0, RestEnds
    <2> QED BY <2>3, <1>2 DEF Swap
  <1>3. CASE SwapUnlock
    BY <1>3 DEF SwapUnlock, LoopStep, Remaining, Left
  <1>4. CASE Returned
    BY <1>4 DEF Returned, LoopStep, Remaining, Left
  <1>5. CASE Drained
    <2>1. next = Len(queues[old]) + 1
      BY <1>5, <1>0 DEF Drained, LoopStep, QueuesSplit
    <2>2. Remaining = queues[current]
      BY <1>5, <2>1, <1>0, RestEnds DEF Drained, LoopStep, Remaining, Left
    <2>3. queues'[current] = queues[current]
      BY <1>5, <1>0, OtherQueue DEF Drained, LoopStep, QueuesSplit, Swapped
    <2>4. Remaining' = queues[current]
      BY <1>5, <2>3 DEF Drained, LoopStep, Remaining
    <2> QED BY <2>2, <2>4, <1>5 DEF Drained
  <1> QED BY <1>1, <1>2, <1>3, <1>4, <1>5 DEF WakeupCb

(* defer and wakeupCb implement one first-in first-out queue of callbacks. *)
THEOREM ImplementsFifo == Spec => RefinesFifo
  <1>1. Init => Abstract!Init
    BY DEF Init, Abstract!Init, Remaining
  <1>2. IInv /\ [Next]_vars => [Abstract!Defer \/ Abstract!Run]_Abstract!vars
    <2> SUFFICES ASSUME IInv, [Next]_vars
                 PROVE  \/ Abstract!Defer \/ Abstract!Run
                        \/ UNCHANGED <<made, Remaining, ran>>
      BY DEF Abstract!vars
    <2>1. CASE \E t \in AllThreads : Push(t)
      BY <2>1, PushIsDefer
    <2>2. CASE \E t \in AllThreads :
                    Call(t) \/ Lock(t) \/ Select(t) \/ Unlock(t) \/ Wake(t)
      BY <2>2 DEF Call, Lock, Select, Unlock, Wake, Remaining, Left
    <2>3. CASE WakeupCb
      BY <2>3, InvokeIsRun, WakeupStutters
    <2>4. CASE UNCHANGED vars
      BY <2>4 DEF vars, Remaining, Left
    <2> QED BY <2>1, <2>2, <2>3, <2>4 DEF Next, DeferStep
  <1> QED BY <1>1, <1>2, Invariance, PTL DEF Spec, RefinesFifo, Abstract!Spec

=============================================================================
