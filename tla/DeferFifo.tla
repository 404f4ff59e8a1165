------------------------------- MODULE DeferFifo -------------------------------
(***************************************************************************)
(* What Loop::defer promises: callbacks deferred from any thread run one   *)
(* at a time, each of them once, in the order in which they were deferred. *)
(* A callback is its number in that order.                                 *)
(***************************************************************************)
EXTENDS Naturals, Sequences

VARIABLES
    made,     \* callbacks deferred so far
    waiting,  \* those that have not run
    ran       \* those that have

vars == <<made, waiting, ran>>

Init == made = 0 /\ waiting = <<>> /\ ran = <<>>

Defer ==
    /\ made' = made + 1
    /\ waiting' = Append(waiting, made + 1)
    /\ UNCHANGED ran

Run ==
    /\ waiting # <<>>
    /\ ran' = Append(ran, Head(waiting))
    /\ waiting' = Tail(waiting)
    /\ UNCHANGED made

Spec == Init /\ [][Defer \/ Run]_vars
=============================================================================
