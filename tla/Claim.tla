------------------------------- MODULE Claim -------------------------------
(***************************************************************************)
(* What the name of a channel is worth: at most one instance has the       *)
(* channel at a time. One that exits in an orderly way leaves it to the    *)
(* next; one that dies with names of its queues left behind leaves it to   *)
(* nobody.                                                                 *)
(*                                                                         *)
(* Lifecycle implements it with six named objects and no lock.             *)
(***************************************************************************)
CONSTANTS Lives, Nobody

VARIABLES
    owner,      \* who has the channel
    abandoned   \* whether names were left behind

vars == <<owner, abandoned>>

Init ==
    /\ owner = Nobody
    /\ abandoned = FALSE

Acquire(l) ==
    /\ owner = Nobody
    /\ ~abandoned
    /\ owner' = l
    /\ UNCHANGED abandoned

Release ==
    /\ owner # Nobody
    /\ owner' = Nobody
    /\ UNCHANGED abandoned

Abandon ==
    /\ owner' = Nobody
    /\ abandoned' = TRUE

Next == (\E l \in Lives : Acquire(l)) \/ Release \/ Abandon

Spec == Init /\ [][Next]_vars
=============================================================================
