------------------------------ MODULE Mailbox ------------------------------
(***************************************************************************)
(* What sending through a message queue promises to the two sides: every   *)
(* message is deposited at most once and taken at most once, in the order  *)
(* of deposit; its sender is told "sent" only when it was deposited, and   *)
(* "failed" only when it was not and never will be.                        *)
(*                                                                         *)
(* Channel implements it with a lock, two semaphores and a pool of threads *)
(* on either side.                                                         *)
(***************************************************************************)
EXTENDS Naturals, Sequences, Functions

CONSTANTS Messages, MsgMaxNumber

VARIABLES
    queue,    \* the deposited messages that were not taken yet
    taken,    \* the messages that were taken
    outcome   \* what the sender of each message knows of it

vars == <<queue, taken, outcome>>

Deposited(m) == m \in Range(queue) \cup taken

Init ==
    /\ queue = <<>>
    /\ taken = {}
    /\ outcome = [m \in Messages |-> "unsent"]

Start(m) ==
    /\ outcome[m] = "unsent"
    /\ outcome' = [outcome EXCEPT ![m] = "pending"]
    /\ UNCHANGED <<queue, taken>>

Deposit(m) ==
    /\ outcome[m] = "pending"
    /\ ~Deposited(m)
    /\ Len(queue) < MsgMaxNumber
    /\ queue' = Append(queue, m)
    /\ UNCHANGED <<taken, outcome>>

Confirm(m) ==
    /\ outcome[m] = "pending"
    /\ Deposited(m)
    /\ outcome' = [outcome EXCEPT ![m] = "sent"]
    /\ UNCHANGED <<queue, taken>>

Reject(m) ==
    /\ outcome[m] = "pending"
    /\ ~Deposited(m)
    /\ outcome' = [outcome EXCEPT ![m] = "failed"]
    /\ UNCHANGED <<queue, taken>>

Take ==
    /\ queue # <<>>
    /\ taken' = taken \cup {Head(queue)}
    /\ queue' = Tail(queue)
    /\ UNCHANGED outcome

Next == Take \/ \E m \in Messages : Start(m) \/ Deposit(m) \/ Confirm(m) \/ Reject(m)

Spec == Init /\ [][Next]_vars
=============================================================================
