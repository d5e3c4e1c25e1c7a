---------------------------- MODULE BoundedFifo ----------------------------
(***************************************************************************)
(* What a message queue promises to the threads that use it one at a time: *)
(* a first-in first-out queue of byte sequences, bounded both in number of *)
(* messages and in bytes, that refuses what does not fit and tells a       *)
(* reader with a small buffer how large the first message is.              *)
(*                                                                         *)
(* MessageQueue implements it in one block of shared memory.               *)
(***************************************************************************)
EXTENDS Naturals, Sequences, FiniteSets

CONSTANTS
    Messages,       \* the messages that may be pushed: non-empty sequences of bytes
    MsgMaxNumber,   \* how many messages the queue holds
    Capacity,       \* how many bytes of data the queue holds
    BufSizes        \* the sizes of the buffers readers come with

VARIABLES
    queue,  \* the messages, the oldest first
    ret     \* what the last call returned

vars == <<queue, ret>>

\* The bytes of the messages of q together: as many as there are pairs of a
\* message and a place in it.
Bytes(q) == Cardinality(UNION {{i} \X DOMAIN q[i] : i \in DOMAIN q})

Fits(n) == Len(queue) < MsgMaxNumber /\ Bytes(queue) + n <= Capacity

Init ==
    /\ queue = <<>>
    /\ ret = [op |-> "create"]

\* A push that fits appends the message; any other leaves the queue alone.
Push(m) ==
    /\ ret' = [op |-> "push", size |-> Len(m), ok |-> Fits(Len(m))]
    /\ queue' = IF Fits(Len(m)) THEN Append(queue, m) ELSE queue

\* A pop hands over the oldest message, or the size it needs.
Pop(bufSize) ==
    \/ /\ queue = <<>>
       /\ ret' = [op |-> "pop", ok |-> FALSE, written |-> 0, data |-> <<>>]
       /\ UNCHANGED queue
    \/ /\ queue # <<>>
       /\ Len(Head(queue)) > bufSize
       /\ ret' = [op |-> "pop", ok |-> FALSE, written |-> Len(Head(queue)), data |-> <<>>]
       /\ UNCHANGED queue
    \/ /\ queue # <<>>
       /\ Len(Head(queue)) <= bufSize
       /\ ret' = [op |-> "pop", ok |-> TRUE, written |-> Len(Head(queue)), data |-> Head(queue)]
       /\ queue' = Tail(queue)

\* The question a sender asks before it pushes n bytes: is there room, and
\* if there is not, can there ever be?
CheckSpace(n) ==
    /\ ret' = [op |-> "check", ok |-> Fits(n), waitable |-> n <= Capacity]
    /\ UNCHANGED queue

Count ==
    /\ ret' = [op |-> "number", n |-> Len(queue)]
    /\ UNCHANGED queue

Next ==
    \/ \E m \in Messages : Push(m) \/ CheckSpace(Len(m))
    \/ \E n \in BufSizes : Pop(n)
    \/ Count

Spec == Init /\ [][Next]_vars
=============================================================================
