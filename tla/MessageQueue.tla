---------------------------- MODULE MessageQueue ----------------------------
(***************************************************************************)
(* The block of shared memory of a MessageQueue and the operations on it   *)
(* (message_queue.cpp). Every operation runs under the process lock, so an *)
(* operation is one action here; Channel models the lock and the threads.  *)
(*                                                                         *)
(*   | ... | curMsgNumber | frontFree | msgDataSize[0..] | msgData[0..] |  *)
(*                                                                         *)
(* The messages lie one behind the other in msgData, from frontFree on;    *)
(* msgDataSize lists their sizes. A pop moves the list of sizes one place  *)
(* down; a push that finds no room behind the last message moves all the   *)
(* data down to offset 0. Both moves are a memcpy between ranges that      *)
(* overlap, which C leaves undefined: CopyOrders lists the orders in which *)
(* the build's memcpy may copy.                                            *)
(***************************************************************************)
EXTENDS Integers, Sequences, FiniteSets

CONSTANTS
    Messages,             \* non-empty sequences of bytes
    MsgMaxNumber,         \* msgMaxNumber_
    MsgExpectedMaxSize,   \* msgExpectedMaxSize_
    BufSizes,             \* sizes of the readers' buffers
    CopyOrders            \* how memcpy walks: subset of {"ascending", "descending"}

ASSUME MessageQueueAssumption ==
    /\ MsgMaxNumber \in Nat \ {0}
    /\ MsgExpectedMaxSize \in Nat \ {0}
    /\ Messages \subseteq Seq(Nat) \ {<<>>}
    /\ BufSizes \subseteq Nat
    /\ CopyOrders \subseteq {"ascending", "descending"} /\ CopyOrders # {}

VARIABLES
    curMsgNumber, frontFree, msgDataSize, msgData,  \* the shared memory
    ret                                             \* what the last call returned

shm  == <<curMsgNumber, frontFree, msgDataSize, msgData>>
vars == <<curMsgNumber, frontFree, msgDataSize, msgData, ret>>

Capacity == MsgMaxNumber * MsgExpectedMaxSize

Slots   == 0 .. MsgMaxNumber - 1
Offsets == 0 .. Capacity - 1

-----------------------------------------------------------------------------
\* The bytes of the first i messages together: as many as there are pairs of
\* a message and an offset inside it.
SizeUpTo(i) ==
    Cardinality({c \in (0 .. i - 1) \X Offsets : c[2] < msgDataSize[c[1]]})

MsgDataTotalSize == SizeUpTo(curMsgNumber)
TotalFree        == Capacity - MsgDataTotalSize
TailFreeIgnoringFront == TotalFree   \* mutant: forgets the free bytes at the front
TailFree         == TotalFree - frontFree

\* memcpy of n cells within mem, from the range at src down to the one at dst.
\* Ascending, every cell is read before it is written. Descending, a cell that
\* lies in both ranges is overwritten first, and what reaches dst + k is the
\* cell a whole number of distances further on, the first beyond the range.
MemCpyDown(mem, dst, src, n, order) ==
    LET dist == src - dst
        hops(k) == IF order = "ascending" THEN 1
                                          ELSE 1 + ((dst + n - 1 - k) \div dist)
    IN  [k \in DOMAIN mem |-> IF dist > 0 /\ k \in dst .. dst + n - 1
                              THEN mem[k + dist * hops(k)] ELSE mem[k]]

\* memcpy of a message from outside to offset at.
Store(mem, at, m) ==
    [k \in DOMAIN mem |-> IF k \in at .. at + Len(m) - 1 THEN m[k - at + 1] ELSE mem[k]]

Load(at, n) == [k \in 1 .. n |-> msgData[at + k - 1]]

-----------------------------------------------------------------------------
\* create() zeroes the block.
Init ==
    /\ curMsgNumber = 0
    /\ frontFree = 0
    /\ msgDataSize = [i \in Slots |-> 0]
    /\ msgData = [k \in Offsets |-> 0]
    /\ ret = [op |-> "create"]

\* mutant: the limit on the number is off by one.
PushRefusedOneLate(n) == TotalFree < n \/ curMsgNumber > MsgMaxNumber

PushRefused(n) ==
    \/ n > Capacity
    \/ TotalFree < n
    \/ curMsgNumber = MsgMaxNumber

\* mutant: resets frontFree without moving the data.
PushBackWithoutMove(m) ==
    /\ ret' = [op |-> "push", size |-> Len(m), ok |-> ~PushRefused(Len(m))]
    /\ IF PushRefused(Len(m)) THEN UNCHANGED shm ELSE
          /\ curMsgNumber' = curMsgNumber + 1
          /\ msgDataSize' = [msgDataSize EXCEPT ![curMsgNumber] = Len(m)]
          /\ frontFree' = IF TailFree >= Len(m) THEN frontFree ELSE 0
          /\ msgData' = Store(msgData, MsgDataTotalSize + frontFree', m)

PushBack(m) ==
    /\ ret' = [op |-> "push", size |-> Len(m), ok |-> ~PushRefused(Len(m))]
    /\ \/ /\ PushRefused(Len(m))
          /\ UNCHANGED shm
       \/ /\ ~PushRefused(Len(m))
          /\ curMsgNumber' = curMsgNumber + 1
          /\ msgDataSize' = [msgDataSize EXCEPT ![curMsgNumber] = Len(m)]
          /\ \/ /\ TailFree >= Len(m)
                /\ msgData' = Store(msgData, MsgDataTotalSize + frontFree, m)
                /\ UNCHANGED frontFree
             \/ /\ TailFree < Len(m)
                /\ \E order \in CopyOrders :
                      msgData' = Store(MemCpyDown(msgData, 0, frontFree, MsgDataTotalSize, order),
                                       MsgDataTotalSize, m)
                /\ frontFree' = 0

PopFront(bufSize) ==
    LET size == msgDataSize[0]
    IN  \/ /\ curMsgNumber <= 0
           /\ ret' = [op |-> "pop", ok |-> FALSE, written |-> 0, data |-> <<>>]
           /\ UNCHANGED shm
        \/ /\ curMsgNumber > 0
           /\ size > bufSize
           /\ ret' = [op |-> "pop", ok |-> FALSE, written |-> size, data |-> <<>>]
           /\ UNCHANGED shm
        \/ /\ curMsgNumber > 0
           /\ size <= bufSize
           /\ ret' = [op |-> "pop", ok |-> TRUE, written |-> size, data |-> Load(frontFree, size)]
           /\ curMsgNumber' = curMsgNumber - 1
           /\ frontFree' = frontFree + size
           /\ \E order \in CopyOrders :
                 msgDataSize' = MemCpyDown(msgDataSize, 0, 1, curMsgNumber - 1, order)
           /\ UNCHANGED msgData

\* mutant: compares the number with <= instead of <.
SpaceSufficientOneLate(n) == n <= Capacity /\ curMsgNumber <= MsgMaxNumber /\ TotalFree >= n

SpaceSufficient(n) ==
    /\ n <= Capacity
    /\ curMsgNumber < MsgMaxNumber
    /\ TotalFree >= n

CheckSpaceSufficient(n) ==
    /\ ret' = [op |-> "check", ok |-> SpaceSufficient(n), waitable |-> n <= Capacity]
    /\ UNCHANGED shm

MsgNumber ==
    /\ ret' = [op |-> "number", n |-> curMsgNumber]
    /\ UNCHANGED shm

Next ==
    \/ \E m \in Messages : PushBack(m) \/ CheckSpaceSufficient(Len(m))
    \/ \E n \in BufSizes : PopFront(n)
    \/ MsgNumber

Spec == Init /\ [][Next]_vars

-----------------------------------------------------------------------------
(* Properties *)

TypeOK ==
    /\ curMsgNumber \in 0 .. MsgMaxNumber
    /\ frontFree \in 0 .. Capacity
    /\ msgDataSize \in [Slots -> 0 .. Capacity]
    /\ msgData \in [Offsets -> Nat]

\* The messages never reach past the end of the block: whatever the sequence
\* of pushes, pops and moves (pushBack and popFront compute every address from
\* frontFree and the sizes, and check none), frontFree and the sizes describe
\* a range inside the data area, and every queued message has a size.
LayoutInv ==
    /\ frontFree + MsgDataTotalSize <= Capacity
    /\ \A i \in 0 .. curMsgNumber - 1 : msgDataSize[i] > 0

\* The two copies of the space computation agree: pushBack takes a message
\* exactly when checkSpaceSufficient, asked in the same state, reports room.
\* A sender that was told there is room reports an unrelated error otherwise.
CheckAgreesWithPush ==
    \A m \in Messages : SpaceSufficient(Len(m)) <=> ~PushRefused(Len(m))

\* The queue of messages that the block holds.
Offset(i) == frontFree + SizeUpTo(i)
QueueOf   == [i \in 1 .. curMsgNumber |-> Load(Offset(i - 1), msgDataSize[i - 1])]

\* The operations implement the bounded queue of BoundedFifo: the readers get
\* the bytes that were pushed, in order, whatever moves happened in between,
\* and every call returns what that queue would (message_queue.h:28-37).
Fifo == INSTANCE BoundedFifo WITH queue <- QueueOf
ImplementsFifo == Fifo!Spec
=============================================================================
