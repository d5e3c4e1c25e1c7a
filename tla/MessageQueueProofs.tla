------------------------- MODULE MessageQueueProofs -------------------------
(***************************************************************************)
(* Proofs about MessageQueue, for any geometry of the block and any        *)
(* messages: the messages never reach past its end, the two copies of the  *)
(* space computation agree, and the operations implement the queue of      *)
(* BoundedFifo. memcpy is assumed to copy in ascending order: with another *)
(* order the list of sizes is spoilt by the first pop.                     *)
(***************************************************************************)
EXTENDS MessageQueue, FiniteSetTheorems, TLAPS

\* The cells of the messages a to b when their sizes are those of f.
Cells(f, a, b) == {c \in (a .. b) \X Offsets : c[2] < f[c[1]]}

Total(f, a, b) == Cardinality(Cells(f, a, b))

LEMMA CapacityNat == Capacity \in Nat
  BY MessageQueueAssumption DEF Capacity

LEMMA MessageSize == \A m \in Messages : Len(m) \in Nat \ {0}
<1> SUFFICES ASSUME NEW m \in Messages PROVE Len(m) \in Nat \ {0}
  OBVIOUS
<1>1. m \in Seq(Nat) /\ m # <<>>
  BY MessageQueueAssumption
<1> QED BY <1>1

LEMMA SizeIsTotal == \A i : SizeUpTo(i) = Total(msgDataSize, 0, i - 1)
  BY DEF SizeUpTo, Total, Cells

LEMMA CellsFinite ==
  ASSUME NEW f, NEW a \in Int, NEW b \in Int
  PROVE  IsFiniteSet(Cells(f, a, b)) /\ Total(f, a, b) \in Nat
<1>1. IsFiniteSet(a .. b) /\ IsFiniteSet(Offsets)
  BY CapacityNat, FS_Interval DEF Offsets
<1>2. IsFiniteSet((a .. b) \X Offsets)
  BY <1>1, FS_Product
<1>3. IsFiniteSet(Cells(f, a, b))
  BY <1>2, FS_Subset DEF Cells
<1> QED BY <1>3, FS_CardinalityType DEF Total

\* One message has as many cells as bytes.
LEMMA OneMessage ==
  ASSUME NEW f, NEW a \in Int, f[a] \in 0 .. Capacity
  PROVE  Total(f, a, a) = f[a]
<1>1. Cells(f, a, a) = (a .. a) \X (0 .. f[a] - 1)
  BY CapacityNat DEF Cells, Offsets
<1> DEFINE A == a .. a
           B == 0 .. f[a] - 1
<1>2. f[a] \in Nat
  BY CapacityNat
<1>3. IsFiniteSet(A) /\ Cardinality(A) = 1
  <2>1. IsFiniteSet(A) /\ Cardinality(A) = IF a > a THEN 0 ELSE a - a + 1
    BY FS_Interval
  <2> QED BY <2>1
<1>4. IsFiniteSet(B) /\ Cardinality(B) = f[a]
  <2>1. f[a] - 1 \in Int /\ 0 \in Int
    BY <1>2
  <2>2. IsFiniteSet(B) /\ Cardinality(B) = IF 0 > f[a] - 1 THEN 0 ELSE f[a] - 1 - 0 + 1
    BY <2>1, FS_Interval
  <2> QED BY <1>2, <2>2
<1> HIDE DEF A, B
<1>5. Cardinality(A \X B) = Cardinality(A) * Cardinality(B)
  BY <1>3, <1>4, FS_Product
<1> QED BY <1>1, <1>2, <1>3, <1>4, <1>5 DEF Total, A, B

\* Totals of adjacent ranges add up.
LEMMA SplitTotal ==
  ASSUME NEW f, NEW a \in Int, NEW m \in Int, NEW b \in Int, a <= m + 1, m <= b
  PROVE  Total(f, a, b) = Total(f, a, m) + Total(f, m + 1, b)
<1> DEFINE S == a .. m
           T == m + 1 .. b
<1>0. a .. b = S \cup T /\ S \cap T = {}
  OBVIOUS
<1> HIDE DEF S, T
<1>a. (S \cup T) \X Offsets = (S \X Offsets) \cup (T \X Offsets)
  OBVIOUS
<1>b. \A c \in S \X Offsets : c[1] \in S
  OBVIOUS
<1>c. \A c \in T \X Offsets : c[1] \in T
  OBVIOUS
<1>1. Cells(f, a, b) = Cells(f, a, m) \cup Cells(f, m + 1, b)
  BY <1>0, <1>a DEF Cells, S, T
<1>2. Cells(f, a, m) \cap Cells(f, m + 1, b) = {}
  BY <1>0, <1>b, <1>c DEF Cells, S, T
<1>3. /\ IsFiniteSet(Cells(f, a, m)) /\ Total(f, a, m) \in Nat
      /\ IsFiniteSet(Cells(f, m + 1, b)) /\ Total(f, m + 1, b) \in Nat
  BY CellsFinite
<1>4. Cardinality(Cells(f, a, m) \cap Cells(f, m + 1, b)) = 0
  BY <1>2, FS_EmptySet
<1> DEFINE C == Cells(f, a, m)
           D == Cells(f, m + 1, b)
<1> HIDE DEF C, D
<1>5. Cardinality(C \cup D) = Cardinality(C) + Cardinality(D) - Cardinality(C \cap D)
  BY <1>3, FS_Union DEF C, D
<1> QED BY <1>1, <1>3, <1>4, <1>5 DEF Total, C, D

\* A total depends on the sizes in its range only, and not on where they stand.
LEMMA SameTotal ==
  ASSUME NEW f, NEW g, NEW a \in Int, NEW b \in Int, \A k \in a .. b : g[k] = f[k]
  PROVE  Total(g, a, b) = Total(f, a, b)
<1>0. \A c \in (a .. b) \X Offsets : g[c[1]] = f[c[1]]
  OBVIOUS
<1>1. Cells(g, a, b) = Cells(f, a, b)
  BY <1>0 DEF Cells
<1> QED BY <1>1 DEF Total

LEMMA ShiftTotal ==
  ASSUME NEW f, NEW g, NEW a \in Int, NEW b \in Int, \A k \in a .. b : g[k] = f[k + 1]
  PROVE  Total(g, a, b) = Total(f, a + 1, b + 1)
<1> DEFINE S == Cells(g, a, b)
           T == Cells(f, a + 1, b + 1)
           up == [c \in S |-> <<c[1] + 1, c[2]>>]
<1>1. \A c \in S : up[c] \in T
  BY CapacityNat DEF Cells, Offsets
<1>2. \A c, d \in S : up[c] = up[d] => c = d
  BY CapacityNat DEF Cells, Offsets
<1>3. \A t \in T : \E c \in S : up[c] = t
  <2> SUFFICES ASSUME NEW t \in T PROVE \E c \in S : up[c] = t
    OBVIOUS
  <2>1. <<t[1] - 1, t[2]>> \in S
    BY CapacityNat DEF Cells, Offsets
  <2>2. up[<<t[1] - 1, t[2]>>] = t
    BY <2>1, CapacityNat DEF Cells, Offsets
  <2> QED BY <2>1, <2>2
<1>4. up \in Bijection(S, T)
  BY <1>1, <1>2, <1>3 DEF Bijection, Injection, Surjection, IsInjective
<1>5. ExistsBijection(S, T)
  BY <1>4 DEF ExistsBijection
<1>6. IsFiniteSet(S)
  BY CellsFinite
<1> QED BY <1>5, <1>6, FS_Bijection DEF Total

-----------------------------------------------------------------------------
Inv == TypeOK /\ LayoutInv

\* What the invariant says of the total.
LEMMA TotalBound ==
  ASSUME Inv
  PROVE  /\ MsgDataTotalSize = Total(msgDataSize, 0, curMsgNumber - 1)
         /\ MsgDataTotalSize \in Nat
         /\ curMsgNumber \in Nat
         /\ frontFree \in Nat
  BY SizeIsTotal, CellsFinite, MessageQueueAssumption, CapacityNat DEF Inv, TypeOK, MsgDataTotalSize

LEMMA InitInv == Init => Inv
<1> SUFFICES ASSUME Init PROVE Inv
  OBVIOUS
<1>1. Cells(msgDataSize, 0, 0 - 1) = {}
  BY DEF Cells
<1>2. MsgDataTotalSize = 0
  BY <1>1, SizeIsTotal, FS_EmptySet DEF Init, MsgDataTotalSize, Total
<1> QED BY <1>2, CapacityNat, MessageQueueAssumption DEF Init, Inv, TypeOK, LayoutInv, Slots, Offsets

\* What a push leaves in the data area: the bytes of the queue, where they were
\* or moved to the front, and those of the message behind them.
LEMMA DataAfterPush ==
  ASSUME CopyOrders = {"ascending"},
         Inv, NEW m \in Messages, PushBack(m), ~PushRefused(Len(m))
  PROVE  /\ frontFree' \in Nat
         /\ frontFree' + MsgDataTotalSize + Len(m) <= Capacity
         /\ msgData' \in [Offsets -> Nat]
         /\ \A o \in 0 .. MsgDataTotalSize - 1 : msgData'[frontFree' + o] = msgData[frontFree + o]
         /\ \A k \in 1 .. Len(m) : msgData'[frontFree' + MsgDataTotalSize + k - 1] = m[k]
<1> DEFINE total == MsgDataTotalSize
           size  == Len(m)
<1>1. /\ total \in Nat /\ frontFree \in Nat /\ Capacity \in Nat
      /\ frontFree + total <= Capacity
      /\ size \in Nat \ {0}
      /\ total + size <= Capacity
      /\ msgData \in [Offsets -> Nat]
  BY MessageSize, TotalBound, CapacityNat DEF PushRefused, TotalFree, Inv, TypeOK, LayoutInv
<1>2. m \in Seq(Nat) /\ \A k \in 1 .. size : m[k] \in Nat
  BY MessageQueueAssumption
<1>3. ASSUME NEW mem \in [Offsets -> Nat], NEW at \in Nat, at + size <= Capacity
      PROVE  /\ Store(mem, at, m) \in [Offsets -> Nat]
             /\ \A o \in 0 .. at - 1 : Store(mem, at, m)[o] = mem[o]
             /\ \A k \in 1 .. size : Store(mem, at, m)[at + k - 1] = m[k]
  <2>1. Store(mem, at, m) =
          [k \in Offsets |-> IF k \in at .. at + size - 1 THEN m[k - at + 1] ELSE mem[k]]
    BY <1>3 DEF Store
  <2>2. \A k \in at .. at + size - 1 : k - at + 1 \in 1 .. size
    BY <1>1, <1>3
  <2>3. \A k \in Offsets : k \in at .. at + size - 1 => m[k - at + 1] \in Nat
    BY <1>2, <2>2
  <2>4. Store(mem, at, m) \in [Offsets -> Nat]
    BY <2>1, <2>3
  <2>5. ASSUME NEW o \in 0 .. at - 1 PROVE Store(mem, at, m)[o] = mem[o]
    <3>1. o \in Offsets /\ o \notin at .. at + size - 1
      BY <1>1, <1>3 DEF Offsets
    <3> QED BY <2>1, <3>1
  <2>6. ASSUME NEW k \in 1 .. size PROVE Store(mem, at, m)[at + k - 1] = m[k]
    <3>1. /\ at + k - 1 \in Offsets /\ at + k - 1 \in at .. at + size - 1
          /\ (at + k - 1) - at + 1 = k
      BY <1>1, <1>3 DEF Offsets
    <3> QED BY <2>1, <3>1
  <2> QED BY <2>4, <2>5, <2>6
<1> HIDE DEF total, size
<1>4. CASE TailFree >= Len(m)
  <2>1. msgData' = Store(msgData, total + frontFree, m) /\ frontFree' = frontFree
    BY <1>1, <1>4, TotalBound DEF PushBack, TailFree, TotalFree, total, size
  <2>2. total + frontFree + size <= Capacity /\ total + frontFree \in Nat
    BY <1>1, <1>4 DEF TailFree, TotalFree, total, size
  <2>3. /\ msgData' \in [Offsets -> Nat]
        /\ \A o \in 0 .. total + frontFree - 1 : msgData'[o] = msgData[o]
        /\ \A k \in 1 .. size : msgData'[total + frontFree + k - 1] = m[k]
    BY <1>1, <1>3, <2>1, <2>2
  <2>4. \A o \in 0 .. total - 1 : frontFree + o \in 0 .. total + frontFree - 1
    BY <1>1
  <2>5. total + frontFree = frontFree + total
    BY <1>1
  <2> QED BY <1>1, <2>1, <2>2, <2>3, <2>4, <2>5 DEF total, size
<1>5. CASE ~(TailFree >= Len(m))
  <2> DEFINE mem == MemCpyDown(msgData, 0, frontFree, total, "ascending")
  <2>1. msgData' = Store(mem, total, m) /\ frontFree' = 0
    BY <1>1, <1>5, TotalBound DEF PushBack, TailFree, TotalFree, total, size
  <2>2. frontFree > 0
    BY <1>1, <1>5 DEF TailFree, TotalFree, total, size
  <2>3. mem = [k \in Offsets |-> IF k \in 0 .. total - 1 THEN msgData[k + frontFree] ELSE msgData[k]]
    BY <1>1, <2>2 DEF MemCpyDown
  <2>4. \A k \in 0 .. total - 1 : k \in Offsets /\ k + frontFree \in Offsets
    BY <1>1 DEF Offsets
  <2>5. mem \in [Offsets -> Nat]
    BY <1>1, <2>3, <2>4
  <2>6. \A k \in 0 .. total - 1 : mem[k] = msgData[k + frontFree]
    BY <2>3, <2>4
  <2> HIDE DEF mem
  <2>7. /\ msgData' \in [Offsets -> Nat]
        /\ \A o \in 0 .. total - 1 : msgData'[o] = mem[o]
        /\ \A k \in 1 .. size : msgData'[total + k - 1] = m[k]
    BY <1>1, <1>3, <2>1, <2>5
  <2>8. \A o \in 0 .. total - 1 : 0 + o = o /\ o + frontFree = frontFree + o
    BY <1>1
  <2>9. 0 + total = total /\ 0 + total + size <= Capacity
    BY <1>1
  <2> QED BY <2>1, <2>6, <2>7, <2>8, <2>9 DEF total, size
<1> QED BY <1>4, <1>5

\* A push adds the size of its message, behind the others or after a move.
LEMMA PushInv ==
  ASSUME CopyOrders = {"ascending"},
         Inv, NEW m \in Messages, PushBack(m), ~PushRefused(Len(m))
  PROVE  Inv'
<1> DEFINE f == msgDataSize
           g == [msgDataSize EXCEPT ![curMsgNumber] = Len(m)]
           n == curMsgNumber
<1>b. Len(m) \in Nat \ {0}
  BY MessageSize
<1>c. curMsgNumber' = n + 1 /\ msgDataSize' = g
  BY DEF PushBack
<1>d. n \in 0 .. MsgMaxNumber - 1 /\ n \in Slots
  BY TotalBound, MessageQueueAssumption DEF PushRefused, Inv, TypeOK, Slots
<1>e. Len(m) \in 1 .. Capacity /\ MsgDataTotalSize + Len(m) <= Capacity
  BY <1>b, TotalBound, CapacityNat DEF PushRefused, TotalFree
<1>1. /\ curMsgNumber' = n + 1
      /\ msgDataSize' = g
      /\ n \in 0 .. MsgMaxNumber - 1 /\ n \in Slots
      /\ Len(m) \in 1 .. Capacity
      /\ MsgDataTotalSize + Len(m) <= Capacity
  BY <1>c, <1>d, <1>e
<1>2. /\ frontFree' \in Nat
      /\ frontFree' + MsgDataTotalSize + Len(m) <= Capacity
      /\ msgData' \in [Offsets -> Nat]
  BY DataAfterPush
<1>3. g \in [Slots -> 0 .. Capacity] /\ g[n] = Len(m) /\ \A k \in 0 .. n - 1 : g[k] = f[k]
  <2>1. f \in [Slots -> 0 .. Capacity]
    BY DEF Inv, TypeOK
  <2>2. \A k \in 0 .. n - 1 : k # n /\ k \in Slots
    <3>1. n \in Nat /\ n \in Slots /\ MsgMaxNumber \in Nat
      BY <1>1, TotalBound, MessageQueueAssumption
    <3> QED BY <3>1 DEF Slots
  <2>3. Len(m) \in 0 .. Capacity
    BY <1>b, <1>1, CapacityNat
  <2> QED BY <1>1, <2>1, <2>2, <2>3
<1>a. n \in Int /\ n - 1 \in Int /\ 0 \in Int /\ 0 <= n - 1 + 1 /\ n - 1 <= n /\ n - 1 + 1 = n
  BY TotalBound
<1> HIDE DEF g
<1>4. MsgDataTotalSize' = MsgDataTotalSize + Len(m)
  <2>1. MsgDataTotalSize' = Total(g, 0, n)
    BY <1>1, TotalBound DEF MsgDataTotalSize, SizeUpTo, Total, Cells
  <2>2. Total(g, 0, n) = Total(g, 0, n - 1) + Total(g, n, n)
    BY <1>a, SplitTotal
  <2>3. Total(g, 0, n - 1) = MsgDataTotalSize
    <3>1. Total(g, 0, n - 1) = Total(f, 0, n - 1)
      BY <1>3, <1>a, SameTotal
    <3> QED BY <3>1, TotalBound
  <2>4. Total(g, n, n) = Len(m)
    <3>1. Total(g, n, n) = g[n]
      BY <1>1, <1>3, <1>a, OneMessage
    <3> QED BY <1>3, <3>1
  <2> QED BY <2>1, <2>2, <2>3, <2>4
<1>5. \A i \in 0 .. n : g[i] > 0
  BY <1>1, <1>3, TotalBound DEF Inv, LayoutInv
<1>6. TypeOK'
  BY <1>1, <1>2, <1>3, TotalBound, CapacityNat, MessageQueueAssumption DEF TypeOK
<1>7. LayoutInv'
  BY <1>1, <1>2, <1>4, <1>5, TotalBound, CapacityNat DEF LayoutInv
<1> QED BY <1>6, <1>7 DEF Inv

\* A pop turns the bytes of the first message into free ones at the front, and
\* moves the sizes of the others down.
LEMMA PopInv ==
  ASSUME CopyOrders = {"ascending"},
         Inv, NEW bufSize \in BufSizes, PopFront(bufSize), curMsgNumber > 0, msgDataSize[0] <= bufSize
  PROVE  Inv'
<1> DEFINE f == msgDataSize
           g == MemCpyDown(msgDataSize, 0, 1, curMsgNumber - 1, "ascending")
           n == curMsgNumber
<1>1. /\ n \in 1 .. MsgMaxNumber
      /\ 0 \in Slots
      /\ f[0] \in 1 .. Capacity
      /\ bufSize \in Nat
  BY TotalBound, CapacityNat, MessageQueueAssumption DEF Inv, TypeOK, LayoutInv, Slots
<1>2. /\ curMsgNumber' = n - 1
      /\ frontFree' = frontFree + f[0]
      /\ msgDataSize' = g
      /\ msgData' = msgData
  BY <1>1 DEF PopFront
<1>3. g = [k \in Slots |-> IF k \in 0 .. n - 2 THEN f[k + 1] ELSE f[k]]
  BY <1>1 DEF MemCpyDown, Inv, TypeOK, Slots
<1>4. g \in [Slots -> 0 .. Capacity] /\ \A k \in 0 .. n - 2 : g[k] = f[k + 1]
  BY <1>1, <1>3, MessageQueueAssumption DEF Inv, TypeOK, Slots
<1>5. MsgDataTotalSize = f[0] + MsgDataTotalSize'
  <2>1. MsgDataTotalSize' = Total(g, 0, n - 2)
    BY <1>1, <1>2 DEF MsgDataTotalSize, SizeUpTo, Total, Cells
  <2>2. Total(g, 0, n - 2) = Total(f, 1, n - 1)
    <3>1. Total(g, 0, n - 2) = Total(f, 0 + 1, n - 2 + 1)
      BY <1>1, <1>4, ShiftTotal
    <3> QED BY <1>1, <3>1
  <2>3. Total(f, 0, n - 1) = Total(f, 0, 0) + Total(f, 1, n - 1)
    <3>1. Total(f, 0, n - 1) = Total(f, 0, 0) + Total(f, 0 + 1, n - 1)
      BY <1>1, SplitTotal
    <3> QED BY <3>1
  <2>4. Total(f, 0, 0) = f[0]
    BY <1>1, CapacityNat, OneMessage
  <2> QED BY <2>1, <2>2, <2>3, <2>4, TotalBound
<1>6. MsgDataTotalSize' \in Nat
  <2>1. MsgDataTotalSize' = Total(g, 0, n - 2)
    BY <1>1, <1>2 DEF MsgDataTotalSize, SizeUpTo, Total, Cells
  <2> HIDE DEF g
  <2>2. Total(g, 0, n - 2) \in Nat
    BY <1>1, CellsFinite
  <2> QED BY <2>1, <2>2
<1> HIDE DEF g
<1>7. LayoutInv'
  BY <1>1, <1>2, <1>4, <1>5, <1>6, TotalBound, CapacityNat DEF Inv, LayoutInv
<1>8. TypeOK'
  <2>1. frontFree' \in 0 .. Capacity
    BY <1>1, <1>2, <1>5, <1>6, TotalBound, CapacityNat DEF Inv, LayoutInv
  <2>2. curMsgNumber' \in 0 .. MsgMaxNumber
    BY <1>1, <1>2, MessageQueueAssumption
  <2>3. msgDataSize' \in [Slots -> 0 .. Capacity] /\ msgData' \in [Offsets -> Nat]
    BY <1>2, <1>4 DEF Inv, TypeOK
  <2> QED BY <2>1, <2>2, <2>3 DEF TypeOK
<1> QED BY <1>7, <1>8 DEF Inv

LEMMA NextInv ==
  ASSUME CopyOrders = {"ascending"}, Inv, [Next]_vars
  PROVE  Inv'
<1>1. UNCHANGED shm => Inv'
  BY DEF shm, Inv, TypeOK, LayoutInv, MsgDataTotalSize, SizeUpTo
<1>2. ASSUME NEW m \in Messages, PushBack(m) PROVE Inv'
  BY <1>1, <1>2, PushInv DEF PushBack
<1>3. ASSUME NEW n \in BufSizes, PopFront(n) PROVE Inv'
  BY <1>1, <1>3, PopInv DEF PopFront
<1> QED BY <1>1, <1>2, <1>3 DEF Next, CheckSpaceSufficient, MsgNumber, vars, shm

LEMMA InvHolds ==
  ASSUME CopyOrders = {"ascending"}
  PROVE  Spec => []Inv
  BY InitInv, NextInv, PTL DEF Spec

THEOREM MessageQueueTypes ==
  ASSUME CopyOrders = {"ascending"}
  PROVE  Spec => []TypeOK
<1>1. Inv => TypeOK
  BY DEF Inv
<1> QED BY <1>1, InvHolds, PTL

\* No push and no pop reaches past the end of the block, whatever moves happened.
THEOREM MessagesStayInside ==
  ASSUME CopyOrders = {"ascending"}
  PROVE  Spec => []LayoutInv
<1>1. Inv => LayoutInv
  BY DEF Inv
<1> QED BY <1>1, InvHolds, PTL

\* A sender that was told there is room is not refused while it has the lock.
THEOREM RoomIsRoom ==
  ASSUME CopyOrders = {"ascending"}
  PROVE  Spec => []CheckAgreesWithPush
<1>1. Inv => CheckAgreesWithPush
  <2> SUFFICES ASSUME Inv, NEW m \in Messages
               PROVE  SpaceSufficient(Len(m)) <=> ~PushRefused(Len(m))
    BY DEF CheckAgreesWithPush
  <2> QED BY MessageSize, TotalBound, CapacityNat, MessageQueueAssumption
             DEF SpaceSufficient, PushRefused, TotalFree, Inv, TypeOK
<1> QED BY <1>1, InvHolds, PTL

-----------------------------------------------------------------------------
(* The block implements the queue of BoundedFifo.                          *)

\* Where the i-th message lies among the bytes of the queue.
LEMMA Place ==
  ASSUME Inv, NEW i \in 1 .. curMsgNumber
  PROVE  /\ msgDataSize[i - 1] \in 1 .. Capacity
         /\ SizeUpTo(i - 1) \in Nat
         /\ SizeUpTo(i) = SizeUpTo(i - 1) + msgDataSize[i - 1]
         /\ SizeUpTo(i) <= MsgDataTotalSize
<1> DEFINE f == msgDataSize
           n == curMsgNumber
<1>1. n \in Nat /\ n <= MsgMaxNumber /\ MsgMaxNumber \in Nat /\ i \in Int /\ i - 1 \in 0 .. n - 1
  BY TotalBound, MessageQueueAssumption DEF Inv, TypeOK
<1>2. f[i - 1] \in 1 .. Capacity
  BY <1>1, CapacityNat DEF Inv, TypeOK, LayoutInv, Slots
<1>3. Total(f, 0, i - 1) = Total(f, 0, i - 2) + f[i - 1]
  <2>1. Total(f, 0, i - 1) = Total(f, 0, i - 2) + Total(f, i - 2 + 1, i - 1)
    BY <1>1, SplitTotal
  <2>2. Total(f, i - 1, i - 1) = f[i - 1]
    BY <1>1, <1>2, CapacityNat, OneMessage
  <2>3. i - 2 + 1 = i - 1
    BY <1>1
  <2> QED BY <2>1, <2>2, <2>3
<1>4. Total(f, 0, n - 1) = Total(f, 0, i - 1) + Total(f, i - 1 + 1, n - 1)
  BY <1>1, SplitTotal
<1>5. /\ Total(f, 0, i - 2) \in Nat /\ Total(f, 0, i - 1) \in Nat
      /\ Total(f, i - 1 + 1, n - 1) \in Nat
  BY <1>1, CellsFinite
<1>6. i - 1 - 1 = i - 2
  BY <1>1
<1> QED BY <1>2, <1>3, <1>4, <1>5, <1>6, SizeIsTotal DEF MsgDataTotalSize

LEMMA EmptyPlace == SizeUpTo(0) = 0
<1>1. Cells(msgDataSize, 0, 0 - 1) = {}
  BY DEF Cells
<1> QED BY <1>1, SizeIsTotal, FS_EmptySet DEF Total

LEMMA QueueIsSequence ==
  ASSUME Inv
  PROVE  /\ QueueOf \in Seq(Seq(Nat))
         /\ Len(QueueOf) = curMsgNumber
         /\ DOMAIN QueueOf = 1 .. curMsgNumber
         /\ \A i \in 1 .. curMsgNumber :
              /\ QueueOf[i] = [k \in 1 .. msgDataSize[i - 1] |-> msgData[Offset(i - 1) + k - 1]]
              /\ DOMAIN QueueOf[i] = 1 .. msgDataSize[i - 1]
              /\ Len(QueueOf[i]) = msgDataSize[i - 1]
<1>1. curMsgNumber \in Nat
  BY TotalBound
<1>2. ASSUME NEW i \in 1 .. curMsgNumber
      PROVE  /\ Load(Offset(i - 1), msgDataSize[i - 1]) \in Seq(Nat)
             /\ Len(Load(Offset(i - 1), msgDataSize[i - 1])) = msgDataSize[i - 1]
  <2> DEFINE at == Offset(i - 1)
             sz == msgDataSize[i - 1]
  <2>1. /\ at \in Nat /\ sz \in Nat /\ at + sz <= Capacity
    BY Place, TotalBound, CapacityNat DEF Inv, LayoutInv, Offset
  <2> HIDE DEF at, sz
  <2>2. \A k \in 1 .. sz : at + k - 1 \in Offsets
    BY <2>1, CapacityNat DEF Offsets
  <2>3. \A k \in 1 .. sz : msgData[at + k - 1] \in Nat
    BY <2>2 DEF Inv, TypeOK
  <2>4. Load(at, sz) \in [1 .. sz -> Nat]
    BY <2>3 DEF Load
  <2>5. Load(at, sz) \in Seq(Nat) /\ Len(Load(at, sz)) = sz
    BY <2>1, <2>4
  <2> QED BY <2>5 DEF at, sz
<1>3. QueueOf \in [1 .. curMsgNumber -> Seq(Nat)]
  BY <1>2 DEF QueueOf
<1>4. QueueOf \in Seq(Seq(Nat)) /\ Len(QueueOf) = curMsgNumber
  BY <1>1, <1>3
<1>5. \A i \in 1 .. curMsgNumber : QueueOf[i] = Load(Offset(i - 1), msgDataSize[i - 1])
  BY DEF QueueOf
<1> QED BY <1>2, <1>3, <1>4, <1>5 DEF Load

\* The queue has the bytes that the sizes add up to.
LEMMA QueueBytes == Inv => Fifo!Bytes(QueueOf) = MsgDataTotalSize
<1> SUFFICES ASSUME Inv PROVE Fifo!Bytes(QueueOf) = MsgDataTotalSize
  OBVIOUS
<1> DEFINE n == curMsgNumber
           f == msgDataSize
           S == Cells(f, 0, n - 1)
           T == UNION {{i} \X DOMAIN QueueOf[i] : i \in DOMAIN QueueOf}
           next == [c \in S |-> <<c[1] + 1, c[2] + 1>>]
<1>1. n \in Nat /\ Capacity \in Nat
  BY TotalBound, CapacityNat
<1>2. \A i \in 1 .. n : f[i - 1] \in 1 .. Capacity
  BY Place
<1>3. \A t : t \in T <=> \E i \in 1 .. n : \E k \in 1 .. f[i - 1] : t = <<i, k>>
  <2>1. DOMAIN QueueOf = 1 .. n /\ \A i \in 1 .. n : DOMAIN QueueOf[i] = 1 .. f[i - 1]
    BY QueueIsSequence
  <2>2. T = UNION {{i} \X (1 .. f[i - 1]) : i \in 1 .. n}
    BY <2>1
  <2> HIDE DEF T
  <2> QED BY <2>2
<1>4. \A c : c \in S <=> \E i \in 0 .. n - 1 : \E k \in 0 .. f[i] - 1 : c = <<i, k>>
  <2>1. \A i \in 0 .. n - 1 : f[i] \in 1 .. Capacity
    <3> SUFFICES ASSUME NEW i \in 0 .. n - 1 PROVE f[i] \in 1 .. Capacity
      OBVIOUS
    <3>1. i + 1 \in 1 .. n /\ i + 1 - 1 = i
      BY <1>1
    <3> QED BY <1>2, <3>1
  <2>2. ASSUME NEW c \in S PROVE \E i \in 0 .. n - 1 : \E k \in 0 .. f[i] - 1 : c = <<i, k>>
    <3>1. c \in (0 .. n - 1) \X Offsets /\ c[2] < f[c[1]]
      BY DEF Cells
    <3>2. c = <<c[1], c[2]>> /\ c[1] \in 0 .. n - 1 /\ c[2] \in 0 .. f[c[1]] - 1
      BY <1>1, <2>1, <3>1 DEF Offsets
    <3> QED BY <3>2
  <2>3. ASSUME NEW i \in 0 .. n - 1, NEW k \in 0 .. f[i] - 1 PROVE <<i, k>> \in S
    BY <1>1, <2>1 DEF Cells, Offsets
  <2> QED BY <2>2, <2>3
<1> HIDE DEF S, T
<1>5. \A c \in S : next[c] \in T
  <2> SUFFICES ASSUME NEW i \in 0 .. n - 1, NEW k \in 0 .. f[i] - 1, <<i, k>> \in S
               PROVE  next[<<i, k>>] \in T
    BY <1>4
  <2>1. i + 1 \in 1 .. n /\ i + 1 - 1 = i
    BY <1>1
  <2>2. f[i] \in Nat /\ k + 1 \in 1 .. f[i]
    BY <1>1, <1>2, <2>1
  <2> QED BY <1>3, <2>1, <2>2
<1>6. \A c, d \in S : next[c] = next[d] => c = d
  <2> SUFFICES ASSUME NEW c \in S, NEW d \in S, next[c] = next[d] PROVE c = d
    OBVIOUS
  <2>1. PICK i \in Int, k \in Int : c = <<i, k>>
    BY <1>4
  <2>2. PICK j \in Int, l \in Int : d = <<j, l>>
    BY <1>4
  <2> QED BY <2>1, <2>2
<1>7. \A t \in T : \E c \in S : next[c] = t
  <2> SUFFICES ASSUME NEW t \in T PROVE \E c \in S : next[c] = t
    OBVIOUS
  <2>0. PICK i \in 1 .. n : \E k \in 1 .. f[i - 1] : t = <<i, k>>
    BY <1>3
  <2>0a. PICK k \in 1 .. f[i - 1] : t = <<i, k>>
    BY <2>0
  <2>1. i - 1 \in 0 .. n - 1 /\ k - 1 \in 0 .. f[i - 1] - 1
    BY <1>1, <1>2
  <2>2. <<i - 1, k - 1>> \in S
    BY <1>4, <2>1
  <2>3. next[<<i - 1, k - 1>>] = <<i, k>>
    BY <1>1, <1>2, <2>2
  <2> QED BY <2>0a, <2>2, <2>3
<1>8. next \in Bijection(S, T)
  BY <1>5, <1>6, <1>7 DEF Bijection, Injection, Surjection, IsInjective
<1>9. ExistsBijection(S, T)
  BY <1>8 DEF ExistsBijection
<1>10. IsFiniteSet(S)
  BY <1>1, CellsFinite DEF S
<1>11. Cardinality(T) = Cardinality(S)
  BY <1>9, <1>10, FS_Bijection
<1>12. Fifo!Cardinality(T) = Cardinality(T)
  BY DEF Fifo!Cardinality, Cardinality
<1> QED BY <1>11, <1>12, TotalBound DEF Fifo!Bytes, S, T, Total

\* The question a sender asks, and the refusal of a push, are those of the queue.
LEMMA FitsIsSpace ==
  ASSUME Inv, NEW size \in Nat
  PROVE  /\ Fifo!Fits(size) <=> SpaceSufficient(size)
         /\ Fifo!Fits(size) <=> ~PushRefused(size)
<1>1. /\ Fifo!Bytes(QueueOf) = MsgDataTotalSize /\ Len(QueueOf) = curMsgNumber
      /\ MsgDataTotalSize \in Nat /\ Capacity \in Nat
      /\ curMsgNumber \in Nat /\ curMsgNumber <= MsgMaxNumber /\ MsgMaxNumber \in Nat
  BY QueueBytes, QueueIsSequence, TotalBound, CapacityNat, MessageQueueAssumption DEF Inv, TypeOK
<1> QED BY <1>1 DEF Fifo!Fits, SpaceSufficient, PushRefused, TotalFree

LEMMA InitMapped == Init => Fifo!Init
<1> SUFFICES ASSUME Init PROVE Fifo!Init
  OBVIOUS
<1>1. QueueOf = <<>>
  BY DEF Init, QueueOf
<1> QED BY <1>1 DEF Fifo!Init, Init

LEMMA UnchangedMapped == UNCHANGED shm => UNCHANGED QueueOf
  BY DEF shm, QueueOf, Load, Offset, SizeUpTo

\* An accepted push appends the message.
LEMMA PushQueue ==
  ASSUME CopyOrders = {"ascending"}, Inv, NEW m \in Messages, PushBack(m), ~PushRefused(Len(m))
  PROVE  QueueOf' = Append(QueueOf, m)
<1> DEFINE n == curMsgNumber
           f == msgDataSize
           g == [msgDataSize EXCEPT ![curMsgNumber] = Len(m)]
           q == QueueOf
           total == MsgDataTotalSize
<1>1. Len(m) \in Nat \ {0} /\ m \in Seq(Nat)
  BY MessageSize, MessageQueueAssumption
<1>2. /\ n \in Nat /\ n \in Slots
      /\ curMsgNumber' = n + 1
      /\ msgDataSize' = g
      /\ total \in Nat /\ frontFree \in Nat
  BY TotalBound, MessageQueueAssumption DEF PushBack, PushRefused, Inv, TypeOK, Slots
<1>3. g[n] = Len(m) /\ \A j \in 0 .. n - 1 : g[j] = f[j]
  <2>1. f \in [Slots -> 0 .. Capacity]
    BY DEF Inv, TypeOK
  <2>2. \A j \in 0 .. n - 1 : j # n /\ j \in Slots
    <3>1. n \in Nat /\ n \in Slots /\ MsgMaxNumber \in Nat
      BY <1>2, MessageQueueAssumption
    <3> QED BY <3>1 DEF Slots
  <2> QED BY <1>2, <2>1, <2>2
<1> HIDE DEF g
<1>4. \A j \in 0 .. n : Total(g, 0, j - 1) = SizeUpTo(j)
  <2> SUFFICES ASSUME NEW j \in 0 .. n PROVE Total(g, 0, j - 1) = SizeUpTo(j)
    OBVIOUS
  <2>1. \A l \in 0 .. j - 1 : g[l] = f[l]
    BY <1>2, <1>3
  <2>2. 0 \in Int /\ j - 1 \in Int
    BY <1>2
  <2>3. Total(g, 0, j - 1) = Total(f, 0, j - 1)
    BY <2>1, <2>2, SameTotal
  <2> QED BY <2>3, SizeIsTotal
<1>5. QueueOf' = [i \in 1 .. n + 1 |->
                    [k \in 1 .. g[i - 1] |-> msgData'[frontFree' + SizeUpTo(i - 1) + k - 1]]]
  <2>1. QueueOf' = [i \in 1 .. n + 1 |->
                      [k \in 1 .. g[i - 1] |-> msgData'[frontFree' + Total(g, 0, i - 1 - 1) + k - 1]]]
    BY <1>2 DEF QueueOf, Load, Offset, SizeUpTo, Total, Cells
  <2>2. \A i \in 1 .. n + 1 : Total(g, 0, i - 1 - 1) = SizeUpTo(i - 1)
    BY <1>2, <1>4
  <2> QED BY <2>1, <2>2
<1>6. /\ q \in Seq(Seq(Nat)) /\ Len(q) = n
      /\ \A i \in 1 .. n : q[i] = [k \in 1 .. f[i - 1] |-> msgData[frontFree + SizeUpTo(i - 1) + k - 1]]
  BY QueueIsSequence DEF Offset
<1> HIDE DEF q
<1>7. ASSUME NEW i \in 1 .. n PROVE QueueOf'[i] = q[i]
  <2> DEFINE at == SizeUpTo(i - 1)
             size == f[i - 1]
  <2>1. /\ i \in 1 .. n + 1 /\ g[i - 1] = size
        /\ at \in Nat /\ size \in Nat /\ at + size <= total
    <3>1. i \in 1 .. n + 1 /\ i - 1 \in 0 .. n - 1
      BY <1>2
    <3>2. size \in 1 .. Capacity /\ at \in Nat /\ SizeUpTo(i) = at + size /\ SizeUpTo(i) <= total
      BY Place
    <3> QED BY <1>3, <3>1, <3>2, CapacityNat
  <2>3. QueueOf'[i] = [k \in 1 .. size |-> msgData'[frontFree' + at + k - 1]]
    BY <1>5, <2>1
  <2>4. q[i] = [k \in 1 .. size |-> msgData[frontFree + at + k - 1]]
    BY <1>6
  <2> HIDE DEF at, size
  <2>5. ASSUME NEW k \in 1 .. size
        PROVE  msgData'[frontFree' + at + k - 1] = msgData[frontFree + at + k - 1]
    <3>1. at + k - 1 \in 0 .. total - 1
      BY <1>2, <2>1
    <3>2. frontFree' \in Nat /\ msgData'[frontFree' + (at + k - 1)] = msgData[frontFree + (at + k - 1)]
      BY <3>1, DataAfterPush
    <3>3. /\ frontFree' + (at + k - 1) = frontFree' + at + k - 1
          /\ frontFree + (at + k - 1) = frontFree + at + k - 1
      BY <1>2, <2>1, <3>2
    <3> QED BY <3>2, <3>3
  <2> QED BY <2>3, <2>4, <2>5
<1>8. QueueOf'[n + 1] = m
  <2>1. n + 1 \in 1 .. n + 1 /\ n + 1 - 1 = n
    BY <1>2
  <2>2. SizeUpTo(n) = total /\ g[n] = Len(m)
    BY <1>3 DEF MsgDataTotalSize
  <2>3. QueueOf'[n + 1] = [k \in 1 .. Len(m) |-> msgData'[frontFree' + total + k - 1]]
    <3>1. PICK j \in 1 .. n + 1 : j = n + 1
      BY <2>1
    <3>2. QueueOf'[j] = [k \in 1 .. g[j - 1] |-> msgData'[frontFree' + SizeUpTo(j - 1) + k - 1]]
      BY <1>5
    <3>3. j - 1 = n
      BY <1>2, <3>1
    <3>4. g[j - 1] = Len(m) /\ SizeUpTo(j - 1) = total
      BY <2>2, <3>3
    <3> HIDE DEF total
    <3> QED BY <3>1, <3>2, <3>4
  <2>4. \A k \in 1 .. Len(m) : msgData'[frontFree' + total + k - 1] = m[k]
    BY DataAfterPush
  <2>5. m = [k \in 1 .. Len(m) |-> m[k]]
    BY <1>1
  <2> HIDE DEF total
  <2> QED BY <2>3, <2>4, <2>5
<1>9. /\ DOMAIN Append(q, m) = 1 .. n + 1
      /\ \A i \in 1 .. n : Append(q, m)[i] = q[i]
      /\ Append(q, m)[n + 1] = m
  BY <1>1, <1>2, <1>6
<1>10. \A i \in 1 .. n + 1 : QueueOf'[i] = Append(q, m)[i]
  <2>1. \A i \in 1 .. n + 1 : i \in 1 .. n \/ i = n + 1
    BY <1>2
  <2> QED BY <1>7, <1>8, <1>9, <2>1
<1>11. QueueOf' = [i \in 1 .. n + 1 |-> QueueOf'[i]]
  BY <1>5
<1>12. Append(q, m) = [i \in 1 .. n + 1 |-> Append(q, m)[i]]
  <2>1. Append(q, m) \in Seq(Seq(Nat)) /\ Len(Append(q, m)) = n + 1
    BY <1>1, <1>2, <1>6
  <2> DEFINE r == Append(q, m)
  <2>2. r \in Seq(Seq(Nat)) /\ Len(r) = n + 1
    BY <2>1
  <2> HIDE DEF r
  <2>3. r = [i \in 1 .. n + 1 |-> r[i]]
    BY <2>2
  <2> QED BY <2>3 DEF r
<1>13. QueueOf' = Append(q, m)
  BY <1>10, <1>11, <1>12
<1> QED BY <1>13 DEF q

LEMMA PushMapped ==
  ASSUME CopyOrders = {"ascending"}, Inv, NEW m \in Messages, PushBack(m)
  PROVE  Fifo!Push(m)
<1>1. Fifo!Fits(Len(m)) <=> ~PushRefused(Len(m))
  BY MessageSize, FitsIsSpace
<1>2. ret' = [op |-> "push", size |-> Len(m), ok |-> Fifo!Fits(Len(m))]
  <2>1. ret' = [op |-> "push", size |-> Len(m), ok |-> ~PushRefused(Len(m))]
    BY DEF PushBack
  <2>2. Fifo!Fits(Len(m)) = ~PushRefused(Len(m))
    BY <1>1 DEF Fifo!Fits, PushRefused
  <2> QED BY <2>1, <2>2
<1>3. QueueOf' = IF Fifo!Fits(Len(m)) THEN Append(QueueOf, m) ELSE QueueOf
  <2>1. CASE PushRefused(Len(m))
    <3>1. QueueOf' = QueueOf
      BY <2>1, UnchangedMapped DEF PushBack
    <3> QED BY <1>1, <2>1, <3>1
  <2>2. CASE ~PushRefused(Len(m))
    <3>1. QueueOf' = Append(QueueOf, m)
      BY <2>2, PushQueue
    <3> QED BY <1>1, <2>2, <3>1
  <2> QED BY <2>1, <2>2
<1> QED BY <1>2, <1>3 DEF Fifo!Push

\* The first message lies at frontFree; a pop of it leaves the others.
LEMMA PopQueue ==
  ASSUME CopyOrders = {"ascending"},
         Inv, NEW bufSize \in BufSizes, PopFront(bufSize), curMsgNumber > 0, msgDataSize[0] <= bufSize
  PROVE  QueueOf' = Tail(QueueOf)
<1> DEFINE n == curMsgNumber
           f == msgDataSize
           g == MemCpyDown(msgDataSize, 0, 1, curMsgNumber - 1, "ascending")
           q == QueueOf
<1>1. n \in Nat /\ n >= 1 /\ n <= MsgMaxNumber /\ MsgMaxNumber \in Nat /\ bufSize \in Nat
  BY TotalBound, MessageQueueAssumption DEF Inv, TypeOK
<1>2. /\ curMsgNumber' = n - 1
      /\ frontFree' = frontFree + f[0]
      /\ msgDataSize' = g
      /\ msgData' = msgData
  <2>1. ~(n <= 0) /\ f[0] \in Nat /\ ~(f[0] > bufSize)
    BY <1>1, CapacityNat DEF Inv, TypeOK, Slots
  <2> QED BY <2>1 DEF PopFront
<1>3. \A k \in 0 .. n - 2 : g[k] = f[k + 1]
  <2>1. g = [k \in Slots |-> IF k \in 0 .. n - 2 THEN f[k + 1] ELSE f[k]]
    BY <1>1 DEF MemCpyDown, Inv, TypeOK, Slots
  <2> QED BY <1>1, <2>1 DEF Slots
<1> HIDE DEF g
<1>4. \A j \in 0 .. n - 1 : SizeUpTo(j + 1) = f[0] + Total(g, 0, j - 1) /\ Total(g, 0, j - 1) \in Nat
  <2> SUFFICES ASSUME NEW j \in 0 .. n - 1
               PROVE  SizeUpTo(j + 1) = f[0] + Total(g, 0, j - 1) /\ Total(g, 0, j - 1) \in Nat
    OBVIOUS
  <2>1. j \in Int /\ 0 \in Int /\ j - 1 \in Int /\ \A k \in 0 .. j - 1 : g[k] = f[k + 1]
    BY <1>1, <1>3
  <2>2. Total(g, 0, j - 1) = Total(f, 0 + 1, j - 1 + 1)
    BY <2>1, ShiftTotal
  <2>3. Total(f, 0, j) = Total(f, 0, 0) + Total(f, 0 + 1, j)
    BY <1>1, SplitTotal
  <2>4. Total(f, 0, 0) = f[0]
    <3>1. f[0] \in 0 .. Capacity
      BY <1>1 DEF Inv, TypeOK, Slots
    <3> QED BY <3>1, OneMessage
  <2>5. Total(g, 0, j - 1) \in Nat
    BY <2>1, CellsFinite
  <2>6. j - 1 + 1 = j /\ j + 1 - 1 = j
    BY <1>1
  <2>7. SizeUpTo(j + 1) = Total(f, 0, j)
    BY <2>6, SizeIsTotal
  <2> QED BY <2>2, <2>3, <2>4, <2>5, <2>6, <2>7
<1>5. QueueOf' = [i \in 1 .. n - 1 |->
                    [k \in 1 .. g[i - 1] |-> msgData[frontFree + f[0] + Total(g, 0, i - 1 - 1) + k - 1]]]
  BY <1>2 DEF QueueOf, Load, Offset, SizeUpTo, Total, Cells
<1>6. /\ q \in Seq(Seq(Nat)) /\ Len(q) = n
      /\ \A i \in 1 .. n : q[i] = [k \in 1 .. f[i - 1] |-> msgData[frontFree + SizeUpTo(i - 1) + k - 1]]
  BY QueueIsSequence DEF Offset
<1> HIDE DEF q
<1>7. ASSUME NEW i \in 1 .. n - 1 PROVE QueueOf'[i] = q[i + 1]
  <2> DEFINE at == SizeUpTo(i)
             size == f[i]
  <2>1. i + 1 \in 1 .. n /\ i + 1 - 1 = i /\ i - 1 \in 0 .. n - 2 /\ i - 1 + 1 = i /\ i - 1 \in 0 .. n - 1
    BY <1>1
  <2>2. g[i - 1] = size
    BY <1>3, <2>1
  <2>3. at = f[0] + Total(g, 0, i - 1 - 1) /\ Total(g, 0, i - 1 - 1) \in Nat
    <3>1. SizeUpTo(i - 1 + 1) = f[0] + Total(g, 0, i - 1 - 1) /\ Total(g, 0, i - 1 - 1) \in Nat
      BY <1>4, <2>1
    <3> QED BY <2>1, <3>1
  <2>4. frontFree \in Nat /\ f[0] \in Nat
    BY <1>1, TotalBound, CapacityNat DEF Inv, TypeOK, Slots
  <2>5. QueueOf'[i] = [k \in 1 .. size |-> msgData[frontFree + f[0] + Total(g, 0, i - 1 - 1) + k - 1]]
    BY <1>5, <2>2
  <2>6. frontFree + f[0] + Total(g, 0, i - 1 - 1) = frontFree + at
    <3> HIDE DEF at
    <3> QED BY <2>3, <2>4
  <2>7. QueueOf'[i] = [k \in 1 .. size |-> msgData[frontFree + at + k - 1]]
    <3> HIDE DEF at, size
    <3> QED BY <2>5, <2>6
  <2>8. q[i + 1] = [k \in 1 .. size |-> msgData[frontFree + at + k - 1]]
    <3>1. PICK j \in 1 .. n : j = i + 1
      BY <2>1
    <3>2. q[j] = [k \in 1 .. f[j - 1] |-> msgData[frontFree + SizeUpTo(j - 1) + k - 1]]
      BY <1>6
    <3>3. j - 1 = i
      BY <2>1, <3>1
    <3> QED BY <3>1, <3>2, <3>3
  <2> QED BY <2>7, <2>8
<1>8. Tail(q) = [i \in 1 .. n - 1 |-> q[i + 1]]
  <2> DEFINE r == Tail(q)
  <2>1. r \in Seq(Seq(Nat)) /\ Len(r) = n - 1
    BY <1>1, <1>6
  <2>2. \A i \in 1 .. n - 1 : r[i] = q[i + 1]
    BY <1>1, <1>6
  <2> HIDE DEF r
  <2>3. r = [i \in 1 .. n - 1 |-> r[i]]
    BY <2>1
  <2>4. r = [i \in 1 .. n - 1 |-> q[i + 1]]
    BY <2>2, <2>3
  <2> QED BY <2>4 DEF r
<1>9. QueueOf' = [i \in 1 .. n - 1 |-> QueueOf'[i]]
  BY <1>5
<1> QED BY <1>7, <1>8, <1>9 DEF q

\* The head of the queue is what lies at frontFree.
LEMMA HeadOfQueue ==
  ASSUME Inv, curMsgNumber > 0
  PROVE  /\ QueueOf # <<>>
         /\ Head(QueueOf) = Load(frontFree, msgDataSize[0])
         /\ Len(Head(QueueOf)) = msgDataSize[0]
<1>1. curMsgNumber \in Nat /\ 1 \in 1 .. curMsgNumber /\ 1 - 1 = 0 /\ frontFree \in Nat
  BY TotalBound
<1>2. QueueOf \in Seq(Seq(Nat)) /\ Len(QueueOf) = curMsgNumber
  BY QueueIsSequence
<1>3. Len(QueueOf[1]) = msgDataSize[0]
  BY <1>1, QueueIsSequence
<1>4. QueueOf[1] = Load(frontFree, msgDataSize[0])
  <2>1. QueueOf[1] = Load(Offset(1 - 1), msgDataSize[1 - 1])
    BY <1>1 DEF QueueOf
  <2>2. Offset(0) = frontFree
    BY <1>1, EmptyPlace DEF Offset
  <2> QED BY <1>1, <2>1, <2>2
<1>5. QueueOf # <<>> /\ Head(QueueOf) = QueueOf[1]
  BY <1>1, <1>2
<1> QED BY <1>3, <1>4, <1>5

LEMMA PopMapped ==
  ASSUME CopyOrders = {"ascending"}, Inv, NEW bufSize \in BufSizes, PopFront(bufSize)
  PROVE  Fifo!Pop(bufSize)
<1>1. curMsgNumber \in Nat /\ bufSize \in Nat
  BY TotalBound, MessageQueueAssumption
<1>2. CASE curMsgNumber <= 0
  <2>1. QueueOf = <<>>
    BY <1>1, <1>2, QueueIsSequence
  <2>2. ret' = [op |-> "pop", ok |-> FALSE, written |-> 0, data |-> <<>>] /\ UNCHANGED shm
    BY <1>1, <1>2 DEF PopFront
  <2>3. UNCHANGED QueueOf
    BY <2>2, UnchangedMapped
  <2> QED BY <2>1, <2>2, <2>3 DEF Fifo!Pop
<1>3. CASE curMsgNumber > 0 /\ msgDataSize[0] > bufSize
  <2>1. ret' = [op |-> "pop", ok |-> FALSE, written |-> msgDataSize[0], data |-> <<>>] /\ UNCHANGED shm
    <3>1. ~(curMsgNumber <= 0) /\ msgDataSize[0] \in Nat /\ ~(msgDataSize[0] <= bufSize)
      BY <1>1, <1>3, CapacityNat, MessageQueueAssumption DEF Inv, TypeOK, Slots
    <3> QED BY <3>1 DEF PopFront
  <2>2. UNCHANGED QueueOf
    BY <2>1, UnchangedMapped
  <2>3. QueueOf # <<>> /\ Len(Head(QueueOf)) = msgDataSize[0]
    BY <1>3, HeadOfQueue
  <2> HIDE DEF QueueOf
  <2> QED BY <1>3, <2>1, <2>2, <2>3 DEF Fifo!Pop
<1>4. CASE curMsgNumber > 0 /\ ~(msgDataSize[0] > bufSize)
  <2>1. msgDataSize[0] \in Nat /\ msgDataSize[0] <= bufSize
    BY <1>1, <1>4, CapacityNat, MessageQueueAssumption DEF Inv, TypeOK, Slots
  <2>2. ret' = [op |-> "pop", ok |-> TRUE, written |-> msgDataSize[0],
                data |-> Load(frontFree, msgDataSize[0])]
    BY <1>1, <1>4, <2>1 DEF PopFront
  <2>3. QueueOf' = Tail(QueueOf)
    BY <1>4, <2>1, PopQueue
  <2>4. /\ QueueOf # <<>> /\ Len(Head(QueueOf)) = msgDataSize[0]
        /\ Head(QueueOf) = Load(frontFree, msgDataSize[0])
    BY <1>4, HeadOfQueue
  <2> QED BY <2>1, <2>2, <2>3, <2>4 DEF Fifo!Pop
<1> QED BY <1>1, <1>2, <1>3, <1>4

LEMMA NextMapped ==
  ASSUME CopyOrders = {"ascending"}
  PROVE  Inv /\ [Next]_vars => [Fifo!Next]_(Fifo!vars)
<1> SUFFICES ASSUME Inv, [Next]_vars PROVE [Fifo!Next]_(Fifo!vars)
  OBVIOUS
<1>1. ASSUME NEW m \in Messages, PushBack(m) PROVE Fifo!Next
  BY <1>1, PushMapped DEF Fifo!Next
<1>2. ASSUME NEW m \in Messages, CheckSpaceSufficient(Len(m)) PROVE Fifo!Next
  <2>1. Fifo!Fits(Len(m)) = SpaceSufficient(Len(m))
    <3>1. Fifo!Fits(Len(m)) <=> SpaceSufficient(Len(m))
      BY MessageSize, FitsIsSpace
    <3> QED BY <3>1 DEF Fifo!Fits, SpaceSufficient
  <2>2. Fifo!CheckSpace(Len(m))
    BY <1>2, <2>1, UnchangedMapped DEF CheckSpaceSufficient, Fifo!CheckSpace
  <2> QED BY <2>2 DEF Fifo!Next
<1>3. ASSUME NEW n \in BufSizes, PopFront(n) PROVE Fifo!Next
  BY <1>3, PopMapped DEF Fifo!Next
<1>4. ASSUME MsgNumber PROVE Fifo!Next
  <2>1. Fifo!Count
    BY <1>4, UnchangedMapped, QueueIsSequence DEF MsgNumber, Fifo!Count
  <2> QED BY <2>1 DEF Fifo!Next
<1>5. CASE UNCHANGED vars
  <2>1. UNCHANGED shm /\ UNCHANGED ret
    BY <1>5 DEF vars, shm
  <2> QED BY <2>1, UnchangedMapped DEF Fifo!vars
<1> QED BY <1>1, <1>2, <1>3, <1>4, <1>5 DEF Next

\* Whatever the sequence of pushes, pops and moves, readers get the bytes that
\* were pushed, in order, and every call returns what the queue would.
THEOREM MessageQueueImplementsFifo ==
  ASSUME CopyOrders = {"ascending"}
  PROVE  Spec => ImplementsFifo
<1>1. Inv /\ [Next]_vars => [Fifo!Next]_(Fifo!vars)
  BY NextMapped
<1> QED BY <1>1, InitMapped, InvHolds, PTL DEF Spec, ImplementsFifo, Fifo!Spec
=============================================================================
