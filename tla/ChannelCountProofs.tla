------------------------- MODULE ChannelCountProofs -------------------------
(***************************************************************************)
(* Proofs about the counts of readSmp in Channel, for any number of        *)
(* senders, dispatchers and messages: each count stands for a message      *)
(* until uninit begins, and then there are enough of them for all the      *)
(* dispatchers.                                                            *)
(***************************************************************************)
EXTENDS ChannelProofs

-----------------------------------------------------------------------------
(* How many threads are at certain places. *)

\* One thread moves: the number of threads of a group at certain places.
LEMMA OneMoves ==
  ASSUME NEW G, IsFiniteSet(G), NEW L, TypeOK, NEW t \in Threads, NEW l, Goto(t, l), G \subseteq Threads
  PROVE  /\ Cardinality({u \in G : pc[u] \in L}) \in Nat
         /\ Cardinality({u \in G : pc'[u] \in L}) =
              Cardinality({u \in G : pc[u] \in L})
                + (IF t \in G /\ l \in L THEN 1 ELSE 0)
                - (IF t \in G /\ pc[t] \in L THEN 1 ELSE 0)
<1> DEFINE S == {u \in G : pc[u] \in L}
           T == {u \in G : pc'[u] \in L}
<1>1. IsFiniteSet(S) /\ Cardinality(S) \in Nat
  BY FS_Subset, FS_CardinalityType
<1>2. \A u \in G : pc'[u] = IF u = t THEN l ELSE pc[u]
  BY DEF TypeOK, Goto
<1>3. t \in G /\ l \in L /\ pc[t] \notin L => t \notin S /\ T = S \cup {t}
  BY <1>2
<1>4. t \in G /\ l \notin L /\ pc[t] \in L => t \in S /\ T = S \ {t}
  BY <1>2
<1>5. (t \in G => (l \in L <=> pc[t] \in L)) => T = S
  BY <1>2
<1> HIDE DEF S, T
<1>6. /\ Cardinality(S) \in Nat
      /\ Cardinality(T) = Cardinality(S) + (IF t \in G /\ l \in L THEN 1 ELSE 0)
                                         - (IF t \in G /\ pc[t] \in L THEN 1 ELSE 0)
  <2>1. CASE t \in G /\ l \in L /\ pc[t] \notin L
    BY <1>1, <1>3, <2>1, FS_AddElement
  <2>2. CASE t \in G /\ l \notin L /\ pc[t] \in L
    BY <1>1, <1>4, <2>2, FS_RemoveElement
  <2>3. CASE t \in G => (l \in L <=> pc[t] \in L)
    BY <1>1, <1>5, <2>3
  <2> QED BY <2>1, <2>2, <2>3
<1> QED BY <1>6 DEF S, T

BearerPcs == {"stopcheck", "lock", "pop"}
Waiting   == {d \in Dispatchers : pc[d] = "wait"}

LEMMA Counts ==
  ASSUME TypeOK, NEW t \in Threads, NEW l, Goto(t, l)
  PROVE  /\ Cardinality(Bearers) \in Nat /\ Cardinality(Bearers') \in Nat
         /\ Cardinality(Notifying) \in Nat /\ Cardinality(Notifying') \in Nat
         /\ Cardinality(Waiting) \in Nat /\ Cardinality(Waiting') \in Nat
         /\ Cardinality(Bearers') = Cardinality(Bearers)
              + (IF t \in Dispatchers /\ l \in BearerPcs THEN 1 ELSE 0)
              - (IF t \in Dispatchers /\ pc[t] \in BearerPcs THEN 1 ELSE 0)
         /\ Cardinality(Notifying') = Cardinality(Notifying)
              + (IF t \in Senders /\ l \in {"notify"} THEN 1 ELSE 0)
              - (IF t \in Senders /\ pc[t] \in {"notify"} THEN 1 ELSE 0)
         /\ Cardinality(Waiting') = Cardinality(Waiting)
              + (IF t \in Dispatchers /\ l \in {"wait"} THEN 1 ELSE 0)
              - (IF t \in Dispatchers /\ pc[t] \in {"wait"} THEN 1 ELSE 0)
<1>1. /\ IsFiniteSet(Senders) /\ Senders \subseteq Threads
      /\ IsFiniteSet(Dispatchers) /\ Dispatchers \subseteq Threads
  BY ChannelAssumption DEF Threads
<1>2. /\ Bearers = {u \in Dispatchers : pc[u] \in BearerPcs}
      /\ Bearers' = {u \in Dispatchers : pc'[u] \in BearerPcs}
  BY DEF Bearers, BearerPcs
<1>3. /\ Notifying = {u \in Senders : pc[u] \in {"notify"}}
      /\ Notifying' = {u \in Senders : pc'[u] \in {"notify"}}
  BY DEF Notifying
<1>4. /\ Waiting = {u \in Dispatchers : pc[u] \in {"wait"}}
      /\ Waiting' = {u \in Dispatchers : pc'[u] \in {"wait"}}
  BY DEF Waiting
<1>5. /\ IsFiniteSet(Bearers') /\ IsFiniteSet(Notifying') /\ IsFiniteSet(Waiting')
  BY <1>1, FS_Subset DEF Bearers, Notifying, Waiting
<1>6. /\ Cardinality(Bearers') \in Nat /\ Cardinality(Notifying') \in Nat
      /\ Cardinality(Waiting') \in Nat
  BY <1>5, FS_CardinalityType
<1>7. /\ Cardinality(Bearers) \in Nat
      /\ Cardinality(Bearers') = Cardinality(Bearers)
              + (IF t \in Dispatchers /\ l \in BearerPcs THEN 1 ELSE 0)
              - (IF t \in Dispatchers /\ pc[t] \in BearerPcs THEN 1 ELSE 0)
  BY <1>1, <1>2, OneMoves
<1>8. /\ Cardinality(Notifying) \in Nat
      /\ Cardinality(Notifying') = Cardinality(Notifying)
              + (IF t \in Senders /\ l \in {"notify"} THEN 1 ELSE 0)
              - (IF t \in Senders /\ pc[t] \in {"notify"} THEN 1 ELSE 0)
  BY <1>1, <1>3, OneMoves
<1>9. /\ Cardinality(Waiting) \in Nat
      /\ Cardinality(Waiting') = Cardinality(Waiting)
              + (IF t \in Dispatchers /\ l \in {"wait"} THEN 1 ELSE 0)
              - (IF t \in Dispatchers /\ pc[t] \in {"wait"} THEN 1 ELSE 0)
  BY <1>1, <1>4, OneMoves
<1> QED BY <1>6, <1>7, <1>8, <1>9

-----------------------------------------------------------------------------
(* Until uninit begins. *)

Debt == readSmp + Cardinality(Bearers) + Cardinality(Notifying)

\* How far the messages exceed the counts that stand for them: no step of a
\* running owner makes this less, and none changes it at all when the waits
\* for the lock and the allocations succeed.
DebtKept ==
    \/ Debt' - Len(queue') = Debt - Len(queue)
    \/ (LockTimeouts \/ AllocFailures) /\ Debt' - Len(queue') < Debt - Len(queue)

LEMMA SenderMoves ==
  ASSUME TypeInv, NEW s \in Senders, NEW l, Goto(s, l)
  PROVE  /\ readSmp \in Nat /\ Len(queue) \in Nat
         /\ Cardinality(Bearers) \in Nat
         /\ Cardinality(Notifying) \in Nat /\ Cardinality(Notifying') \in Nat
         /\ Cardinality(Bearers') = Cardinality(Bearers)
         /\ Cardinality(Notifying') = Cardinality(Notifying)
              + (IF l = "notify" THEN 1 ELSE 0) - (IF pc[s] = "notify" THEN 1 ELSE 0)
<1>1. s \in Threads /\ s \notin Dispatchers /\ TypeOK /\ readSmp \in Nat /\ Len(queue) \in Nat
  BY ChannelAssumption DEF Threads, TypeInv, TypeOK
<1>2. /\ Cardinality(Bearers) \in Nat /\ Cardinality(Bearers') \in Nat
      /\ Cardinality(Notifying) \in Nat /\ Cardinality(Notifying') \in Nat
      /\ Cardinality(Bearers') = Cardinality(Bearers)
           + (IF s \in Dispatchers /\ l \in BearerPcs THEN 1 ELSE 0)
           - (IF s \in Dispatchers /\ pc[s] \in BearerPcs THEN 1 ELSE 0)
      /\ Cardinality(Notifying') = Cardinality(Notifying)
           + (IF s \in Senders /\ l \in {"notify"} THEN 1 ELSE 0)
           - (IF s \in Senders /\ pc[s] \in {"notify"} THEN 1 ELSE 0)
  BY ONLY <1>1, Counts, Goto(s, l)
<1> QED BY <1>1, <1>2

LEMMA DispatcherMoves ==
  ASSUME TypeInv, NEW d \in Dispatchers, NEW l, Goto(d, l)
  PROVE  /\ readSmp \in Nat /\ Len(queue) \in Nat
         /\ Cardinality(Bearers) \in Nat /\ Cardinality(Bearers') \in Nat
         /\ Cardinality(Notifying) \in Nat
         /\ Cardinality(Notifying') = Cardinality(Notifying)
         /\ Cardinality(Bearers') = Cardinality(Bearers)
              + (IF l \in BearerPcs THEN 1 ELSE 0) - (IF pc[d] \in BearerPcs THEN 1 ELSE 0)
<1>1. d \in Threads /\ d \notin Senders /\ TypeOK /\ readSmp \in Nat /\ Len(queue) \in Nat
  BY ChannelAssumption DEF Threads, TypeInv, TypeOK
<1>2. /\ Cardinality(Bearers) \in Nat /\ Cardinality(Bearers') \in Nat
      /\ Cardinality(Notifying) \in Nat /\ Cardinality(Notifying') \in Nat
      /\ Cardinality(Bearers') = Cardinality(Bearers)
           + (IF d \in Dispatchers /\ l \in BearerPcs THEN 1 ELSE 0)
           - (IF d \in Dispatchers /\ pc[d] \in BearerPcs THEN 1 ELSE 0)
      /\ Cardinality(Notifying') = Cardinality(Notifying)
           + (IF d \in Senders /\ l \in {"notify"} THEN 1 ELSE 0)
           - (IF d \in Senders /\ pc[d] \in {"notify"} THEN 1 ELSE 0)
  BY ONLY <1>1, Counts, Goto(d, l)
<1> QED BY <1>1, <1>2

\* A move that touches neither readSmp nor the queue, from one place to another
\* that counts the same.
LEMMA SenderElsewhere ==
  ASSUME TypeInv, NEW s \in Senders, NEW l, Goto(s, l), UNCHANGED <<queue, readSmp>>,
         l # "notify", pc[s] # "notify"
  PROVE  DebtKept
  BY SenderMoves DEF DebtKept, Debt

LEMMA DispatcherElsewhere ==
  ASSUME TypeInv, NEW d \in Dispatchers, NEW l, Goto(d, l), UNCHANGED <<queue, readSmp>>,
         l \in BearerPcs <=> pc[d] \in BearerPcs
  PROVE  DebtKept
  BY DispatcherMoves DEF DebtKept, Debt

\* A dispatcher that goes back to the loop with nothing: its count is lost.
LEMMA DispatcherLosesCount ==
  ASSUME TypeInv, NEW d \in Dispatchers, NEW l, Goto(d, l), UNCHANGED <<queue, readSmp>>,
         l \notin BearerPcs, pc[d] \in BearerPcs, LockTimeouts \/ AllocFailures
  PROVE  DebtKept
  BY DispatcherMoves DEF DebtKept, Debt

LEMMA SenderDebt ==
  ASSUME TypeInv, NEW s \in Senders, SenderStep(s)
  PROVE  DebtKept
<1>1. ASSUME NEW m \in Messages, TakeUp(s, m) PROVE DebtKept
  BY <1>1, SenderElsewhere DEF TakeUp
<1>2. CASE SenderLock(s)
  BY <1>2, SenderElsewhere DEF SenderLock, Acquire
<1>3. CASE SenderLockTimeout(s)
  BY <1>3, SenderElsewhere DEF SenderLockTimeout
<1>4. CASE SenderLockTimeoutThrows(s)
  BY <1>4, SenderElsewhere DEF SenderLockTimeoutThrows, Release
<1>5. CASE SpaceFound(s)
  BY <1>5, SenderElsewhere DEF SpaceFound
<1>6. CASE NoSpace(s)
  BY <1>6, SenderElsewhere DEF NoSpace
<1>7. CASE Push(s)
  <2>1. CASE Room(s)
    <3>1. Len(queue') = Len(queue) + 1
      BY <1>7, <2>1 DEF Push, TypeInv, TypeOK, InHand
    <3>2. Goto(s, "notify") /\ pc[s] = "push" /\ readSmp' = readSmp
      BY <1>7, <2>1 DEF Push
    <3> QED BY <3>1, <3>2, SenderMoves DEF DebtKept, Debt
  <2>2. CASE ~Room(s)
    <3>1. Goto(s, "unlock") /\ pc[s] = "push" /\ readSmp' = readSmp /\ queue' = queue
      BY <1>7, <2>2 DEF Push
    <3> QED BY <3>1, SenderElsewhere
  <2> QED BY <2>1, <2>2
<1>8. CASE Notify(s)
  <2>1. Goto(s, "unlock") /\ pc[s] = "notify" /\ readSmp' = readSmp + 1 /\ queue' = queue
    BY <1>8 DEF Notify
  <2>2. /\ Cardinality(Bearers) \in Nat /\ Cardinality(Bearers') = Cardinality(Bearers)
        /\ Cardinality(Notifying) \in Nat /\ Cardinality(Notifying') = Cardinality(Notifying) - 1
        /\ readSmp \in Nat /\ Len(queue) \in Nat
    BY <2>1, SenderMoves
  <2> QED BY <2>1, <2>2 DEF DebtKept, Debt
<1>9. CASE SenderUnlock(s)
  BY <1>9, SenderElsewhere DEF SenderUnlock, Release
<1>10. CASE Report(s)
  BY <1>10, SenderElsewhere DEF Report
<1> QED BY <1>1, <1>2, <1>3, <1>4, <1>5, <1>6, <1>7, <1>8, <1>9, <1>10 DEF SenderStep

LEMMA DispatcherDebt ==
  ASSUME TypeInv, TokensCovered, ~stop, NEW d \in Dispatchers, DispatcherStep(d)
  PROVE  DebtKept
<1>1. CASE WaitForRead(d)
  <2>1. Goto(d, "stopcheck") /\ pc[d] = "wait" /\ readSmp' = readSmp - 1 /\ queue' = queue
    BY <1>1 DEF WaitForRead
  <2>2. /\ Cardinality(Bearers) \in Nat /\ Cardinality(Bearers') = Cardinality(Bearers) + 1
        /\ Cardinality(Notifying) \in Nat /\ Cardinality(Notifying') = Cardinality(Notifying)
        /\ readSmp \in Nat /\ Len(queue) \in Nat
    BY <2>1, DispatcherMoves DEF BearerPcs
  <2> QED BY <2>1, <2>2 DEF DebtKept, Debt
<1>2. CASE CheckStop(d)
  <2>1. Goto(d, "lock") /\ pc[d] = "stopcheck" /\ UNCHANGED <<queue, readSmp>>
    BY <1>2 DEF CheckStop
  <2> QED BY <2>1, DispatcherElsewhere DEF BearerPcs
<1>3. CASE DispatcherLock(d)
  <2>1. Goto(d, "pop") /\ pc[d] = "lock" /\ UNCHANGED <<queue, readSmp>>
    BY <1>3 DEF DispatcherLock, Acquire
  <2> QED BY <2>1, DispatcherElsewhere DEF BearerPcs
<1>4. CASE DispatcherLockTimeout(d)
  <2>1. Goto(d, "loop") /\ pc[d] = "lock" /\ LockTimeouts /\ UNCHANGED <<queue, readSmp>>
    BY <1>4 DEF DispatcherLockTimeout
  <2> QED BY <2>1, DispatcherLosesCount DEF BearerPcs
<1>5. CASE Pop(d)
  <2>1. Goto(d, "unlock") /\ pc[d] = "pop" /\ readSmp' = readSmp
    BY <1>5 DEF Pop
  <2>2. /\ Cardinality(Bearers) \in Nat /\ Cardinality(Bearers') \in Nat
        /\ Cardinality(Bearers') = Cardinality(Bearers) - 1
        /\ Cardinality(Notifying) \in Nat /\ readSmp \in Nat /\ Len(queue) \in Nat
        /\ Cardinality(Notifying') = Cardinality(Notifying)
    BY <2>1, DispatcherMoves DEF BearerPcs
  <2>3. Len(queue) > 0
    BY <2>2 DEF TokensCovered
  <2>4. Len(queue') = Len(queue) - 1
    BY <1>5, <2>3 DEF Pop, TypeInv, TypeOK
  <2> QED BY <2>1, <2>2, <2>4 DEF DebtKept, Debt
<1>6. CASE PopThrows(d)
  <2>1. Goto(d, "unlock") /\ pc[d] = "pop" /\ AllocFailures /\ UNCHANGED <<queue, readSmp>>
    BY <1>6 DEF PopThrows
  <2> QED BY <2>1, DispatcherLosesCount DEF BearerPcs
<1>7. CASE DispatcherUnlock(d)
  BY <1>7, DispatcherElsewhere DEF DispatcherUnlock, Release, BearerPcs
<1>8. CASE Handle(d)
  BY <1>8, DispatcherElsewhere DEF Handle, BearerPcs
<1>9. CASE Loop(d)
  BY <1>9, DispatcherElsewhere DEF Loop, BearerPcs
<1> QED BY <1>1, <1>2, <1>3, <1>4, <1>5, <1>6, <1>7, <1>8, <1>9 DEF DispatcherStep

\* What the owner is doing and stop_ go together; the owner posts nothing before
\* it has set it, and joins nobody before it has posted everything.
OwnerInv ==
    /\ stop <=> owner # "running"
    /\ ~stop => notified = 0
    /\ owner \in {"joining", "closed"} => notified = Cardinality(Dispatchers)

LEMMA OwnerInvHolds == Spec => []OwnerInv
<1>1. Init => OwnerInv
  BY DEF Init, OwnerInv
<1>2. OwnerInv /\ [Next]_vars => OwnerInv'
  <2> SUFFICES ASSUME OwnerInv, [Next]_vars PROVE OwnerInv'
    OBVIOUS
  <2>1. CASE Stop \/ OwnerStep
    BY <2>1 DEF OwnerInv, Stop, OwnerStep, PostOne, AllPosted, JoinAll
  <2>2. ASSUME NEW s \in Senders, SenderStep(s) \/ Crash(s) PROVE UNCHANGED <<stop, owner, notified>>
    BY <2>2 DEF SenderStep, Crash, TakeUp, SenderLock, SenderLockTimeout, SenderLockTimeoutThrows,
                SpaceFound, NoSpace, Push, Notify, SenderUnlock, Report
  <2>3. ASSUME NEW d \in Dispatchers, DispatcherStep(d) PROVE UNCHANGED <<stop, owner, notified>>
    BY <2>3 DEF DispatcherStep, WaitForRead, CheckStop, DispatcherLock, DispatcherLockTimeout,
                Pop, PopThrows, DispatcherUnlock, Handle, Loop
  <2> QED BY <2>1, <2>2, <2>3 DEF Next, vars, OwnerInv
<1> QED BY <1>1, <1>2, PTL DEF Spec

LEMMA NextDebt ==
  ASSUME TypeInv, OwnerInv, TokensCovered, [Next]_vars, ~stop'
  PROVE  ~stop /\ (DebtKept \/ UNCHANGED <<Debt, queue>>)
<1>1. ASSUME UNCHANGED <<readSmp, pc, queue>> PROVE UNCHANGED <<Debt, queue>>
  BY <1>1 DEF Debt, Bearers, Notifying
<1>2. CASE Stop \/ OwnerStep
  BY <1>2 DEF OwnerInv, Stop, OwnerStep, PostOne, AllPosted, JoinAll
<1>3. ASSUME NEW s \in Senders, SenderStep(s) \/ Crash(s)
      PROVE  ~stop /\ (DebtKept \/ UNCHANGED <<Debt, queue>>)
  <2>1. stop' = stop
    BY <1>3 DEF SenderStep, Crash, TakeUp, SenderLock, SenderLockTimeout, SenderLockTimeoutThrows,
                SpaceFound, NoSpace, Push, Notify, SenderUnlock, Report
  <2>2. Crash(s) => UNCHANGED <<Debt, queue>>
    BY <1>1 DEF Crash
  <2> QED BY <1>3, <2>1, <2>2, SenderDebt
<1>4. ASSUME NEW d \in Dispatchers, DispatcherStep(d)
      PROVE  ~stop /\ (DebtKept \/ UNCHANGED <<Debt, queue>>)
  <2>1. stop' = stop
    BY <1>4 DEF DispatcherStep, WaitForRead, CheckStop, DispatcherLock, DispatcherLockTimeout,
                Pop, PopThrows, DispatcherUnlock, Handle, Loop
  <2> QED BY <1>4, <2>1, DispatcherDebt
<1>5. CASE UNCHANGED vars
  BY <1>1, <1>5 DEF vars
<1> QED BY <1>2, <1>3, <1>4, <1>5 DEF Next

Numbers == Debt \in Nat /\ Len(queue) \in Nat

LEMMA DebtIsNumber == TypeInv => Numbers
<1> SUFFICES ASSUME TypeInv PROVE Numbers
  OBVIOUS
<1>1. IsFiniteSet(Bearers) /\ IsFiniteSet(Notifying)
  BY FS_Subset, ChannelAssumption DEF Bearers, Notifying
<1>2. Cardinality(Bearers) \in Nat /\ Cardinality(Notifying) \in Nat
  BY <1>1, FS_CardinalityType
<1> QED BY <1>2 DEF Numbers, Debt, TypeInv, TypeOK

LEMMA InitDebt == Init => Debt = Len(queue)
<1> SUFFICES ASSUME Init PROVE Debt = Len(queue)
  OBVIOUS
<1>1. Bearers = {} /\ Notifying = {}
  BY ChannelAssumption DEF Init, Bearers, Notifying, Threads
<1> QED BY <1>1, FS_EmptySet DEF Init, Debt

\* As long as the owner runs, no count of readSmp, and no thread that took one,
\* is without a message of its own in the queue, whatever times out, fails or
\* dies: no dispatcher ever reads an empty queue.
THEOREM CountsAreCovered == Spec => []TokensCovered
<1>1. Init => TokensCovered
  BY InitDebt, InitTypeInv, DebtIsNumber DEF TokensCovered, Debt, Numbers
<1>2. TypeInv /\ OwnerInv /\ Numbers /\ Numbers' /\ TokensCovered /\ [Next]_vars => TokensCovered'
  <2> SUFFICES ASSUME TypeInv, OwnerInv, Numbers, Numbers', TokensCovered, [Next]_vars, ~stop'
               PROVE  Debt' <= Len(queue')
    BY DEF TokensCovered, Debt
  <2>1. ~stop /\ (DebtKept \/ UNCHANGED <<Debt, queue>>)
    BY NextDebt
  <2>2. Debt <= Len(queue)
    BY <2>1 DEF TokensCovered, Debt
  <2> QED BY <2>1, <2>2 DEF DebtKept, Numbers
<1> QED BY <1>1, <1>2, DebtIsNumber, TypeInvHolds, OwnerInvHolds, PTL DEF Spec

\* And when lock waits and allocations succeed, none is without its count: every
\* message in the queue wakes up a dispatcher of its own.
THEOREM NoCountIsLost ==
  ASSUME LockTimeouts = FALSE, AllocFailures = FALSE
  PROVE  Spec => []NoTokenLost
<1>1. Init => NoTokenLost
  BY InitDebt DEF NoTokenLost, Debt
<1>2. TypeInv /\ OwnerInv /\ Numbers /\ Numbers' /\ TokensCovered /\ NoTokenLost
        /\ [Next]_vars => NoTokenLost'
  <2> SUFFICES ASSUME TypeInv, OwnerInv, Numbers, Numbers', TokensCovered, NoTokenLost,
                      [Next]_vars, ~stop'
               PROVE  Debt' = Len(queue')
    BY DEF NoTokenLost, Debt
  <2>1. ~stop /\ (DebtKept \/ UNCHANGED <<Debt, queue>>)
    BY NextDebt
  <2>2. Debt = Len(queue)
    BY <2>1 DEF NoTokenLost, Debt
  <2> QED BY <2>1, <2>2 DEF DebtKept, Numbers
<1> QED BY <1>1, <1>2, DebtIsNumber, TypeInvHolds, OwnerInvHolds, CountsAreCovered, PTL DEF Spec

-----------------------------------------------------------------------------
(* While uninit is under way. *)

\* The wake-ups that are there or still to be posted.
Wakeups == readSmp + (Cardinality(Dispatchers) - notified)

EnoughWakeups == stop => Cardinality(Waiting) <= Wakeups

WakeupsKept ==
    Cardinality(Waiting') - Wakeups' <= Cardinality(Waiting) - Wakeups

LEMMA WaitingMoves ==
  ASSUME TypeInv, NEW t \in Threads, NEW l, Goto(t, l)
  PROVE  /\ readSmp \in Nat
         /\ Cardinality(Waiting) \in Nat
         /\ Cardinality(Waiting') = Cardinality(Waiting)
              + (IF t \in Dispatchers /\ l = "wait" THEN 1 ELSE 0)
              - (IF t \in Dispatchers /\ pc[t] = "wait" THEN 1 ELSE 0)
<1>1. TypeOK /\ readSmp \in Nat
  BY DEF TypeInv, TypeOK
<1>2. /\ Cardinality(Waiting) \in Nat
      /\ Cardinality(Waiting') = Cardinality(Waiting)
           + (IF t \in Dispatchers /\ l \in {"wait"} THEN 1 ELSE 0)
           - (IF t \in Dispatchers /\ pc[t] \in {"wait"} THEN 1 ELSE 0)
  BY ONLY <1>1, Counts, Goto(t, l), t \in Threads
<1> QED BY <1>1, <1>2

\* A step of a thread that does not go to wait, and takes a count of readSmp
\* only when it has waited for one.
LEMMA MovesKeepWakeups ==
  ASSUME TypeInv, NEW t \in Threads, NEW l, Goto(t, l), notified' = notified,
         t \in Dispatchers => l # "wait",
         readSmp' \in Nat,
         \/ readSmp' >= readSmp
         \/ t \in Dispatchers /\ pc[t] = "wait" /\ readSmp' = readSmp - 1
  PROVE  WakeupsKept
<1>1. notified \in Nat
  BY PoolSize DEF TypeInv, TypeOK
<1> QED BY <1>1, WaitingMoves, PoolSize DEF WakeupsKept, Wakeups

LEMMA DispatcherWakeups ==
  ASSUME TypeInv, TypeInv', stop, NEW d \in Dispatchers, DispatcherStep(d)
  PROVE  WakeupsKept
<1>0. d \in Threads /\ readSmp \in Nat /\ readSmp' \in Nat
  BY DEF Threads, TypeInv, TypeOK
<1>1. CASE WaitForRead(d)
  <2>1. Goto(d, "stopcheck") /\ pc[d] = "wait" /\ readSmp' = readSmp - 1 /\ notified' = notified
    BY <1>1 DEF WaitForRead
  <2> QED BY <1>0, <2>1, MovesKeepWakeups
<1>2. ASSUME NEW l, Goto(d, l), l # "wait", UNCHANGED <<readSmp, notified>> PROVE WakeupsKept
  BY <1>0, <1>2, MovesKeepWakeups
<1>3. CASE CheckStop(d)
  BY <1>2, <1>3 DEF CheckStop
<1>4. CASE DispatcherLock(d)
  BY <1>2, <1>4 DEF DispatcherLock, Acquire
<1>5. CASE DispatcherLockTimeout(d)
  BY <1>2, <1>5 DEF DispatcherLockTimeout
<1>6. CASE Pop(d)
  BY <1>2, <1>6 DEF Pop
<1>7. CASE PopThrows(d)
  BY <1>2, <1>7 DEF PopThrows
<1>8. CASE DispatcherUnlock(d)
  BY <1>2, <1>8 DEF DispatcherUnlock, Release
<1>9. CASE Handle(d)
  BY <1>2, <1>9 DEF Handle
<1>10. CASE Loop(d)
  BY <1>2, <1>10 DEF Loop
<1> QED BY <1>1, <1>3, <1>4, <1>5, <1>6, <1>7, <1>8, <1>9, <1>10 DEF DispatcherStep

LEMMA SenderWakeups ==
  ASSUME TypeInv, TypeInv', NEW s \in Senders, SenderStep(s)
  PROVE  WakeupsKept
<1>1. s \in Threads /\ s \notin Dispatchers /\ readSmp \in Nat /\ readSmp' \in Nat
  BY ChannelAssumption DEF Threads, TypeInv, TypeOK
<1>2. notified' = notified /\ readSmp' >= readSmp
  BY <1>1 DEF SenderStep, TakeUp, SenderLock, SenderLockTimeout, SenderLockTimeoutThrows,
              SpaceFound, NoSpace, Push, Notify, SenderUnlock, Report
<1>3. \E l : Goto(s, l)
  BY DEF SenderStep, TakeUp, SenderLock, SenderLockTimeout, SenderLockTimeoutThrows,
         SpaceFound, NoSpace, Push, Notify, SenderUnlock, Report, Acquire, Release
<1>4. PICK l : Goto(s, l)
  BY <1>3
<1> QED BY <1>1, <1>2, <1>4, MovesKeepWakeups

LEMMA NextWakeups ==
  ASSUME TypeInv, TypeInv', OwnerInv, EnoughWakeups, [Next]_vars
  PROVE  EnoughWakeups'
<1>0. /\ IsFiniteSet(Waiting) /\ Cardinality(Waiting) \in Nat
      /\ Cardinality(Waiting) <= Cardinality(Dispatchers)
      /\ readSmp \in Nat /\ notified \in Nat /\ readSmp' \in Nat /\ notified' \in Nat
  <2>1. IsFiniteSet(Waiting) /\ Cardinality(Waiting) <= Cardinality(Dispatchers)
    BY FS_Subset, ChannelAssumption DEF Waiting
  <2> QED BY <2>1, FS_CardinalityType, PoolSize DEF TypeInv, TypeOK
<1>1. stop => Cardinality(Waiting) <= Wakeups
  BY DEF EnoughWakeups, Waiting, Wakeups
<1>2. SUFFICES ASSUME stop' PROVE Cardinality(Waiting') <= Wakeups'
  BY DEF EnoughWakeups, Waiting, Wakeups
<1>3. ASSUME UNCHANGED <<stop, pc, readSmp, notified>> PROVE Cardinality(Waiting') <= Wakeups'
  BY <1>1, <1>2, <1>3 DEF Waiting, Wakeups
<1>4. CASE Stop
  <2>1. Waiting' = Waiting /\ readSmp' = readSmp /\ notified' = 0
    BY <1>4 DEF Stop, Waiting, OwnerInv
  <2> QED BY <1>0, <2>1, PoolSize DEF Wakeups
<1>5. CASE PostOne
  <2>1. /\ stop /\ Waiting' = Waiting
        /\ readSmp' = readSmp + 1 /\ notified' = notified + 1
    BY <1>2, <1>5 DEF PostOne, Waiting
  <2> QED BY <1>0, <1>1, <2>1, PoolSize DEF Wakeups
<1>6. CASE AllPosted \/ JoinAll
  BY <1>3, <1>6 DEF AllPosted, JoinAll
<1>7. ASSUME stop, WakeupsKept, Cardinality(Waiting') \in Nat
      PROVE  Cardinality(Waiting') <= Wakeups'
  <2>1. Wakeups \in Int /\ Wakeups' \in Int
    BY <1>0, PoolSize DEF Wakeups
  <2> QED BY <1>0, <1>1, <1>7, <2>1 DEF WakeupsKept
<1>8. Cardinality(Waiting') \in Nat
  <2>1. IsFiniteSet(Waiting')
    BY FS_Subset, ChannelAssumption DEF Waiting
  <2> QED BY <2>1, FS_CardinalityType
<1>9. ASSUME NEW s \in Senders, SenderStep(s) PROVE Cardinality(Waiting') <= Wakeups'
  <2>1. stop' = stop
    BY <1>9 DEF SenderStep, TakeUp, SenderLock, SenderLockTimeout, SenderLockTimeoutThrows,
                SpaceFound, NoSpace, Push, Notify, SenderUnlock, Report
  <2> QED BY <1>2, <1>7, <1>8, <1>9, <2>1, SenderWakeups
<1>10. ASSUME NEW s \in Senders, Crash(s) PROVE Cardinality(Waiting') <= Wakeups'
  BY <1>3, <1>10 DEF Crash
<1>11. ASSUME NEW d \in Dispatchers, DispatcherStep(d) PROVE Cardinality(Waiting') <= Wakeups'
  <2>1. stop' = stop
    BY <1>11 DEF DispatcherStep, WaitForRead, CheckStop, DispatcherLock, DispatcherLockTimeout,
                Pop, PopThrows, DispatcherUnlock, Handle, Loop
  <2> QED BY <1>2, <1>7, <1>8, <1>11, <2>1, DispatcherWakeups
<1>12. CASE UNCHANGED vars
  BY <1>3, <1>12 DEF vars
<1> QED BY <1>4, <1>5, <1>6, <1>9, <1>10, <1>11, <1>12 DEF Next, OwnerStep

\* From the moment stop_ is set there are enough wake-ups, posted or to come,
\* for every dispatcher that waits: uninit's join cannot block on readSmp.
THEOREM WakeupsAreEnough == Spec => []WakeupsSuffice
<1>1. Init => EnoughWakeups
  BY DEF Init, EnoughWakeups
<1>2. TypeInv /\ TypeInv' /\ OwnerInv /\ EnoughWakeups /\ [Next]_vars => EnoughWakeups'
  BY NextWakeups
<1>3. TypeInv /\ OwnerInv /\ EnoughWakeups => WakeupsSuffice
  <2> SUFFICES ASSUME TypeInv, OwnerInv, EnoughWakeups, stop
               PROVE  Cardinality(Waiting) <= readSmp + ToPost
    BY DEF WakeupsSuffice, Waiting
  <2>1. Cardinality(Waiting) <= Wakeups
    BY DEF EnoughWakeups
  <2>2. readSmp \in Nat /\ notified \in Nat
    BY PoolSize DEF TypeInv, TypeOK
  <2>3. CASE owner = "posting"
    BY <2>1, <2>3 DEF Wakeups, ToPost
  <2>4. CASE owner # "posting"
    <3>1. notified = Cardinality(Dispatchers)
      BY <2>4 DEF OwnerInv, TypeInv, TypeOK
    <3> QED BY <2>1, <2>2, <2>4, <3>1, PoolSize DEF Wakeups, ToPost
  <2> QED BY <2>3, <2>4
<1> QED BY <1>1, <1>2, <1>3, TypeInvHolds, OwnerInvHolds, PTL DEF Spec
=============================================================================
