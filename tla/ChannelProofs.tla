---------------------------- MODULE ChannelProofs ----------------------------
(***************************************************************************)
(* Proofs about Channel, for any number of senders, dispatchers and        *)
(* messages: the types, the process lock, the counts of readSmp, and the   *)
(* promise of Mailbox.                                                     *)
(***************************************************************************)
EXTENDS Channel, FiniteSetTheorems, TLAPS

\* The number of dispatchers, and so of the wake-ups of uninit, is a number.
LEMMA PoolSize == Cardinality(Dispatchers) \in Nat
  BY FS_CardinalityType, ChannelAssumption

-----------------------------------------------------------------------------
(* Types. TypeOK alone is not inductive: a thread about to push or to      *)
(* handle a message must have one in hand.                                 *)

InHand ==
    /\ \A s \in Senders : pc[s] # "idle" => cur[s] \in Messages
    /\ \A d \in Dispatchers : pc[d] = "handle" => cur[d] \in Messages

TypeInv == TypeOK /\ InHand

LEMMA InitTypeInv == Init => TypeInv
<1> SUFFICES ASSUME Init PROVE TypeInv
  OBVIOUS
<1> USE DEF Init, Threads, SenderPcs, DispatcherPcs
<1>1. pc \in [Threads -> SenderPcs \cup DispatcherPcs]
  OBVIOUS
<1>2. /\ \A s \in Senders : pc[s] = "idle"
      /\ \A d \in Dispatchers : pc[d] = "wait"
  BY ChannelAssumption
<1>3. cur \in [Threads -> Messages \cup {NoMessage}]
  OBVIOUS
<1>4. /\ ec \in [Senders -> {"FAILED", "SUCCESS", "TIMEOUT"}]
      /\ outcome \in [Messages -> {"unsent", "pending", "sent", "failed"}]
  OBVIOUS
<1>5. notified \in 0 .. Cardinality(Dispatchers)
  BY PoolSize
<1>6. queue \in Seq(Messages)
  OBVIOUS
<1> QED BY <1>1, <1>2, <1>3, <1>4, <1>5, <1>6 DEF TypeInv, TypeOK, InHand

LEMMA SenderTypeInv ==
  ASSUME TypeInv, NEW s \in Senders, SenderStep(s)
  PROVE  TypeInv'
<1> USE ChannelAssumption DEF TypeInv, TypeOK, InHand, Threads, SenderPcs, DispatcherPcs, Goto
<1>1. ASSUME NEW m \in Messages, TakeUp(s, m) PROVE TypeInv'
  BY <1>1 DEF TakeUp
<1>2. CASE SenderLock(s)
  BY <1>2 DEF SenderLock, Acquire
<1>3. CASE SenderLockTimeout(s)
  BY <1>3 DEF SenderLockTimeout
<1>4. CASE SenderLockTimeoutThrows(s)
  BY <1>4 DEF SenderLockTimeoutThrows, Release
<1>5. CASE SpaceFound(s)
  BY <1>5 DEF SpaceFound
<1>6. CASE NoSpace(s)
  BY <1>6 DEF NoSpace
<1>7. CASE Push(s)
  <2>1. cur[s] \in Messages
    BY <1>7 DEF Push
  <2>2. queue' \in Seq(Messages)
    BY <1>7, <2>1 DEF Push
  <2> QED BY <1>7, <2>2 DEF Push
<1>8. CASE Notify(s)
  BY <1>8 DEF Notify
<1>9. CASE SenderUnlock(s)
  BY <1>9 DEF SenderUnlock, Release
<1>10. CASE Report(s)
  BY <1>10 DEF Report
<1> QED BY <1>1, <1>2, <1>3, <1>4, <1>5, <1>6, <1>7, <1>8, <1>9, <1>10 DEF SenderStep

LEMMA DispatcherTypeInv ==
  ASSUME TypeInv, NEW d \in Dispatchers, DispatcherStep(d)
  PROVE  TypeInv'
<1> USE ChannelAssumption DEF TypeInv, TypeOK, InHand, Threads, SenderPcs, DispatcherPcs, Goto
<1>1. CASE WaitForRead(d)
  BY <1>1 DEF WaitForRead
<1>2. CASE CheckStop(d)
  BY <1>2 DEF CheckStop
<1>3. CASE DispatcherLock(d)
  BY <1>3 DEF DispatcherLock, Acquire
<1>4. CASE DispatcherLockTimeout(d)
  BY <1>4 DEF DispatcherLockTimeout
<1>5. CASE Pop(d)
  <2>1. CASE queue = <<>>
    BY <1>5, <2>1 DEF Pop
  <2>2. CASE queue # <<>>
    <3>1. PICK m \in Messages, q \in Seq(Messages) : m = Head(queue) /\ q = Tail(queue)
      <4>1. queue \in Seq(Messages) /\ queue # <<>>
        BY <2>2
      <4>2. Head(queue) \in Messages /\ Tail(queue) \in Seq(Messages)
        BY ONLY <4>1
      <4> QED BY ONLY <4>2
    <3>2. cur' = [cur EXCEPT ![d] = m] /\ taken' = taken \cup {m} /\ queue' = q
      BY <1>5, <2>2, <3>1 DEF Pop
    <3> QED BY <1>5, <3>2 DEF Pop
  <2> QED BY <2>1, <2>2
<1>6. CASE PopThrows(d)
  BY <1>6 DEF PopThrows
<1>7. CASE DispatcherUnlock(d)
  BY <1>7 DEF DispatcherUnlock, Release
<1>8. CASE Handle(d)
  BY <1>8 DEF Handle
<1>9. CASE Loop(d)
  BY <1>9 DEF Loop
<1> QED BY <1>1, <1>2, <1>3, <1>4, <1>5, <1>6, <1>7, <1>8, <1>9 DEF DispatcherStep

LEMMA OwnerTypeInv ==
  ASSUME TypeInv, Stop \/ OwnerStep
  PROVE  TypeInv'
<1> USE PoolSize DEF TypeInv, TypeOK, InHand
<1>1. CASE Stop
  BY <1>1 DEF Stop
<1>2. CASE PostOne
  BY <1>2 DEF PostOne
<1>3. CASE AllPosted \/ JoinAll
  BY <1>3 DEF AllPosted, JoinAll
<1> QED BY <1>1, <1>2, <1>3 DEF OwnerStep

LEMMA NextTypeInv == TypeInv /\ [Next]_vars => TypeInv'
<1> SUFFICES ASSUME TypeInv, [Next]_vars PROVE TypeInv'
  OBVIOUS
<1>1. ASSUME NEW s \in Senders, Crash(s) PROVE TypeInv'
  BY <1>1 DEF TypeInv, TypeOK, InHand, Crash
<1>2. CASE UNCHANGED vars
  BY <1>2 DEF TypeInv, TypeOK, InHand, vars
<1> QED BY <1>1, <1>2, SenderTypeInv, DispatcherTypeInv, OwnerTypeInv DEF Next

LEMMA TypeInvHolds == Spec => []TypeInv
  BY InitTypeInv, NextTypeInv, PTL DEF Spec

\* Every variable keeps to its type; in particular uninit posts no more wake-ups
\* than there are dispatchers, and what is pushed is a message.
THEOREM ChannelTypes == Spec => []TypeOK
<1>1. TypeInv => TypeOK
  BY DEF TypeInv
<1> QED BY <1>1, TypeInvHolds, PTL

-----------------------------------------------------------------------------
(* The process lock. When allocations fail a handler may release a lock of *)
(* another thread, so these facts are about builds and runs where they do  *)
(* not: AllocFailures is FALSE.                                            *)

LEMMA InitLockInv == Init => LockInv
<1> SUFFICES ASSUME Init PROVE LockInv
  OBVIOUS
<1>1. \A t \in Threads : pc[t] \in {"idle", "wait"}
  BY DEF Init
<1> QED BY <1>1 DEF Init, LockInv, Holders

\* A thread that goes from one place to another outside of the lock, or from
\* one to another inside, leaves the lock and its holder alone.
LEMMA LockKept ==
  ASSUME TypeOK, LockInv, NEW t \in Threads, NEW l,
         Goto(t, l), rwLock' = rwLock,
         t \in Holders <=> l \in {"check", "push", "notify", "unlock", "pop"}
  PROVE  LockInv'
<1>1. Holders' = Holders
  BY DEF TypeOK, Holders, Goto
<1> QED BY <1>1 DEF LockInv

LEMMA LockTaken ==
  ASSUME TypeOK, LockInv, NEW t \in Threads, NEW l,
         Acquire(t, l), l \in {"check", "push", "notify", "unlock", "pop"}
  PROVE  LockInv'
<1>1. rwLock = 1 /\ rwLock' = 0
  BY DEF LockInv, Acquire
<1>2. Holders' = {t}
  BY <1>1 DEF TypeOK, LockInv, Holders, Acquire, Goto
<1> QED BY <1>1, <1>2 DEF LockInv

LEMMA LockGivenBack ==
  ASSUME TypeOK, LockInv, NEW t \in Holders, NEW l,
         Release(t, l), l \notin {"check", "push", "notify", "unlock", "pop"}
  PROVE  LockInv'
<1>1. Holders = {t} /\ rwLock = 0 /\ rwLock' = 1
  BY DEF LockInv, Release
<1>2. Holders' = {}
  BY <1>1 DEF TypeOK, Holders, Release, Goto
<1> QED BY <1>1, <1>2 DEF LockInv

LEMMA SenderLockInv ==
  ASSUME AllocFailures = FALSE, TypeOK, LockInv, NEW s \in Senders, SenderStep(s)
  PROVE  LockInv'
<1> USE DEF Holders
<1>0. s \in Threads
  BY DEF Threads
<1>1. ASSUME NEW m \in Messages, TakeUp(s, m) PROVE LockInv'
  BY <1>0, <1>1, LockKept DEF TakeUp
<1>2. CASE SenderLock(s)
  BY <1>0, <1>2, LockTaken DEF SenderLock
<1>3. CASE SenderLockTimeout(s)
  BY <1>0, <1>3, LockKept DEF SenderLockTimeout
<1>4. CASE SenderLockTimeoutThrows(s)
  BY <1>4 DEF SenderLockTimeoutThrows
<1>5. CASE SpaceFound(s)
  BY <1>0, <1>5, LockKept DEF SpaceFound
<1>6. CASE NoSpace(s)
  BY <1>0, <1>6, LockKept DEF NoSpace
<1>7. CASE Push(s)
  BY <1>0, <1>7, LockKept DEF Push
<1>8. CASE Notify(s)
  BY <1>0, <1>8, LockKept DEF Notify
<1>9. CASE SenderUnlock(s)
  BY <1>0, <1>9, LockGivenBack DEF SenderUnlock
<1>10. CASE Report(s)
  BY <1>0, <1>10, LockKept DEF Report
<1> QED BY <1>1, <1>2, <1>3, <1>4, <1>5, <1>6, <1>7, <1>8, <1>9, <1>10 DEF SenderStep

LEMMA DispatcherLockInv ==
  ASSUME TypeOK, LockInv, NEW d \in Dispatchers, DispatcherStep(d)
  PROVE  LockInv'
<1> USE DEF Holders
<1>0. d \in Threads
  BY DEF Threads
<1>1. CASE WaitForRead(d)
  BY <1>0, <1>1, LockKept DEF WaitForRead
<1>2. CASE CheckStop(d)
  BY <1>0, <1>2, LockKept DEF CheckStop
<1>3. CASE DispatcherLock(d)
  BY <1>0, <1>3, LockTaken DEF DispatcherLock
<1>4. CASE DispatcherLockTimeout(d)
  BY <1>0, <1>4, LockKept DEF DispatcherLockTimeout
<1>5. CASE Pop(d)
  BY <1>0, <1>5, LockKept DEF Pop
<1>6. CASE PopThrows(d)
  BY <1>0, <1>6, LockKept DEF PopThrows
<1>7. CASE DispatcherUnlock(d)
  BY <1>0, <1>7, LockGivenBack DEF DispatcherUnlock
<1>8. CASE Handle(d)
  BY <1>0, <1>8, LockKept DEF Handle
<1>9. CASE Loop(d)
  BY <1>0, <1>9, LockKept DEF Loop
<1> QED BY <1>1, <1>2, <1>3, <1>4, <1>5, <1>6, <1>7, <1>8, <1>9 DEF DispatcherStep

LEMMA NextLockInv ==
  ASSUME AllocFailures = FALSE, TypeOK, LockInv, [Next]_vars
  PROVE  LockInv'
<1>1. ASSUME UNCHANGED <<pc, rwLock>> PROVE LockInv'
  BY <1>1 DEF LockInv, Holders
<1>2. ASSUME NEW s \in Senders, Crash(s) PROVE LockInv'
  BY <1>1, <1>2 DEF Crash
<1>3. CASE Stop \/ OwnerStep
  BY <1>1, <1>3 DEF Stop, OwnerStep, PostOne, AllPosted, JoinAll
<1>4. CASE UNCHANGED vars
  BY <1>1, <1>4 DEF vars
<1> QED BY <1>2, <1>3, <1>4, SenderLockInv, DispatcherLockInv DEF Next

\* The process lock is a lock: one thread of whatever process inside at most,
\* and the semaphore says whether there is one, however many lock waits time
\* out and wherever processes die.
THEOREM LockIsSound ==
  ASSUME AllocFailures = FALSE
  PROVE  Spec => []LockInv
<1>1. TypeOK /\ LockInv /\ [Next]_vars => LockInv'
  BY NextLockInv
<1> QED BY <1>1, InitLockInv, ChannelTypes, PTL DEF Spec

\* A sender that waits for room keeps everybody else off the queue: the only
\* step that changes the queue is one of the thread that holds the lock.
THEOREM WaitingIsFutile ==
  ASSUME AllocFailures = FALSE
  PROVE  Spec => WaitIsFutile
<1> DEFINE Futile == \A s \in Senders : pc[s] = "check" /\ pc'[s] = "check" => queue' = queue
<1>1. ASSUME TypeOK, LockInv, [Next]_vars, NEW s \in Senders,
             pc[s] = "check", pc'[s] = "check"
      PROVE  queue' = queue
  <2>1. \A t \in Holders : t = s
    BY <1>1 DEF LockInv, Holders, Threads
  <2>2. ASSUME NEW u \in Senders, SenderStep(u) PROVE queue' = queue
    <3>1. CASE Push(u)
      <4>1. u = s
        BY <2>1, <3>1 DEF Push, Holders, Threads
      <4> QED BY <1>1, <3>1, <4>1 DEF Push
    <3> QED BY <2>2, <3>1 DEF SenderStep, TakeUp, SenderLock, SenderLockTimeout,
               SenderLockTimeoutThrows, SpaceFound, NoSpace, Notify, SenderUnlock, Report
  <2>3. ASSUME NEW d \in Dispatchers, DispatcherStep(d) PROVE queue' = queue
    <3>1. CASE Pop(d)
      <4>1. d = s
        BY <2>1, <3>1 DEF Pop, Holders, Threads
      <4> QED BY <1>1, <3>1, <4>1 DEF Pop
    <3> QED BY <2>3, <3>1 DEF DispatcherStep, WaitForRead, CheckStop, DispatcherLock,
               DispatcherLockTimeout, PopThrows, DispatcherUnlock, Handle, Loop
  <2>4. ASSUME NEW u \in Senders, Crash(u) PROVE queue' = queue
    BY <2>4 DEF Crash
  <2>5. CASE Stop \/ OwnerStep
    BY <2>5 DEF Stop, OwnerStep, PostOne, AllPosted, JoinAll
  <2> QED BY <1>1, <2>2, <2>3, <2>4, <2>5 DEF Next, vars
<1>2. TypeOK /\ LockInv /\ [Next]_vars => [Futile]_vars
  BY <1>1
<1> QED BY <1>2, ChannelTypes, LockIsSound, PTL DEF Spec, WaitIsFutile

-----------------------------------------------------------------------------
(* Channel implements Mailbox, whatever times out, fails or dies: what a   *)
(* sender reports of a message is true of the queue.                       *)

Deposits == Range(queue) \cup taken

\* Each worker has a message of its own, which nobody has reported yet; it is
\* in the queue, or was popped, exactly from the push on; and from there the
\* error code says so.
MailInv ==
    /\ \A s, t \in Senders : s # t /\ pc[s] # "idle" /\ pc[t] # "idle" => cur[s] # cur[t]
    /\ \A s \in Senders : pc[s] # "idle" => outcome[cur[s]] = "pending"
    /\ \A m \in Messages : m \in Deposits => outcome[m] # "unsent"
    /\ \A s \in Senders :
         /\ pc[s] \in {"lock", "check", "push"} => cur[s] \notin Deposits /\ ec[s] # "SUCCESS"
         /\ pc[s] = "notify" => cur[s] \in Deposits
         /\ pc[s] \in {"unlock", "report"} => (ec[s] = "SUCCESS" <=> cur[s] \in Deposits)

-----------------------------------------------------------------------------
(* What is in the queue or was taken off it. *)

LEMMA AppendDeposits ==
  ASSUME queue \in Seq(Messages), NEW m \in Messages, queue' = Append(queue, m), taken' = taken
  PROVE  Deposits' = Deposits \cup {m}
<1>1. /\ DOMAIN queue = 1 .. Len(queue) /\ DOMAIN queue' = 1 .. Len(queue) + 1
      /\ Len(queue) \in Nat
  OBVIOUS
<1>2. /\ \A i \in 1 .. Len(queue) : queue'[i] = queue[i]
      /\ queue'[Len(queue) + 1] = m
  OBVIOUS
<1>3. Range(queue') = Range(queue) \cup {m}
  BY ONLY <1>1, <1>2 DEF Range
<1> QED BY <1>3 DEF Deposits

LEMMA TakeDeposits ==
  ASSUME queue \in Seq(Messages), queue # <<>>, queue' = Tail(queue),
         taken' = taken \cup {Head(queue)}
  PROVE  Deposits' = Deposits
<1>1. /\ DOMAIN queue = 1 .. Len(queue) /\ DOMAIN queue' = 1 .. Len(queue) - 1
      /\ Len(queue) \in Nat \ {0}
  OBVIOUS
<1>2. /\ \A i \in 1 .. Len(queue) - 1 : queue'[i] = queue[i + 1]
      /\ Head(queue) = queue[1]
  OBVIOUS
<1>3. Range(queue) \subseteq Range(queue') \cup {queue[1]}
  <2> SUFFICES ASSUME NEW i \in 1 .. Len(queue), i # 1 PROVE queue[i] \in Range(queue')
    BY <1>1 DEF Range
  <2>1. i - 1 \in 1 .. Len(queue) - 1 /\ i = (i - 1) + 1
    BY <1>1
  <2> QED BY <1>1, <1>2, <2>1 DEF Range
<1>4. Range(queue') \cup {queue[1]} \subseteq Range(queue)
  <2> SUFFICES ASSUME NEW i \in 1 .. Len(queue) - 1 PROVE queue'[i] \in Range(queue)
    BY <1>1 DEF Range
  <2>1. i + 1 \in 1 .. Len(queue)
    BY <1>1
  <2> QED BY <1>1, <1>2, <2>1 DEF Range
<1> QED BY <1>2, <1>3, <1>4 DEF Deposits

-----------------------------------------------------------------------------
LEMMA InitMailInv == Init => MailInv
<1> SUFFICES ASSUME Init PROVE MailInv
  OBVIOUS
<1>1. \A s \in Senders : pc[s] = "idle"
  BY DEF Init, Threads
<1>2. Deposits = {}
  BY DEF Init, Deposits, Range
<1> QED BY <1>1, <1>2 DEF MailInv

LEMMA SenderMailInv ==
  ASSUME TypeInv, MailInv, NEW s \in Senders, SenderStep(s)
  PROVE  MailInv'
<1> USE DEF MailInv, TypeInv, TypeOK, InHand, Threads, Goto
<1>0. UNCHANGED <<queue, taken>> => Deposits' = Deposits
  BY DEF Deposits
<1>1. ASSUME NEW m \in Messages, TakeUp(s, m) PROVE MailInv'
  BY <1>0, <1>1 DEF TakeUp
<1>2. CASE SenderLock(s)
  BY <1>0, <1>2 DEF SenderLock, Acquire
<1>3. CASE SenderLockTimeout(s)
  BY <1>0, <1>3 DEF SenderLockTimeout
<1>4. CASE SenderLockTimeoutThrows(s)
  BY <1>0, <1>4 DEF SenderLockTimeoutThrows, Release
<1>5. CASE SpaceFound(s)
  BY <1>0, <1>5 DEF SpaceFound
<1>6. CASE NoSpace(s)
  BY <1>0, <1>6 DEF NoSpace
<1>7. CASE Push(s)
  <2>1. CASE Room(s)
    <3>1. cur[s] \in Messages /\ queue' = Append(queue, cur[s]) /\ taken' = taken
      BY <1>7, <2>1 DEF Push
    <3>2. Deposits' = Deposits \cup {cur[s]}
      BY <3>1, AppendDeposits
    <3> QED BY <1>7, <2>1, <3>2 DEF Push
  <2>2. CASE ~Room(s)
    BY <1>0, <1>7, <2>2 DEF Push
  <2> QED BY <2>1, <2>2
<1>8. CASE Notify(s)
  BY <1>0, <1>8 DEF Notify
<1>9. CASE SenderUnlock(s)
  BY <1>0, <1>9 DEF SenderUnlock, Release
<1>10. CASE Report(s)
  BY <1>0, <1>10 DEF Report
<1> QED BY <1>1, <1>2, <1>3, <1>4, <1>5, <1>6, <1>7, <1>8, <1>9, <1>10 DEF SenderStep

LEMMA DispatcherMailInv ==
  ASSUME TypeInv, MailInv, NEW d \in Dispatchers, DispatcherStep(d)
  PROVE  MailInv'
<1>1. Deposits' = Deposits
  <2>1. CASE Pop(d) /\ queue # <<>>
    BY <2>1, TakeDeposits DEF Pop, TypeInv, TypeOK
  <2>2. CASE ~(Pop(d) /\ queue # <<>>)
    <3>1. UNCHANGED <<queue, taken>>
      BY <2>2 DEF DispatcherStep, WaitForRead, CheckStop, DispatcherLock, DispatcherLockTimeout,
                  Pop, PopThrows, DispatcherUnlock, Handle, Loop
    <3> QED BY <3>1 DEF Deposits
  <2> QED BY <2>1, <2>2
<1>2. UNCHANGED <<ec, outcome>>
  BY DEF DispatcherStep, WaitForRead, CheckStop, DispatcherLock, DispatcherLockTimeout,
         Pop, PopThrows, DispatcherUnlock, Handle, Loop
<1>3. \A s \in Senders : pc'[s] = pc[s] /\ cur'[s] = cur[s]
  BY ChannelAssumption
     DEF TypeInv, TypeOK, Threads, Goto, Acquire, Release,
         DispatcherStep, WaitForRead, CheckStop, DispatcherLock, DispatcherLockTimeout,
         Pop, PopThrows, DispatcherUnlock, Handle, Loop
<1> QED BY <1>1, <1>2, <1>3 DEF MailInv

LEMMA NextMailInv == TypeInv /\ MailInv /\ [Next]_vars => MailInv'
<1> SUFFICES ASSUME TypeInv, MailInv, [Next]_vars PROVE MailInv'
  OBVIOUS
<1>1. ASSUME UNCHANGED <<queue, taken, pc, cur, ec, outcome>> PROVE MailInv'
  BY <1>1 DEF MailInv, Deposits
<1>2. ASSUME NEW s \in Senders, Crash(s) PROVE MailInv'
  BY <1>1, <1>2 DEF Crash
<1>3. CASE Stop \/ OwnerStep
  BY <1>1, <1>3 DEF Stop, OwnerStep, PostOne, AllPosted, JoinAll
<1>4. CASE UNCHANGED vars
  BY <1>1, <1>4 DEF vars
<1> QED BY <1>2, <1>3, <1>4, SenderMailInv, DispatcherMailInv DEF Next

-----------------------------------------------------------------------------
(* Every step is one of Mailbox, or none. *)

LEMMA InitMapped == Init => Post!Init
  BY DEF Init, Post!Init

LEMMA SenderMapped ==
  ASSUME TypeInv, MailInv, NEW s \in Senders, SenderStep(s)
  PROVE  [Post!Next]_(Post!vars)
<1> USE DEF Post!vars
<1>0. \A m : Post!Deposited(m) <=> m \in Deposits
  BY DEF Post!Deposited, Post!Range, Deposits, Range
<1>1. ASSUME NEW m \in Messages, TakeUp(s, m) PROVE Post!Start(m)
  BY <1>1 DEF TakeUp, Post!Start
<1>2. CASE Push(s) /\ Room(s)
  <2>1. cur[s] \in Messages /\ outcome[cur[s]] = "pending" /\ ~Post!Deposited(cur[s])
    BY <1>0, <1>2 DEF Push, MailInv, TypeInv, InHand
  <2>2. Post!Deposit(cur[s])
    BY <1>2, <2>1 DEF Push, Room, Post!Deposit
  <2> QED BY <2>1, <2>2 DEF Post!Next
<1>3. CASE Report(s)
  <2>1. cur[s] \in Messages /\ outcome[cur[s]] = "pending"
    BY <1>3 DEF Report, MailInv, TypeInv, InHand
  <2>2. CASE ec[s] = "SUCCESS"
    <3>1. Post!Confirm(cur[s])
      BY <1>0, <1>3, <2>1, <2>2 DEF Report, MailInv, Post!Confirm
    <3> QED BY <2>1, <3>1 DEF Post!Next
  <2>3. CASE ec[s] # "SUCCESS"
    <3>1. Post!Reject(cur[s])
      BY <1>0, <1>3, <2>1, <2>3 DEF Report, MailInv, Post!Reject
    <3> QED BY <2>1, <3>1 DEF Post!Next
  <2> QED BY <2>2, <2>3
<1>4. CASE ~Report(s) /\ ~(Push(s) /\ Room(s)) /\ ~\E m \in Messages : TakeUp(s, m)
  BY <1>4 DEF SenderStep, SenderLock, SenderLockTimeout, SenderLockTimeoutThrows,
              SpaceFound, NoSpace, Push, Notify, SenderUnlock
<1> QED BY <1>1, <1>2, <1>3, <1>4 DEF Post!Next

LEMMA DispatcherMapped ==
  ASSUME NEW d \in Dispatchers, DispatcherStep(d)
  PROVE  [Post!Next]_(Post!vars)
<1>1. CASE Pop(d) /\ queue # <<>>
  BY <1>1 DEF Pop, Post!Next, Post!Take
<1>2. CASE ~(Pop(d) /\ queue # <<>>)
  BY <1>2 DEF Post!vars, DispatcherStep, WaitForRead, CheckStop, DispatcherLock,
              DispatcherLockTimeout, Pop, PopThrows, DispatcherUnlock, Handle, Loop
<1> QED BY <1>1, <1>2

LEMMA NextMapped == TypeInv /\ MailInv /\ [Next]_vars => [Post!Next]_(Post!vars)
<1> SUFFICES ASSUME TypeInv, MailInv, [Next]_vars PROVE [Post!Next]_(Post!vars)
  OBVIOUS
<1>1. ASSUME NEW s \in Senders, Crash(s) PROVE UNCHANGED Post!vars
  BY <1>1 DEF Crash, Post!vars
<1>2. CASE Stop \/ OwnerStep
  BY <1>2 DEF Stop, OwnerStep, PostOne, AllPosted, JoinAll, Post!vars
<1>3. CASE UNCHANGED vars
  BY <1>3 DEF vars, Post!vars
<1> QED BY <1>1, <1>2, <1>3, SenderMapped, DispatcherMapped DEF Next

\* A message reported as sent is in the queue or was popped off it, one reported
\* as failed is not and will not be; none is pushed twice; they are popped in
\* the order of the pushes. Lock waits that time out and the deaths of senders
\* do not change that. (Where a failed allocation has given back a lock twice,
\* operations on the queue may overlap, which Channel does not describe: there
\* the theorem speaks of the behaviour up to that point.)
THEOREM ChannelImplementsMailbox == Spec => ImplementsMailbox
<1>1. Spec => []MailInv
  BY InitMailInv, NextMailInv, TypeInvHolds, PTL DEF Spec
<1> QED BY <1>1, InitMapped, NextMapped, TypeInvHolds, PTL DEF Spec, ImplementsMailbox, Post!Spec
=============================================================================
