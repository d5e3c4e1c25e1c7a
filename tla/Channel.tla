------------------------------ MODULE Channel ------------------------------
(***************************************************************************)
(* One message queue and the threads that share it: the workers of the     *)
(* Senders of all processes that push into it (sender.cpp), the dispatcher *)
(* threads of the process that owns it (call_dispatcher.cpp and            *)
(* resp_dispatcher.cpp run the same loop), and the owner's uninit. The     *)
(* queue is guarded by rwLock, a semaphore of the system used as a lock    *)
(* with a time limit, and readSmp counts the messages to be read.          *)
(*                                                                         *)
(* A step is what a thread does between two accesses to what it shares     *)
(* with the others. What the queue does with the bytes is the subject of   *)
(* MessageQueue; here a message takes one place, and those of TooLarge     *)
(* exceed the whole data area.                                             *)
(***************************************************************************)
EXTENDS Integers, Sequences, FiniteSets, Functions

CONSTANTS
    Senders,        \* worker threads of the senders
    Dispatchers,    \* dispatcher threads of the owner
    Messages,
    TooLarge,       \* the messages that do not fit an empty queue
    NoMessage,
    MsgMaxNumber,   \* msgMaxNumber_
    LockTimeouts,   \* BOOLEAN: may the wait for rwLock reach its limit?
    AllocFailures,  \* BOOLEAN: may an allocation throw bad_alloc?
    Crashable       \* the senders whose process may die at any moment

Threads == Senders \cup Dispatchers

ASSUME ChannelAssumption ==
    /\ Senders \cap Dispatchers = {}
    /\ IsFiniteSet(Senders) /\ IsFiniteSet(Dispatchers)
    /\ TooLarge \subseteq Messages
    /\ NoMessage \notin Messages
    /\ MsgMaxNumber \in Nat \ {0}
    /\ LockTimeouts \in BOOLEAN
    /\ AllocFailures \in BOOLEAN
    /\ Crashable \subseteq Senders

VARIABLES
    queue,      \* the messages in the queue, the oldest first
    rwLock,     \* the value of the semaphore rwLock_
    readSmp,    \* the value of the semaphore readSmp_
    pc,         \* where each thread is
    cur,        \* the message each thread has in hand
    ec,         \* the error code of each sender
    alive,      \* the senders whose process still runs
    outcome,    \* what the sender of each message knows of it
    taken,      \* the messages popped off the queue
    handled,    \* the messages a dispatcher is done with
    stop,       \* stop_ of the dispatcher
    owner,      \* where the owner's uninit is
    notified    \* how many wake-ups uninit has posted

vars == <<queue, rwLock, readSmp, pc, cur, ec, alive, outcome, taken, handled,
          stop, owner, notified>>

Goto(t, l) == pc' = [pc EXCEPT ![t] = l]

-----------------------------------------------------------------------------
\* create() makes rwLock with 1 and readSmp with 0.
Init ==
    /\ queue = <<>>
    /\ rwLock = 1
    /\ readSmp = 0
    /\ pc = [t \in Threads |-> IF t \in Senders THEN "idle" ELSE "wait"]
    /\ cur = [t \in Threads |-> NoMessage]
    /\ ec = [s \in Senders |-> "FAILED"]
    /\ alive = Senders
    /\ outcome = [m \in Messages |-> "unsent"]
    /\ taken = {}
    /\ handled = {}
    /\ stop = FALSE
    /\ owner = "running"
    /\ notified = 0

-----------------------------------------------------------------------------
(* processRWLock and processRWUnlock, for senders and dispatchers alike.   *)

\* sem_timedwait takes a free semaphore at once, whatever its time limit.
Acquire(t, next) ==
    /\ rwLock > 0
    /\ rwLock' = rwLock - 1
    /\ Goto(t, next)

Release(t, next) ==
    /\ rwLock' = rwLock + 1
    /\ Goto(t, next)

-----------------------------------------------------------------------------
(* A worker of a Sender. *)

\* It takes a message off its list.
TakeUp(s, m) ==
    /\ pc[s] = "idle"
    /\ outcome[m] = "unsent"
    /\ outcome' = [outcome EXCEPT ![m] = "pending"]
    /\ cur' = [cur EXCEPT ![s] = m]
    /\ ec' = [ec EXCEPT ![s] = "FAILED"]
    /\ Goto(s, "lock")
    /\ UNCHANGED <<queue, rwLock, readSmp, alive, taken, handled, stop, owner, notified>>

\* mutant: the check of the space runs before the lock is taken.
SenderLockSkipped(s) ==
    /\ pc[s] = "lock"
    /\ Goto(s, "check")
    /\ UNCHANGED <<queue, rwLock, readSmp, cur, ec, alive, outcome, taken, handled, stop, owner, notified>>

SenderLock(s) ==
    /\ pc[s] = "lock"
    /\ Acquire(s, "check")
    /\ UNCHANGED <<queue, readSmp, cur, ec, alive, outcome, taken, handled, stop, owner, notified>>

\* mutant: the unlock sits behind the branch that took the lock.
SenderLockTimeoutUnlocks(s) ==
    /\ LockTimeouts
    /\ pc[s] = "lock"
    /\ rwLock = 0
    /\ ec' = [ec EXCEPT ![s] = "TIMEOUT"]
    /\ Release(s, "report")
    /\ UNCHANGED <<queue, readSmp, cur, alive, outcome, taken, handled, stop, owner, notified>>

\* The lock was not to be had in time.
SenderLockTimeout(s) ==
    /\ LockTimeouts
    /\ pc[s] = "lock"
    /\ rwLock = 0
    /\ ec' = [ec EXCEPT ![s] = "TIMEOUT"]
    /\ Goto(s, "report")
    /\ UNCHANGED <<queue, rwLock, readSmp, cur, alive, outcome, taken, handled, stop, owner, notified>>

\* The same, and the assignment to errMsg throws: the handler unlocks "again"
\* a lock that this thread never had.
SenderLockTimeoutThrows(s) ==
    /\ LockTimeouts
    /\ AllocFailures
    /\ pc[s] = "lock"
    /\ rwLock = 0
    /\ ec' = [ec EXCEPT ![s] = "TIMEOUT"]
    /\ Release(s, "report")
    /\ UNCHANGED <<queue, readSmp, cur, alive, outcome, taken, handled, stop, owner, notified>>

\* checkSpaceAndWait finds room.
Room(s) == cur[s] \notin TooLarge /\ Len(queue) < MsgMaxNumber

SpaceFound(s) ==
    /\ pc[s] = "check"
    /\ Room(s)
    /\ Goto(s, "push")
    /\ UNCHANGED <<queue, rwLock, readSmp, cur, ec, alive, outcome, taken, handled, stop, owner, notified>>

\* It finds none, and none can come, or the time is up, or stopEvent_ is set;
\* until then it looks again every 5 ms, and the lock stays with it.
NoSpace(s) ==
    /\ pc[s] = "check"
    /\ ~Room(s)
    /\ ec' = [ec EXCEPT ![s] = "TIMEOUT"]
    /\ Goto(s, "unlock")
    /\ UNCHANGED <<queue, rwLock, readSmp, cur, alive, outcome, taken, handled, stop, owner, notified>>

Push(s) ==
    /\ pc[s] = "push"
    /\ queue' = IF Room(s) THEN Append(queue, cur[s]) ELSE queue
    /\ Goto(s, IF Room(s) THEN "notify" ELSE "unlock")
    /\ UNCHANGED <<rwLock, readSmp, cur, ec, alive, outcome, taken, handled, stop, owner, notified>>

\* mutant: the wake-up is posted twice.
NotifyTwice(s) ==
    /\ pc[s] = "notify"
    /\ readSmp' = readSmp + 2
    /\ ec' = [ec EXCEPT ![s] = "SUCCESS"]
    /\ Goto(s, "unlock")
    /\ UNCHANGED <<queue, rwLock, cur, alive, outcome, taken, handled, stop, owner, notified>>

\* mutant: no wake-up is posted.
NotifyNobody(s) ==
    /\ pc[s] = "notify"
    /\ ec' = [ec EXCEPT ![s] = "SUCCESS"]
    /\ Goto(s, "unlock")
    /\ UNCHANGED <<queue, rwLock, readSmp, cur, alive, outcome, taken, handled, stop, owner, notified>>

\* mutant: the error code stays FAILED.
NotifyKeepsError(s) ==
    /\ pc[s] = "notify"
    /\ readSmp' = readSmp + 1
    /\ Goto(s, "unlock")
    /\ UNCHANGED <<queue, rwLock, cur, ec, alive, outcome, taken, handled, stop, owner, notified>>

Notify(s) ==
    /\ pc[s] = "notify"
    /\ readSmp' = readSmp + 1
    /\ ec' = [ec EXCEPT ![s] = "SUCCESS"]
    /\ Goto(s, "unlock")
    /\ UNCHANGED <<queue, rwLock, cur, alive, outcome, taken, handled, stop, owner, notified>>

SenderUnlock(s) ==
    /\ pc[s] = "unlock"
    /\ Release(s, "report")
    /\ UNCHANGED <<queue, readSmp, cur, ec, alive, outcome, taken, handled, stop, owner, notified>>

\* A failure is reported to the caller; a success needs no report.
Report(s) ==
    /\ pc[s] = "report"
    /\ outcome' = [outcome EXCEPT ![cur[s]] = IF ec[s] = "SUCCESS" THEN "sent" ELSE "failed"]
    /\ cur' = [cur EXCEPT ![s] = NoMessage]
    /\ Goto(s, "idle")
    /\ UNCHANGED <<queue, rwLock, readSmp, ec, alive, taken, handled, stop, owner, notified>>

SenderStep(s) ==
    /\ s \in alive
    /\ \/ \E m \in Messages : TakeUp(s, m)
       \/ SenderLock(s) \/ SenderLockTimeout(s) \/ SenderLockTimeoutThrows(s)
       \/ SpaceFound(s) \/ NoSpace(s) \/ Push(s) \/ Notify(s)
       \/ SenderUnlock(s) \/ Report(s)

\* The sender's process dies. What it did to the shared memory and the
\* semaphores stays; a lock it holds is never released.
Crash(s) ==
    /\ s \in Crashable \cap alive
    /\ alive' = alive \ {s}
    /\ UNCHANGED <<queue, rwLock, readSmp, pc, cur, ec, outcome, taken, handled, stop, owner, notified>>

-----------------------------------------------------------------------------
(* A dispatcher thread. *)

WaitForRead(d) ==
    /\ pc[d] = "wait"
    /\ readSmp > 0
    /\ readSmp' = readSmp - 1
    /\ Goto(d, "stopcheck")
    /\ UNCHANGED <<queue, rwLock, cur, ec, alive, outcome, taken, handled, stop, owner, notified>>

CheckStop(d) ==
    /\ pc[d] = "stopcheck"
    /\ Goto(d, IF stop THEN "done" ELSE "lock")
    /\ UNCHANGED <<queue, rwLock, readSmp, cur, ec, alive, outcome, taken, handled, stop, owner, notified>>

DispatcherLock(d) ==
    /\ pc[d] = "lock"
    /\ Acquire(d, "pop")
    /\ UNCHANGED <<queue, readSmp, cur, ec, alive, outcome, taken, handled, stop, owner, notified>>

\* The lock was not to be had in time: back to the loop, although the count
\* of readSmp is already taken.
DispatcherLockTimeout(d) ==
    /\ LockTimeouts
    /\ pc[d] = "lock"
    /\ rwLock = 0
    /\ Goto(d, "loop")
    /\ UNCHANGED <<queue, rwLock, readSmp, cur, ec, alive, outcome, taken, handled, stop, owner, notified>>

Pop(d) ==
    /\ pc[d] = "pop"
    /\ \/ /\ queue = <<>>
          /\ UNCHANGED <<queue, cur, taken>>
       \/ /\ queue # <<>>
          /\ cur' = [cur EXCEPT ![d] = Head(queue)]
          /\ taken' = taken \cup {Head(queue)}
          /\ queue' = Tail(queue)
    /\ Goto(d, "unlock")
    /\ UNCHANGED <<rwLock, readSmp, ec, alive, outcome, handled, stop, owner, notified>>

\* The first message is larger than the buffer, and growing it throws.
PopThrows(d) ==
    /\ AllocFailures
    /\ pc[d] = "pop"
    /\ queue # <<>>
    /\ Goto(d, "unlock")
    /\ UNCHANGED <<queue, rwLock, readSmp, cur, ec, alive, outcome, taken, handled, stop, owner, notified>>

DispatcherUnlock(d) ==
    /\ pc[d] = "unlock"
    /\ Release(d, IF cur[d] = NoMessage THEN "loop" ELSE "handle")
    /\ UNCHANGED <<queue, readSmp, cur, ec, alive, outcome, taken, handled, stop, owner, notified>>

Handle(d) ==
    /\ pc[d] = "handle"
    /\ handled' = handled \cup {cur[d]}
    /\ cur' = [cur EXCEPT ![d] = NoMessage]
    /\ Goto(d, "loop")
    /\ UNCHANGED <<queue, rwLock, readSmp, ec, alive, outcome, taken, stop, owner, notified>>

Loop(d) ==
    /\ pc[d] = "loop"
    /\ Goto(d, IF stop THEN "done" ELSE "wait")
    /\ UNCHANGED <<queue, rwLock, readSmp, cur, ec, alive, outcome, taken, handled, stop, owner, notified>>

DispatcherStep(d) ==
    \/ WaitForRead(d) \/ CheckStop(d)
    \/ DispatcherLock(d) \/ DispatcherLockTimeout(d)
    \/ Pop(d) \/ PopThrows(d) \/ DispatcherUnlock(d)
    \/ Handle(d) \/ Loop(d)

-----------------------------------------------------------------------------
(* uninit of the dispatcher. *)

Stop ==
    /\ owner = "running"
    /\ stop' = TRUE
    /\ owner' = "posting"
    /\ UNCHANGED <<queue, rwLock, readSmp, pc, cur, ec, alive, outcome, taken, handled, notified>>

\* mutant: one wake-up too many.
PostOneMore ==
    /\ owner = "posting"
    /\ notified <= Cardinality(Dispatchers)
    /\ readSmp' = readSmp + 1
    /\ notified' = notified + 1
    /\ UNCHANGED <<queue, rwLock, pc, cur, ec, alive, outcome, taken, handled, stop, owner>>

PostOne ==
    /\ owner = "posting"
    /\ notified < Cardinality(Dispatchers)
    /\ readSmp' = readSmp + 1
    /\ notified' = notified + 1
    /\ UNCHANGED <<queue, rwLock, pc, cur, ec, alive, outcome, taken, handled, stop, owner>>

\* mutant: a single wake-up for the whole pool.
AllPostedAfterOne ==
    /\ owner = "posting"
    /\ notified = 1
    /\ owner' = "joining"
    /\ UNCHANGED <<queue, rwLock, readSmp, pc, cur, ec, alive, outcome, taken, handled, stop, notified>>

AllPosted ==
    /\ owner = "posting"
    /\ notified = Cardinality(Dispatchers)
    /\ owner' = "joining"
    /\ UNCHANGED <<queue, rwLock, readSmp, pc, cur, ec, alive, outcome, taken, handled, stop, notified>>

JoinAll ==
    /\ owner = "joining"
    /\ \A d \in Dispatchers : pc[d] = "done"
    /\ owner' = "closed"
    /\ UNCHANGED <<queue, rwLock, readSmp, pc, cur, ec, alive, outcome, taken, handled, stop, notified>>

OwnerStep == PostOne \/ AllPosted \/ JoinAll

-----------------------------------------------------------------------------
Next ==
    \/ \E s \in Senders : SenderStep(s) \/ Crash(s)
    \/ \E d \in Dispatchers : DispatcherStep(d)
    \/ Stop \/ OwnerStep

Spec == Init /\ [][Next]_vars

\* The scheduler of the system lets every thread that can go on do so in the
\* end. Nothing makes a worker find another message in its list, or the owner
\* call uninit, or a process die.
Fairness ==
    /\ \A s \in Senders : WF_vars(pc[s] # "idle" /\ SenderStep(s))
    /\ \A d \in Dispatchers : WF_vars(DispatcherStep(d))
    /\ WF_vars(OwnerStep)

FairSpec == Spec /\ Fairness

-----------------------------------------------------------------------------
(* Properties *)

SenderPcs     == {"idle", "lock", "check", "push", "notify", "unlock", "report"}
DispatcherPcs == {"wait", "stopcheck", "lock", "pop", "unlock", "handle", "loop", "done"}

TypeOK ==
    /\ queue \in Seq(Messages)
    /\ rwLock \in Nat
    /\ readSmp \in Nat
    /\ pc \in [Threads -> SenderPcs \cup DispatcherPcs]
    /\ \A s \in Senders : pc[s] \in SenderPcs
    /\ \A d \in Dispatchers : pc[d] \in DispatcherPcs
    /\ cur \in [Threads -> Messages \cup {NoMessage}]
    /\ ec \in [Senders -> {"FAILED", "SUCCESS", "TIMEOUT"}]
    /\ alive \subseteq Senders
    /\ outcome \in [Messages -> {"unsent", "pending", "sent", "failed"}]
    /\ taken \subseteq Messages
    /\ handled \subseteq Messages
    /\ stop \in BOOLEAN
    /\ owner \in {"running", "posting", "joining", "closed"}
    /\ notified \in 0 .. Cardinality(Dispatchers)

\* The threads that work on the shared memory.
Holders == {t \in Threads : pc[t] \in {"check", "push", "notify", "unlock", "pop"}}

\* message_queue.h:29-37 asks for the process lock around every operation on
\* the queue: no two threads, of whatever process, are inside at a time. The
\* semaphore is 1 when nobody is inside and 0 when somebody is, be it a thread
\* of a process that died: a lock is neither lost on some early return of the
\* loops nor given back twice.
LockInv ==
    /\ rwLock \in {0, 1}
    /\ rwLock = 1 => Holders = {}
    /\ rwLock = 0 => \E t \in Holders : Holders = {t}

Bearers   == {d \in Dispatchers : pc[d] \in {"stopcheck", "lock", "pop"}}
Notifying == {s \in Senders : pc[s] = "notify"}

\* Each count of readSmp, and each thread that took one and did not use it yet,
\* stands for a message of its own in the queue, until uninit posts its
\* wake-ups: no dispatcher reads an empty queue (the log line "Received read
\* signal for empty queue" does not appear).
TokensCovered ==
    ~stop => readSmp + Cardinality(Bearers) + Cardinality(Notifying) <= Len(queue)

\* And when the lock is always to be had in time, and no process dies and no
\* allocation fails, each message has its count: none is left behind.
NoTokenLost ==
    ~stop => readSmp + Cardinality(Bearers) + Cardinality(Notifying) = Len(queue)

\* From stop_ on there is a wake-up, in readSmp or still to be posted by uninit,
\* for every dispatcher that waits for one, whatever counts those that were
\* awake take: uninit posts as many as there are threads, and a thread takes at
\* most one after stop_ is set. When uninit has begun to join, all are posted.
ToPost == IF owner = "posting" THEN Cardinality(Dispatchers) - notified ELSE 0
WakeupsSuffice ==
    stop => Cardinality({d \in Dispatchers : pc[d] = "wait"}) <= readSmp + ToPost

\* No room appears while a sender waits for it in checkSpaceAndWait (sender.h:32
\* has a limit to "waiting call queue availability"): the sender holds the lock
\* that the dispatchers need to pop. The wait can only end in failure.
WaitIsFutile ==
    [][\A s \in Senders : pc[s] = "check" /\ pc'[s] = "check" => queue' = queue]_vars

\* Every message that is reported as sent, or whose sending still goes on after
\* it was pushed, is handled, unless the owner stops.
EveryMessageHandled ==
    \A m \in Messages : (m \in Range(queue)) ~> (m \in handled \/ stop)

\* uninit returns: it joins every dispatcher, whatever the senders do or
\* wherever they die.
UninitTerminates == (owner = "posting") ~> (owner = "closed")

\* The senders' reports are true, no message is popped twice, and messages are
\* popped in the order of the pushes.
Post == INSTANCE Mailbox
ImplementsMailbox == Post!Spec
=============================================================================
