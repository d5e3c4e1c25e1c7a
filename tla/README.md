# veigar in TLA+

veigar is a C++ library for remote calls between processes of one machine. An
instance binds functions to names; another instance calls them by the name of
the instance and the name of the function. Everything travels through queues in
shared memory, guarded by semaphores of the system. This directory holds a model
of that library, the TLC runs that check it and the proofs about it. The
reference is the code under `src/` in its POSIX build, with the default macros
of `include/veigar/config.h` (three threads per pool, 30 ms for the process
lock); where a document or a comment says something else, the model follows the
code and the section *Divergences* says so.

Contents: [the system](#the-system), [the modules](#the-modules),
[the runs](#the-runs), [fairness](#fairness), [the proofs](#the-proofs),
[divergences](#divergences), [what is not modelled](#what-is-not-modelled).

## The system

    client thread                                       called instance
    syncCall / asyncCall                                 CallDispatcher threads
      | addCall                                            | waitForRead, lock,
      v                                                    | popFront, unlock,
    callList_  --> Sender call workers                     | run the function,
                    | addOngoingCall, lock, room?,         | addResp
                    | pushBack, notifyRead, unlock         v
                    +------> call queue in shared memory   respList_
                                                           |
                             response queue <--------------+  Sender response
      future / callback          |                            workers
         ^                       v
         +---------------- RespDispatcher threads of the caller

| Component | State | Operations | Talks to |
| --- | --- | --- | --- |
| **MessageQueue** (`message_queue.cpp`) | a block of shared memory: the limits, `curMsgNumber`, `frontFree`, the sizes and the bytes of the messages; two semaphores by name, `rwLock` and `readSmp` | create, open, close, processRWLock/Unlock, pushBack, popFront, msgNumber, checkSpaceSufficient, waitForRead, notifyRead | shared by all processes that know the name |
| **Sender** (`sender.cpp`) | `callList_`, `respList_`, one mutex and one Event each, two pools of workers, the caches of opened target queues | init, uninit, addCall, addResp, the two worker loops, checkSpaceAndWait | fills queues of other instances; enters calls in RespDispatcher; sets promises and runs callbacks of calls it could not send |
| **Event** (`event.cpp`) | `isSet_`, `isCancelled_`, a condition variable | wait, set, unset, cancel | Sender |
| **CallDispatcher** (`call_dispatcher.cpp`) | `funcs_`, the call queue of the instance, `stop_`, a pool of threads | bind, unbind, the dispatch loop, uninit | runs bound functions, which may call again; hands responses to Sender |
| **RespDispatcher** (`resp_dispatcher.cpp`) | `ongoingCalls_` and its mutex, the response queue, `stop_`, a pool of threads | addOngoingCall, releaseCall, the dispatch loop, uninit | sets promises, runs callbacks, which may call again |
| **Veigar** (`veigar.cpp`, `veigar.inl`) | `isInit_`, the uuid, `callIndex_`, the three parts above | init, uninit, syncCall, asyncCall, releaseCall, getNextCallId | the application |
| **Semaphore, SharedMemory** (`semaphore.cpp`, `shared_memory.cpp`) | a named object of the system | create, open, close, wait, release | MessageQueue |
| msgpack, call wrapping, logging, strings, uuid | none that threads share | conversion | everywhere |

What is hard in it, and what must hold:

* **The block of shared memory.** Addresses are computed from counters and sizes
  that several operations update, and none is checked. The messages must stay
  inside the block, and readers must get the bytes that were pushed, in order,
  whatever moves happen in between.
* **Sharing a queue.** A semaphore with a time limit serves as the lock, and a
  second one counts the messages. Waits time out, allocations throw, processes die
  with the lock in their hands, the owner shuts down. One thread at a time may be
  inside; counts and messages must agree; reports to senders must be true; uninit
  must find enough wake-ups for threads that wait without a limit.
* **The lists of the Sender.** The flag of the event is neither set nor cleared
  under the mutex of the list. No item may be overlooked, sent twice or freed
  twice, and uninit must return and free everything.
* **A call from end to end.** The entry of a call, its promise, its message and
  its response are in the hands of different threads. A call must be completed at
  most once, what the caller is told must be true of whether the function ran, the response must
  find the entry, entries must not pile up, and every caller must get an answer,
  although functions and callbacks hold threads of the pools they wait for.
* **Coming and going.** A channel is six named objects, created and unlinked one by
  one with nothing that covers them as a whole; names outlive crashes, peers keep
  handles. An init that fails must take back its own objects and no others; a peer
  must not mix the memory of one instance with the lock of another. An instance is shut
  down under running calls: every future must be settled, and uninit must return.
* **Limits of time.** Milliseconds become deadlines, microseconds in 32 bits and slices of a
  wait; a slip at a boundary makes a limit fail at once, or last for good.

## The modules

| Module | Models | Abstract specification it implements |
| --- | --- | --- |
| `MessageQueue` | the operations on the block of shared memory | `BoundedFifo` |
| `Channel` | one queue, the workers that push into it, the dispatchers that pop, crashes, the dispatchers' uninit | `Mailbox` |
| `SendList` | the two lists of a Sender, their events and workers, Sender::uninit | |
| `Rpc` | calls of all three kinds between instances, from the caller's thread and back, and the uninit of instances | `RemoteCall` |
| `CallId` | the identifiers of calls and the map keyed by them | |
| `Lifecycle` | init and uninit of instances under one name, the named objects, crashes, peers that open them | `Claim` |
| `TimeLimits` | the arithmetic of deadlines, limits and waits, with its theorems | |
| `MCMessageQueue`, `MCChannel`, `MCSendList`, `MCRpc`, `MCCallId`, `MCLifecycle` | the small instances that TLC explores | |
| `MessageQueueProofs`, `ChannelProofs`, `ChannelCountProofs`, `SendListProofs`, `RpcProofs`, `CallIdProofs`, `LifecycleProofs` | theorems and proofs | |

The first four models look at the same program at four depths, each taking for granted
what the one before shows: `Channel` takes a queue operation under the lock for
one step and a message for one place in a sequence (`MessageQueue` shows that the
block is that sequence); `SendList` takes the sending of an item for one step
(`Channel`); `Rpc` takes lists and queues for places where a call is, with a
failure or a loss as a choice of the environment (`SendList` and `Channel` show
when they occur). `Lifecycle` has the same objects by their names only: which of them
exist, whose they are, and who has them open. Definitions whose comment begins with "mutant" are changed
copies of the definition that follows them, plausible slips that the properties
must notice; no specification uses them.

### MessageQueue

Variables are the fields of the block (`curMsgNumber`, `frontFree`, `msgDataSize`,
`msgData`) and `ret`, what the last call returned. `PushBack`, `PopFront`,
`CheckSpaceSufficient` and `MsgNumber` are the functions of these names. Each runs
under the process lock in the program and is one action here. A message is a
sequence of bytes, so that a byte that lands in the wrong place is seen. Both moves
inside the block (`message_queue.cpp:219` and `:287`) are a `memcpy` between ranges
that overlap, which is undefined. `CopyOrders` lists what the build's memcpy may
do; see *Divergences*. `BoundedFifo` is the promise: a queue bounded in number and in
bytes that refuses what does not fit, and tells a reader with a small buffer how
large the first message is. The refinement mapping reads the queue off the block
(`QueueOf`).

### Channel

`pc[t]` is where a thread is between two accesses to shared state. A sender goes
`idle, lock, check, push, notify, unlock, report` (`sender.cpp:199-264`), a dispatcher
`wait, stopcheck, lock, pop, unlock, handle, loop, done` (`call_dispatcher.cpp:166-272`;
`resp_dispatcher.cpp:79-229` is the same loop), and the owner's uninit `running,
posting, joining, closed`. `rwLock` and `readSmp` are values of semaphores, not
owners: nothing in the program knows who holds the lock, and the model does not
either. `outcome` is what the sender of a message was told. Environment choices,
with their constants: the wait for the lock reaches its limit (`LockTimeouts`), an
allocation throws (`AllocFailures`), a sender's process dies at any point
(`Crashable`); the wait for room may reach its limit at any time (`NoSpace`). A dead sender keeps its place in
`pc`, so a lock it held stays taken.

`Mailbox` is the promise to both sides: deposited at most once, taken at most once and
in order of deposit, "sent" told only of deposited messages and "failed" only of
messages that are not and never will be.

### SendList

`list`, `isSet`, `isCancelled` are the fields of the two lists and the two events;
`adding` is where the thread is that brings an item (on the list, then event set);
`pc` and `cur` are a worker's place and the item it holds; `freed` are the buffers
freed; `owner` walks through Sender::uninit. An access to a list is one step because it
is made under the list's mutex. `Wake` is `wait(30)` returning true. The last loop of
uninit is modelled as it stands, with the test of the wrong list: `FreeResps` is what
it does when `callList_` is empty, `FreeRespsRunsAway` what it does when a call
has come in since. `late` remembers the items that were put on a list after uninit had begun; no
action depends on it.

### Rpc

For each call `user` is what its caller does, `send` how far the worker is with it, `at`
where its message or response is, `answer` what the response says, `ongoing` the entries of `ongoingCalls_`, `result` and
`completions` what the promise or callback got and how often, `ran` the calls whose function was
called. `Info` says who calls whom, how, and from where: from a client thread, from the
function of another call or from its callback. Pools are counted
(`FreeCallDispatcher` and the like), so that a function or a callback that waits for
a nested call holds a thread. Environment choices: a call is refused or cannot be
pushed (`SendFailures`), a message is lost (`Losses`), a user releases a call before it was
completed (`EarlyRelease`), an instance is uninitialized (`Stoppable`), a call names no function or passes other arguments (`Unrunnable`), a function or a callback throws
(`Throws`), the unpacking of a response throws (`Unreadable`).

What the caller gets is one of five things, which `ErrorCode` does not tell apart: `value`; `remote`, an error of the target (SUCCESS with an `errorMessage`, `call_result.h:18`), which comes from a function that threw (`RespondError`,
`call_dispatcher.cpp:151`) as from one that does not exist (`RejectCall`, `:141`); `unsent` (FAILED or TIMEOUT of the sender); `unread` (FAILED too: the code stays at its default when `resp_dispatcher.cpp:207` catches an exception); and `broken`, the exception of a promise
dropped by uninit. A response that is dropped before its call is known, and a call that is dropped because it cannot be unpacked, are lost (`Lose`).

A call that cannot be sent is reported by the calling thread (`BeginRefused`). Its callback runs inside the try block of `doAsyncCallWithCallback`, and the handler of that block calls it as well (`veigar.inl:153`, `:161`): if packing the call threw (`BeginThrows`), or if the callback itself
did (`InlineCallbackRunsAgain`). An exception out of the handler, or one that is no `std::exception`, leaves `asyncCall` (`InlineCallbackThrows`). A function or callback that throws has made none, or some, of its nested calls, and none of them is under way (`NestedLeft`). A callback that throws on a thread of
a pool ends the process, and there is no step for it: what the safety properties say holds up to then, and for the instances that remain a dead process is one whose messages are lost.

`life[i]` walks through Veigar::uninit of instance `i` (`veigar.cpp:103`): `Cancel` cancels the events of
the lists; `ResetSender` joins the workers, drops what is on the lists and resets `sender_`; `StopCalls` joins the
threads that run functions and closes the call queue; `StopResps` joins those that run callbacks, closes the response
queue and clears `ongoingCalls_`. A call dropped on the way takes the last owner of its promise with it, which
breaks the promise (`Break`): the future throws. From then on calls are refused and responses of that instance are lost.
`RemoteCall` is the promise to the caller.

### CallId

`GetNextCallId`, `AddOngoingCall` and `ReleaseCall` are the functions of these names:
the counter `callIndex`, the calls that wait for a worker (`listed`), those that a worker has
entered, and `ongoingCalls`, the map from identifiers to promises. An identifier is the function's
name and the decimal digits of the counter, joined without a separator
(`veigar.cpp:237-242`); the uuid in front is the same for all calls of an instance and
left out. `Rpc` keys `ongoing` by the calls themselves, which `EntryIsOwn` of this module
justifies for names that do not end in a digit.

### Lifecycle

`dir` is the directory of the system: whose object stands under each of the six names of a channel. A *life* is one
attempt to be the channel, from init to uninit, by the same process or another; `pc` is where it is, `made` the objects it
created and has still to unlink. `Create` is exclusive (`O_EXCL`); `CreateFails` stands for a name that exists and for
everything else the system may refuse. `Unlink` goes by the name, whoever's object is under it: that it is always its own is a
property. `Before` is the order of unlinking, which differs between uninit and the cleanup of an init that failed.
`handle` is what a peer has open of the call queue (the response queue is opened by the same code). `rushed` remembers the lives
that began while another still had names to unlink. `Claim` is the promise: one owner at a time, none after a crash that
left names.

### TimeLimits

`Deadline` and `Carry` are `Semaphore::wait(ms)`, `CallTimeout` is the limit that `sendCall` writes into the call,
`WaitMS` the slice that `checkSpaceAndWait` waits next. There is no state and no run: the theorems hold for all inputs.

## The runs

States are distinct states. All runs are exhaustive for their instance.

| Run | Instance | Question and answer |
| --- | --- | --- |
| `message_queue` (148 000 states) | 3 messages, 6 bytes; messages of 1, 2, 3, 4 and 7 bytes; buffers of 0, 2 and 8 | `LayoutInv`: nothing is written beyond the block. `CheckAgreesWithPush`: the two copies of the space computation agree. `ImplementsFifo`: bytes come out as they went in and every call returns what a bounded queue would. All hold with a memcpy that walks upwards. |
| `channel` (110 000) | 2 senders, 2 dispatchers, 3 messages, one of them too large for the queue; room for 1; no lock timeouts, no failures | `NoTokenLost`: each message has exactly one count. `EveryMessageHandled`: what was pushed is handled, unless the owner stops. |
| `channel_faults` (1 276 000) | the same threads, 3 messages, room for 2, everything may fail, one sender may die | `TokensCovered`: no dispatcher reads an empty queue before uninit. `WakeupsSuffice`: uninit posts enough. `ImplementsMailbox`: reports are true. |
| `channel_uninit` (698 000) | room for 1, lock timeouts, one sender may die with the lock | `LockInv`: at most one thread inside, and the semaphore's value says so. `WaitIsFutile`: the queue does not change while a sender waits for room. `UninitTerminates`: the dispatchers can always be joined. |
| `channel_lost_token` | 3 messages, room for 2, lock timeouts | *violated* `EveryMessageHandled`: see Divergences 1 |
| `send_list` (278 000) | 2 call workers, 1 response worker, 2 calls, 1 response, additions at any time until uninit has returned | `NoLostWakeup`: someone will look at every item that was not cancelled. `OnePlaceOnly`: nothing is sent or freed twice. `EveryItemSent`. `UninitReturns`, unless a call is added while it runs. `CallsReleased`: every call that was there when uninit began is freed. |
| `send_list_resps` | the same | *violated* `RespsReleased`: see Divergences 2 |
| `rpc` (78 000) | 2 instances, pools of 2, 5 calls: all kinds, made by clients, functions and a callback; sends may fail; both instances may be uninitialized | `EveryCallCompletes` while no instance goes away; `NoStandstill`: as long as anybody waits, some thread can go on; `ResponseFindsCall`, `NoCallLeaks`; `UninitReturns`, unless a callback or a function on one of its threads waits for a nested call (Divergences 12). |
| `rpc_faults` (846 000) | 4 calls: one function that may throw while it has made an asynchronous call, one callback that may throw while it has made a synchronous one, one call that is rejected and one whose response may not be unpacked; losses, early releases, and the uninit of both instances | `CompletedAtMostOnce`: nothing is completed twice, except that a callback which throws on the thread of its caller is called again (Divergences 18). `PromisesSettled`: after uninit no future waits. `ImplementsRemoteCall`: a value means that the function ran, `unsent` that it did not and will not, and nothing runs after the answer. |
| `rpc_pool` | pools of 2 and two callbacks that call | *violated* `EveryCallCompletes`: see Divergences 3 |
| `call_id` (20 000) | names `f`, `g` and `f1x`, a counter modulo 22, two calls under way at a time | `EntryIsOwn`: each call under way has an entry of its own, in whatever order workers enter them. |
| `lifecycle` (184 000) | 3 lives under one name, 1 peer; any creation may fail, any life may be killed | `OwnerHasItsNames`: nobody unlinks or replaces a name of the initialized instance. `NamesFreed`: who fails or leaves leaves nothing behind. `LiveMemoryGuarded`: a peer with the memory of the initialized instance has its lock too, unless that instance began in a hurry (Divergences 13). `ImplementsClaim`. |

Each model's type invariant, `TypeOK`, is checked by one of its runs.

**Why these bounds are enough to be interesting.** In the queue, three messages in six bytes
give free space at the front, at the tail and at both, moves of one message and of two, by
a distance smaller and not smaller than what is moved, refusals by number, by size and for
good, and a reader whose buffer is too small. In Channel, two threads on either side
are the fewest that get in each other's way, and three messages overfill every queue
used; the proofs remove these bounds for all safety properties. In SendList two calls
for two workers let both be busy, one find the list empty because the other took both, and a call come in on either side of uninit. In Rpc
two threads per pool are the fewest with which a callback may call at all, and the five
calls contain each kind and each site, an asynchronous call whose caller waits in a function among them. `rpc` leaves exceptions out, which `rpc_faults` has with one call less: they end nested calls early and so multiply the
interleavings.
In Lifecycle three lives are one that has the channel, one that leaves or fails, and one that comes at the same time; they are
interchangeable, so the run uses symmetry (`Claim`'s owner is a `CHOOSE` from a set of one, and the property has no liveness in it); peers
only look, and each sees what any other would. The counter modulo 22 has indexes of one
digit and of two and wraps around. `MsgMaxNumber`, the sets of messages, items and calls,
`IndexModulus` and `MaxCalls` are the only bounds: no counter is cut off by a constraint, with one
exception. `ChannelFaults.cfg` has `CONSTRAINT LockIntact`: once an exception handler has given
back a lock that its thread did not hold (Divergences 7), two threads may be inside the
queue at once, which Channel, with its one-step operations, does not describe.

Deadlock is not checked where the system comes to rest: after uninit, when all
messages are handled, or all calls made. `MessageQueue` never rests; deadlock is
checked there, and in `CallId`. That the others do not stop early is what their liveness properties say.

## Fairness

* Channel: every thread that can take a step does in the end (weak fairness of its steps
  taken together). Nothing makes a worker find work (`TakeUp`), the owner call uninit
  (`Stop`) or a process die (`Crash`). Weak fairness of *the thread* is what an operating
  system gives; no fairness is assumed between threads that compete for `rwLock`, so a thread
  may lose every race for it. With `LockTimeouts` each thread at the lock can always do
  something (take it or give up), and `UninitTerminates` needs no more. Without,
  `EveryMessageHandled` holds because competitors run out of messages: the instance is finite.
* SendList: workers, uninit once begun, and a thread between putting an item on a list and
  setting the event go on. `Wake` is weakly fair because `wait(30)` returns after
  30 ms at the latest and looks at the flags again.
* Rpc: threads go on; a function or callback that makes calls makes them (`Begin` or `BeginRefused` for calls
  that are not made by clients); a user releases a call once it got its result; uninit, once begun, goes on when the threads it joins are
  through (`Stop`). A pool whose instance has told it to stop need not take anything more (`KeepsTaking`), though it still may: a worker that had
  looked at the event before it was cancelled takes one. Nobody has to make a call or to call uninit in the first place;
  failures and losses are never fair.
* MessageQueue, CallId and Lifecycle have no fairness and no liveness properties.

## The proofs

The proofs hold for every value of the constants that meets the `ASSUME` of the module:
any finite pools, any sets of messages and calls, any combination of faults, except where
a hypothesis is named. TLC checked each inductive invariant before it was proved.

| Theorem | States | Under |
| --- | --- | --- |
| `ChannelTypes` | `TypeOK` | |
| `LockIsSound` | `LockInv` | `AllocFailures = FALSE` |
| `WaitingIsFutile` | `WaitIsFutile` | `AllocFailures = FALSE` |
| `CountsAreCovered` | `TokensCovered` | |
| `NoCountIsLost` | `NoTokenLost` | `LockTimeouts = AllocFailures = FALSE` |
| `WakeupsAreEnough` | `WakeupsSuffice` | |
| `ChannelImplementsMailbox` | `ImplementsMailbox` | |
| `SendListTypes`, `NothingOverlooked`, `EachInOnePlace`, `UninitFreesCalls` | `TypeOK`, `NoLostWakeup`, `OnePlaceOnly`, `CallsReleased` | |
| `RpcTypes`, `CompletedOnce`, `ResponsesFindCalls`, `UninitSettlesPromises` | `TypeOK`, `CompletedAtMostOnce`, `ResponseFindsCall`, `PromisesSettled` | |
| `CallsDoNotLeak` | `NoCallLeaks` | `EarlyRelease = FALSE` |
| `NobodyWaitsInACircle` | `NoStandstill` | |
| `EveryStepAdvances` | every step takes a call or an uninit further, and none back | |
| `RpcImplementsRemoteCall` | `ImplementsRemoteCall` | |
| `CallIdTypes`, `EveryEntryIsOwn` | `TypeOK`, `EntryIsOwn` | |
| `DigitNamesClash` | call 10 of a name and call 0 of the name followed by `1` have one identifier | `IndexModulus > 10` |
| `LifecycleTypes`, `NamesAreTheOwners`, `NamesAreFreed`, `LiveMemoryIsGuarded` | `TypeOK`, `OwnerHasItsNames`, `NamesFreed`, `LiveMemoryGuarded` | |
| `LifecycleImplementsClaim` | `ImplementsClaim` | |
| `MessageQueueTypes`, `MessagesStayInside`, `RoomIsRoom` | `TypeOK`, `LayoutInv`, `CheckAgreesWithPush` | `CopyOrders = {"ascending"}` |
| `MessageQueueImplementsFifo` | `ImplementsFifo` | `CopyOrders = {"ascending"}` |
| `DeadlineIsExact`, `LimitIsKept`, `LongLimitIsCut`, `WaitEndsInTime` | the arithmetic of `TimeLimits` | |

**MessageQueue.** `TypeOK /\ LayoutInv` is inductive, once it is known what a push and a pop do to the sum of the sizes.
`SizeUpTo` is the size of a set of cells, one for each byte of each message (`Cells`), so that sums become cardinalities: a range of
messages splits into two (`SplitTotal`), depends on its own sizes only (`SameTotal`) and keeps its total when the sizes move down
one place (`ShiftTotal`, which is what the memcpy of a pop does, if it walks upwards). No induction is needed.

**MessageQueue implements BoundedFifo.** `QueueOf` reads the queue off the block: message `i` begins behind the sizes before it. `BoundedFifo` counts its bytes as
pairs of a message and a place in it; these are as many as the cells (`QueueBytes`), so the queue fits a message when the block does (`FitsIsSpace`). A push writes behind all
messages, or first moves them all to the front, and either way each byte has the place where the new block looks for it (`DataAfterPush`, `PushQueue`); a pop moves the sizes down and the front up, so that message `i + 1`
becomes message `i` where it stands (`PopQueue`). With a memcpy that walks downwards the moved sizes and bytes are copies of copies, and the theorem is false (Divergences 6).

**Channel: types and lock.** `TypeOK` alone is not inductive: `Push` appends `cur[s]`, which
must not be `NoMessage` then. `InHand` adds that a thread about to push or to handle has a message in
hand. `LockInv` is inductive together with `TypeOK`: three lemmas (the lock is kept, taken,
given back) cover every step. The hypothesis is needed: with a failing allocation, a thread gives
back a lock it never had, and TLC violates `LockInv` at once. `WaitIsFutile` follows from the lock:
a thread that changes the queue is inside, and so is the one that waits.

**Channel: counts.** The sum `Debt` (counts, threads that took one, threads about to post
one) changes with the length of the queue, step by step. A lock wait that times out, or
an allocation that fails after the count was taken, lowers the sum; nothing but uninit raises it
alone. So `<=` holds always before uninit and `=` when nothing of that kind happens. How
cardinalities of sets of threads change when one thread moves is one lemma, `OneMoves`. From `stop_`
on, a dispatcher that consumes a wake-up never waits again, so that the number of
waiting dispatchers never exceeds what is posted or to be posted; `OwnerInv` says that `stop` and
the place of uninit go together, and that all is posted when the joining begins.

**Channel implements Mailbox.** `MailInv` says what each sender's place and error code
tell about its message: before the push it is nowhere in the queue and the code is not SUCCESS;
from the push on it is in the queue or was popped; at the report the code is SUCCESS exactly when
it was deposited; and no two senders have the same message. The code sets SUCCESS two steps after the
push, and a sender may die, time out or throw in between: this is why reports could be wrong
and why the proof is worth having. It assumes nothing about the lock: the promise survives
even a lock given back twice, as far as the one-step operations of Channel describe that.

**SendList.** `NoLostWakeup` is inductive with `TypeOK`. The step that matters is a worker that
finds the list empty, after which nobody may be looking: then there is nothing to look for.
`OnePlaceOnly` needs `PlaceInv`: an item that was not brought yet (`NewInv`) is on no list, in no
hand and not freed, so that bringing it cannot make a second place for it. `CallsReleased` needs `ReleaseInv`: each call that was brought before
uninit began is freed, or in a hand, or on the list as long as the list was not swept (`Tracked`); hands hold items of their own pool, and the workers of
the calls are joined before the sweep, so that no hand is left then. The same argument fails for the responses at the test of the wrong list.

**Rpc: the course of a call.** `CallInv` is `Course(c)` for each call: in terms of `send[c]` and `at[c]`, when the
function can have run, when there can be an answer and of what kind, when there can be a result, and that `completions` is 0 exactly when there
is none, and 2 only for a callback that was called again (`RunAgain`): it was never sent, so that neither worker nor dispatcher has it. The worker completes only a call that it could not push, which therefore has no response; the dispatcher only one whose response came
back; and uninit only one that neither can complete any more, because the joins come first (`SenderGone(From(c))` implies that no worker has it, `life = "down"`
that no response of it is in the queue or in a hand). The refinement maps `result` and `user` to the phase of the caller; each step of a call changes the
phase of that call only (`PhaseMoves`, `PhaseStays`), and a step of uninit breaks open phases.

**Rpc: entries and promises.** `Entry(c)` says when `ongoingCalls_` has an entry and when it cannot: from the moment a worker picks the call up until its response
was handled, unless its user released it. `Promise(c)` says who may still set a promise that somebody waits for: the worker, or by way of the entry the dispatcher or
uninit. `ResponseFindsCall` and `NoCallLeaks` are read off the first, `PromisesSettled` off the second: when the lists were emptied, no worker has a call and the entries are gone,
nothing of the right side is left, so nothing of the left. Without `EarlyRelease = FALSE`, a worker may make the entry after the release (Divergences 10).

**Rpc: nobody waits in a circle.** Functions and callbacks hold a thread while they wait for calls that need threads themselves. `NoStandstill` says when that goes well: if at each instance the calls whose functions call, and those whose
callbacks call, are fewer than the threads of the pools they hold (`PoolsSuffice`), nothing gets lost and no instance leaves, then some thread can go on as long as anybody waits (`Ready`). Suppose none can. A thread of a pool is then held by a function or a callback that
made a call (`HeldByNested`), so that no pool is full (`ThreadsAreFree`); hence nothing is on a list or in a queue, and by `AnswerInv`, which says that a call that is nowhere on its way has its result, whoever waits waits for a
function that runs (`WaitsForFunction`), and that one for a call made after it. The most deeply nested of these calls waits for nobody. That calls are finitely many and made by calls made before them is `NestingAssumption`. `rpc_pool` shows that `PoolsSuffice` is needed.
`EveryStepAdvances` is the other half of `EveryCallCompletes`: each step is one of 17 that a call, or four that an instance, has before it at most, so that the threads go on until none is ready. What remains with TLC is that a thread that is ready takes its step.

**CallId.** `EveryEntryIsOwn` rests on `CallIdInjective`: from an identifier the name and the number can be told, if names do not end in a digit. `Decimal` is a recursive function. That it is defined at all (`TableExists`), that it gives digits only (`DecimalShape`)
and that no two numbers have the same digits (`DecimalInjective`) are each proved for the least number that would be an exception, which the well-founded order of the naturals provides; that takes the place of an induction. Where one of two identifiers with the
same characters had the longer name, that name would end in one of the other's digits (`NameNotLonger`). `DigitNamesClash` shows what happens without the condition (Divergences 11).

**Lifecycle.** `NamesInv` says that what a life has to unlink is exactly what it finds under the names (`Unlinks`), and at which stage it has how much. So unlinking by name never hits
another's object, which is not evident from the code: `close` looks at no owner. `LiveMemoryGuarded` needs `HandleInv`: as long as a life that did not rush has its memory under
its name, everybody else has nothing to unlink or was killed (`Alone`); a peer that has this memory and another part has that part of a killed one (`Guarded`), whose name is then taken for good, so that the life
never comes up. The refinement of `Claim` maps the owner to the life that is up.

**TimeLimits.** Linear arithmetic; what is worth a proof is that one carry is enough, and where the 32 bits end.

**Only model-checked.** Everything temporal that needs fairness (`EveryMessageHandled`, `UninitTerminates`, `EveryItemSent`, `UninitReturns` of SendList and of Rpc,
`EveryCallCompletes`): liveness and ENABLED are out of the prover's reach. What these need of safety is proved: `NoTokenLost` and `WakeupsSuffice` for Channel, `NoLostWakeup` for SendList, `NoStandstill` and `EveryStepAdvances` for Rpc. Every
invariant, action property and refinement that a passing run checks is stated by a theorem.

## Divergences

What the code does and a comment, a document or an evident purpose contradicts. The first three
have a run that shows a behaviour.

1. **A count taken, a message left behind** (`call_dispatcher.cpp:184`, `resp_dispatcher.cpp:100`; run
   `channel_lost_token`). The dispatcher waits for `readSmp` and then for the lock. When the lock does
   not come within 30 ms it goes back to the first wait. The count is gone, the message is not: it is popped
   only when another message brings another count, and then one message is always left.
2. **Responses are not freed** (`sender.cpp:94`; run `send_list_resps`). The loop below "release all responses memory" runs
   while `callList_` is not empty, and it has just been emptied.
3. **Callbacks that call** (`resp_dispatcher.cpp:222`; run `rpc_pool`). Callbacks run on the dispatchers of responses.
   When as many of them as there are threads make synchronous calls, the responses have no dispatcher left. A
   `timeoutMS` (`veigar.h:159`, "The maximum time to wait for the response") does not help: it limits the wait of
   the sender for room, and `syncCall` waits for the future without limit (`veigar.inl:52`).
4. **Waiting for room while keeping everybody out** (`sender.cpp:209`; `WaitIsFutile` and theorem
   `WaitingIsFutile`). `checkSpaceAndWait` runs with the process lock held, so no dispatcher can make room. The
   wait ends in TIMEOUT, always, and no other thread can use the queue meanwhile; with (1), it also costs
   the dispatchers that time out meanwhile their counts. `sender.h:32` speaks of "the timeout for
   waiting call queue availability".
5. **A call added during uninit** (`sender.cpp:94`). If a call comes in after the first loop of uninit, the second frees the responses
   and then calls `front()` on an empty queue. `UninitReturns` of SendList allows for it; without its last disjunct TLC finds the case.
6. **Overlapping memcpy** (`message_queue.cpp:219`, `:287`). With `"descending"` in `CopyOrders`, TLC violates `ImplementsFifo`: sizes
   or bytes are overwritten before they are copied. C leaves this undefined; `memmove` would not.
7. **A lock given back that was not taken** (`sender.cpp:235` and its twin for responses). The assignment to `errMsg` after a failed wait
   for the lock can throw; the handler unlocks. `LockInv` is violated with `AllocFailures = TRUE`: the semaphore
   reaches 2, or a thread enters while another is inside.
8. **The full queue** (`message_queue.cpp:197`). `veigar.h:60` says that the oldest message is discarded when the limit is reached; the
   code refuses the new one, and `BoundedFifo` says so too.
9. **A lost response is waited for for good** (`veigar.inl:52`, `sender.cpp:348`). A response that cannot be pushed is logged and
   dropped. `EveryCallCompletes` is violated with `Losses = TRUE`, and so is `NoCallLeaks` for a call with a callback:
   only its response removes its entry (`resp_dispatcher.cpp:225`), while `README.md:146` tells users that such a call needs no
   release.
10. **Released too early** (`sender.cpp:193`). `veigar.h:148` allows to release a call "when the result is no longer needed". If
    that happens before the worker has entered the call in `ongoingCalls_`, the entry comes afterwards and, if the response is lost or sent to
    a promise, stays. `NoCallLeaks` is violated with `EarlyRelease = TRUE`.
11. **Two calls, one identifier** (`veigar.cpp:240`). Call 0 of `f1` and call 10 of `f` have the same one. `EntryIsOwn`
    leaves out names that end in a digit; with `f1` among the names and without that condition TLC violates it.

12. **uninit hangs on threads that wait for calls** (`veigar.cpp:103`, `sender.cpp:51`, `call_dispatcher.cpp:79`, `resp_dispatcher.cpp:57`). A callback that waits in `syncCall` waits for a response that
    needs a dispatcher of the instance, or for a worker that has exited. uninit joins the thread of that callback, and the promise it waits for is broken only by what uninit would do next.
    `UninitReturns` of Rpc names this case (`HeldByCallback`). A function that waits for a call is in the same place when the instance it calls leaves as well: the message is lost there with a handle to a queue that is gone, or stays in a queue whose dispatchers have been
    told to stop, and two instances that leave at the same time may wait for each other (`HeldByFunction`). Without either disjunct TLC finds the case. Otherwise the promises of calls under way are broken (`RemoteCall!Break`), and `syncCall`, which catches
    nothing (`veigar.inl:52`), throws `std::future_error`. Thrown out of a callback on a thread of a pool, that ends the process: dispatchers and workers run callbacks outside their try blocks. Out of a callback on the thread of its caller, it makes the callback run again (18). `veigar.h:190` says "std::promise will not set_exception forever".
13. **The lock of one, the memory of another** (`message_queue.cpp:372`). `close` unlinks the memory first and the lock after it. In between a successor can create its memory, and a peer
    can open it together with the lock that is about to go. If the successor then meets free names, it comes up, and that peer uses its memory under a lock that nobody else has. `LiveMemoryGuarded` leaves
    out such successors (`rushed`); without that TLC violates it in 17 steps. Unlinking in reverse order would close the gap.
14. **Uniqueness** (`README.md:83`). "Veigar does not validate channel name uniqueness". The exclusive creation of six objects does (`Claim`), and it is also why, after a crash, the name cannot be used
    again until somebody removes what was left (`shared_memory.cpp:136`).
15. **A peer that keeps its handles** (`sender.cpp:134`). After the target restarted, messages go to the queue that was unlinked, and are reported as sent; only the peer's own uninit drops the handles.
16. **A failed init** (`veigar.cpp:75-94`). With an empty name the cleanup dereferences `respDispatcher_`, which was never made. A failure at the response queue uninitializes the CallDispatcher, which clears
    `funcs_`: a second init succeeds and has no functions.
17. **Long limits** (`veigar.cpp:273`). `timeoutMS * 1000` is computed in 32 bits: theorem `LongLimitIsCut`.
18. **A callback run twice** (`veigar.inl:158`). When `sendCall` refuses a call, the callback is called inside the try block, and the handler of that block calls it once more if it throws, with the message of its own
    exception. A nested `syncCall` whose promise was broken is enough. `CompletedAtMostOnce` allows for it (`RunAgain`); without that disjunct TLC finds the case.
19. **FAILED, but it ran** (`resp_dispatcher.cpp:207`). An exception while the answer is unpacked gives the caller FAILED, as if the call had not been sent, although its function may have run. The comment on SUCCESS (`call_result.h:18`) covers the other
    direction only: SUCCESS does not mean that it ran. `RemoteCall` keeps the two failures apart (`unsent`, `unread`); a program can do so by the message at best.
20. **An asynchronous call that cannot be packed** (`veigar.inl:104`). The promise is set in the handler, but its future was not handed over yet: `asyncCall` returns one that is not valid, and `get()` on it is undefined. `syncCall` looks at `valid()` first.

## What is not modelled

* **Function registry**: `bind` and `unbind` change `funcs_`, an unordered_map without a lock, while dispatchers look functions up and run them through an iterator. Used
  before the first call, as the examples do, it is a constant map; used later, it is a data race without a defined outcome.
* **The contents of the named objects while they come and go**: a peer that has opened all three objects before `create` has cleared the memory
  (`message_queue.cpp:50`) may push a message that is wiped out; a peer with another capacity or message size opens the same memory with
  another layout (`sender.cpp:138`). Lifecycle has names and owners, MessageQueue one geometry.
* **Time**: only whether a limit is reached, not when. Waits are fair or may end at any time, whatever suits the property; the arithmetic is in TimeLimits, for a clock that does not go backwards.
* **A crash inside pushBack or popFront**: a process that dies there keeps the lock, and nobody looks at the block again; in Channel it dies before or after the operation, which nobody can tell apart.
* **Windows and macOS** variants of the semaphores and of the shared memory: same interface, other calls of the system. On Windows the names of a dead process vanish.
* **Allocations that fail inside `addCall` or `addResp`** (`sender.cpp:116`): the mutex of the list is locked by hand and stays locked, after which nobody can add or take an item any more. SendList has additions that succeed.
* **Packing, call wrapping, logging, uuid**: data without control that a property is about. Most of the lines of the repository are the vendored msgpack library under
  `include/veigar/msgpack` (with the preprocessor headers it needs), of which veigar uses packing and unpacking of one value at a time; the models take a packed message for
  the message it holds. The Python msgpack, the examples and the tests are clients.
