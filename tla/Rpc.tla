-------------------------------- MODULE Rpc --------------------------------
(***************************************************************************)
(* Calls between instances from end to end: Veigar::syncCall and asyncCall *)
(* (veigar.inl), the workers of the Sender (sender.cpp), the               *)
(* CallDispatcher that runs the bound functions and the RespDispatcher     *)
(* that completes the calls (call_dispatcher.cpp, resp_dispatcher.cpp).    *)
(*                                                                         *)
(* A call is in two places at a time: in the hands of the worker that      *)
(* sends it ("send"), and on its way through queues and dispatchers        *)
(* ("at"); its caller is in a third ("user"). Lists and queues are sets    *)
(* here: several threads take from each, so no order of two calls lasts    *)
(* from one to the next. Channel and SendList say what one list and one    *)
(* queue do.                                                               *)
(*                                                                         *)
(* Bound functions and callbacks may make calls of their own, and hold a   *)
(* thread of a pool while they wait for the results. An exception out of a *)
(* function becomes an answer; one out of a callback that the caller runs  *)
(* itself runs it again; one out of a callback on a pool thread ends the   *)
(* process, after which nothing of it takes a step.                        *)
(*                                                                         *)
(* An instance may be uninitialized at any time (veigar.cpp:103): its      *)
(* sender goes first, then the CallDispatcher, then the RespDispatcher;    *)
(* each waits for its threads and drops what is left in its hands.         *)
(***************************************************************************)
EXTENDS Naturals, FiniteSets

CONSTANTS
    Calls,
    Info,               \* of each call: from, to, kind, parent and site
    NoCall,
    DispatcherThreads,  \* VEIGAR_DISPATCHER_THREAD_NUMBER
    SenderThreads,      \* VEIGAR_SEND_CALL_THREAD_NUMBER and ..._RESPONSE_...
    SendFailures,       \* BOOLEAN: may a call be refused or not get into the queue?
    Losses,             \* BOOLEAN: may a queued call or a response get lost?
    EarlyRelease,       \* BOOLEAN: may a user release an asynchronous call that runs?
    Stoppable,          \* the instances that may be uninitialized
    Unrunnable,         \* calls that name no function, or pass other arguments
    Throws,             \* what may throw: the "function" or the "callback" of a call
    Unreadable          \* calls whose response may not be unpacked, for want of memory

Kinds == {"sync", "async", "callback"}

\* A call is made by a client thread (its parent is NoCall), by the function of
\* another call (site "function") or by the callback of one (site "callback").
Sites == {"client", "function", "callback"}

ASSUME RpcAssumption ==
    /\ NoCall \notin Calls
    /\ \A c \in Calls :
         /\ Info[c].kind \in Kinds
         /\ Info[c].parent \in Calls \cup {NoCall}
         /\ Info[c].site \in Sites
         /\ Info[c].site = "client" <=> Info[c].parent = NoCall
    /\ DispatcherThreads \in Nat \ {0}
    /\ SenderThreads \in Nat \ {0}
    /\ SendFailures \in BOOLEAN
    /\ Losses \in BOOLEAN
    /\ EarlyRelease \in BOOLEAN
    /\ Unrunnable \subseteq Calls
    /\ Throws \subseteq Calls \X {"function", "callback"}
    /\ Unreadable \subseteq Calls

\* A call is made by one that was made before it.
ASSUME NestingAssumption ==
    /\ IsFiniteSet(Calls)
    /\ \E depth \in [Calls -> 0 .. Cardinality(Calls)] :
         \A c \in Calls : Info[c].site # "client" => depth[Info[c].parent] < depth[c]

From(c)   == Info[c].from
To(c)     == Info[c].to
Kind(c)   == Info[c].kind
Parent(c) == Info[c].parent
Site(c)   == Info[c].site

Instances == {From(c) : c \in Calls} \cup {To(c) : c \in Calls}

VARIABLES
    user,         \* what the caller of each call is doing
    send,         \* how far the sending of each call is
    at,           \* where the message of each call, or its response, is
    ongoing,      \* ongoingCalls_ of the instances
    answer,       \* what the response to each call says
    result,       \* what the promise or the callback of each call was given
    completions,  \* how many times it was given something
    ran,          \* the calls whose function was called
    life          \* how far the uninit of each instance is

vars == <<user, send, at, ongoing, answer, result, completions, ran, life>>

Init ==
    /\ user = [c \in Calls |-> "idle"]
    /\ send = [c \in Calls |-> "idle"]
    /\ at = [c \in Calls |-> "nowhere"]
    /\ ongoing = {}
    /\ answer = [c \in Calls |-> "none"]
    /\ result = [c \in Calls |-> "none"]
    /\ completions = [c \in Calls |-> 0]
    /\ ran = {}
    /\ life = [i \in Instances |-> "up"]

-----------------------------------------------------------------------------
(* Threads. *)

Few(S, n) == Cardinality(S) < n

\* A thread of the pool is free at instance i.
FreeCallDispatcher(i) == Few({c \in Calls : To(c) = i /\ at[c] = "running"}, DispatcherThreads)

\* mutant: one thread of the pool takes no responses.
OneTakesNone(i) ==
    Few({c \in Calls : From(c) = i /\ at[c] \in {"delivering", "callback"}}, DispatcherThreads - 1)

FreeRespDispatcher(i) ==
    Few({c \in Calls : From(c) = i /\ at[c] \in {"delivering", "callback"}}, DispatcherThreads)
FreeCallWorker(i) ==
    Few({c \in Calls : From(c) = i /\ send[c] \in {"sending", "failed", "released", "callback"}},
        SenderThreads)
FreeRespWorker(i) == Few({c \in Calls : To(c) = i /\ at[c] = "answering"}, SenderThreads)

\* The function of call p is running, or the callback of p is, on a dispatcher
\* of responses, on a worker that failed to send p, or on the thread that made p.
InFunction(p) == at[p] = "running"
InCallback(p) ==
    at[p] = "callback" \/ send[p] = "callback" \/ user[p] \in {"callback", "handler"}

Complete(c, r) ==
    /\ result' = [result EXCEPT ![c] = r]
    /\ completions' = [completions EXCEPT ![c] = @ + 1]

\* uninit of i is past each of its three parts.
SenderGone(i)  == life[i] \in {"nosender", "nocalls", "down"}
CallsClosed(i) == life[i] \in {"nocalls", "down"}
RespsClosed(i) == life[i] = "down"

\* The calls that p makes from a site are made and over.
NestedDone(p, site) ==
    \A c \in Calls : Parent(c) = p /\ Site(c) = site => user[c] = "done"

\* An exception ends p there before some of them are made, or when they are over.
NestedLeft(p, site) ==
    /\ <<p, site>> \in Throws
    /\ \A c \in Calls : Parent(c) = p /\ Site(c) = site => user[c] \in {"idle", "done"}

-----------------------------------------------------------------------------
(* The caller. *)

MayBegin(c) ==
    /\ user[c] = "idle"
    /\ Site(c) = "function" => InFunction(Parent(c))
    /\ Site(c) = "callback" => InCallback(Parent(c))

\* What the caller does once the call is on its way: a caller with a callback
\* has nothing more to do with it.
Waits(c) == CASE Kind(c) = "sync"     -> "waiting"
              [] Kind(c) = "async"    -> "holding"
              [] Kind(c) = "callback" -> "done"

\* doAsyncCall and doAsyncCallWithCallback up to addCall.
Begin(c) ==
    /\ ~SenderGone(From(c))
    /\ MayBegin(c)
    /\ user' = [user EXCEPT ![c] = Waits(c)]
    /\ send' = [send EXCEPT ![c] = "listed"]
    /\ UNCHANGED <<at, ongoing, answer, result, completions, ran, life>>

\* sendCall returns false: there is no sender_, or no memory. The promise or
\* the callback is given the failure by the calling thread itself, the callback
\* inside the try block of doAsyncCallWithCallback.
BeginRefused(c) ==
    /\ SendFailures \/ SenderGone(From(c))
    /\ MayBegin(c)
    /\ user' = [user EXCEPT ![c] = IF Kind(c) = "callback" THEN "callback" ELSE Waits(c)]
    /\ send' = [send EXCEPT ![c] = "finished"]
    /\ Complete(c, "unsent")
    /\ UNCHANGED <<at, ongoing, answer, ran, life>>

\* Packing the call throws: the handler of the try block calls the callback. (A
\* promise is set there too, as if sendCall had refused; but the user of an
\* asynchronous call has no valid future then.)
BeginThrows(c) ==
    /\ SendFailures
    /\ MayBegin(c)
    /\ Kind(c) = "callback"
    /\ user' = [user EXCEPT ![c] = "handler"]
    /\ send' = [send EXCEPT ![c] = "finished"]
    /\ Complete(c, "unsent")
    /\ UNCHANGED <<at, ongoing, answer, ran, life>>

InlineCallbackReturns(c) ==
    /\ user[c] \in {"callback", "handler"}
    /\ NestedDone(c, "callback")
    /\ user' = [user EXCEPT ![c] = "done"]
    /\ UNCHANGED <<send, at, ongoing, answer, result, completions, ran, life>>

\* A std::exception out of a callback inside the try block, such as that of a
\* nested syncCall whose promise was broken, makes the handler call it again.
InlineCallbackRunsAgain(c) ==
    /\ user[c] = "callback"
    /\ NestedLeft(c, "callback")
    /\ user' = [user EXCEPT ![c] = "handler"]
    /\ Complete(c, "unsent")
    /\ UNCHANGED <<send, at, ongoing, answer, ran, life>>

\* Any other exception, and every one out of the handler, leaves asyncCall.
InlineCallbackThrows(c) ==
    /\ user[c] \in {"callback", "handler"}
    /\ NestedLeft(c, "callback")
    /\ user' = [user EXCEPT ![c] = "done"]
    /\ UNCHANGED <<send, at, ongoing, answer, result, completions, ran, life>>

\* syncCall: get() returns, without a time limit, when the promise is set. When it
\* was dropped unset, get() throws, and releaseCall is passed over.
Get(c) ==
    /\ user[c] = "waiting"
    /\ result[c] # "none"
    /\ user' = [user EXCEPT ![c] = IF result[c] = "broken" THEN "done" ELSE "got"]
    /\ UNCHANGED <<send, at, ongoing, answer, result, completions, ran, life>>

\* releaseCall, by syncCall after get(), or by the user of an asynchronous call
\* "either when obtaining the CallResult or when the result is no longer
\* needed" (veigar.h:148).
Release(c) ==
    /\ \/ user[c] = "got"
       \/ user[c] = "holding" /\ (EarlyRelease \/ result[c] # "none")
    /\ user' = [user EXCEPT ![c] = "done"]
    /\ ongoing' = ongoing \ {c}
    /\ UNCHANGED <<send, at, answer, result, completions, ran, life>>

-----------------------------------------------------------------------------
(* sendCallThreadProc of the caller's instance. A worker that looked at the *)
(* event before it was cancelled may still take a call.                     *)

\* mutant: the call is entered into ongoingCalls_ after it was pushed.
PickUpOnly(c) ==
    /\ send[c] = "listed"
    /\ FreeCallWorker(From(c))
    /\ send' = [send EXCEPT ![c] = "sending"]
    /\ UNCHANGED <<user, at, ongoing, answer, result, completions, ran, life>>

PickUp(c) ==
    /\ send[c] = "listed"
    /\ FreeCallWorker(From(c))
    /\ send' = [send EXCEPT ![c] = "sending"]
    /\ ongoing' = ongoing \cup {c}
    /\ UNCHANGED <<user, at, answer, result, completions, ran, life>>

\* mutant: the error code stays FAILED although the call was pushed.
PushCallKeepsError(c) ==
    /\ send[c] = "sending"
    /\ send' = [send EXCEPT ![c] = "failed"]
    /\ at' = [at EXCEPT ![c] = "callqueue"]
    /\ UNCHANGED <<user, ongoing, answer, result, completions, ran, life>>

\* mutant: the entry is removed whenever the worker is done with the call.
PushCallReleases(c) ==
    /\ send[c] = "sending"
    /\ send' = [send EXCEPT ![c] = "finished"]
    /\ at' = [at EXCEPT ![c] = "callqueue"]
    /\ ongoing' = ongoing \ {c}
    /\ UNCHANGED <<user, answer, result, completions, ran, life>>

\* A handle got earlier still takes messages after the owner closed the queue.
PushCall(c) ==
    /\ send[c] = "sending"
    /\ send' = [send EXCEPT ![c] = "finished"]
    /\ at' = [at EXCEPT ![c] = IF CallsClosed(To(c)) THEN "lost" ELSE "callqueue"]
    /\ UNCHANGED <<user, ongoing, answer, result, completions, ran, life>>

\* No queue, no lock, no room, or an exception.
PushCallFails(c) ==
    /\ SendFailures \/ CallsClosed(To(c))
    /\ send[c] = "sending"
    /\ send' = [send EXCEPT ![c] = "failed"]
    /\ UNCHANGED <<user, at, ongoing, answer, result, completions, ran, life>>

ReleaseFailed(c) ==
    /\ send[c] = "failed"
    /\ send' = [send EXCEPT ![c] = "released"]
    /\ ongoing' = ongoing \ {c}
    /\ UNCHANGED <<user, at, answer, result, completions, ran, life>>

ReportFailure(c) ==
    /\ send[c] = "released"
    /\ send' = [send EXCEPT ![c] = IF Kind(c) = "callback" THEN "callback" ELSE "finished"]
    /\ Complete(c, "unsent")
    /\ UNCHANGED <<user, at, ongoing, answer, ran, life>>

FailureCallbackReturns(c) ==
    /\ send[c] = "callback"
    /\ NestedDone(c, "callback")
    /\ send' = [send EXCEPT ![c] = "finished"]
    /\ UNCHANGED <<user, at, ongoing, answer, result, completions, ran, life>>

-----------------------------------------------------------------------------
(* dispatchThreadProc and sendRespThreadProc of the called instance. *)

PopCall(c) ==
    /\ c \notin Unrunnable
    /\ at[c] = "callqueue"
    /\ FreeCallDispatcher(To(c))
    /\ at' = [at EXCEPT ![c] = "running"]
    /\ ran' = ran \cup {c}
    /\ UNCHANGED <<user, send, ongoing, answer, result, completions, life>>

\* The response is put on the list, if there is a sender_.
SendResponse(c, a) ==
    /\ at' = [at EXCEPT ![c] = IF SenderGone(To(c)) THEN "lost" ELSE "resplist"]
    /\ answer' = [answer EXCEPT ![c] = a]
    /\ UNCHANGED <<user, send, ongoing, result, completions, ran, life>>

\* There is no function of that name, or its wrapper cannot convert the
\* arguments: the answer is an error, and no function was called.
RejectCall(c) ==
    /\ c \in Unrunnable
    /\ at[c] = "callqueue"
    /\ FreeCallDispatcher(To(c))
    /\ SendResponse(c, "remote")

Respond(c) ==
    /\ at[c] = "running"
    /\ NestedDone(c, "function")
    /\ SendResponse(c, "value")

\* The function throws, or its result cannot be packed.
RespondError(c) ==
    /\ at[c] = "running"
    /\ NestedLeft(c, "function")
    /\ SendResponse(c, "remote")

PickUpResp(c) ==
    /\ at[c] = "resplist"
    /\ FreeRespWorker(To(c))
    /\ at' = [at EXCEPT ![c] = "answering"]
    /\ UNCHANGED <<user, send, ongoing, answer, result, completions, ran, life>>

PushResp(c) ==
    /\ at[c] = "answering"
    /\ at' = [at EXCEPT ![c] = IF RespsClosed(From(c)) THEN "lost" ELSE "respqueue"]
    /\ UNCHANGED <<user, send, ongoing, answer, result, completions, ran, life>>

\* The response does not get into the queue, which is only logged; or a message
\* stays in its queue for good (Channel); or there is no memory to unpack a call
\* or the frame of a response, or to pack the answer, and what was popped or
\* computed is dropped; or the called process is gone.
Lose(c) ==
    /\ Losses
    /\ \/ at[c] \in {"callqueue", "answering", "respqueue"}
       \/ at[c] = "running" /\ NestedDone(c, "function")
    /\ at' = [at EXCEPT ![c] = "lost"]
    /\ UNCHANGED <<user, send, ongoing, answer, result, completions, ran, life>>

-----------------------------------------------------------------------------
(* dispatchRespThreadProc of the caller's instance. *)

\* The thread copies the entry of the call under the mutex. A response to a call
\* that has none is dropped.
PopResp(c) ==
    /\ at[c] = "respqueue"
    /\ FreeRespDispatcher(From(c))
    /\ at' = [at EXCEPT ![c] = IF c \in ongoing THEN "delivering" ELSE "over"]
    /\ UNCHANGED <<user, send, ongoing, answer, result, completions, ran, life>>

\* The caller is given r, by its promise or its callback.
HandOver(c, r) ==
    /\ at[c] = "delivering"
    /\ at' = [at EXCEPT ![c] = IF Kind(c) = "callback" THEN "callback" ELSE "over"]
    /\ Complete(c, r)
    /\ UNCHANGED <<user, send, ongoing, answer, ran, life>>

\* mutant: every call is taken for one with a callback.
DeliverIgnoresKind(c) ==
    /\ at[c] = "delivering"
    /\ at' = [at EXCEPT ![c] = "callback"]
    /\ Complete(c, answer[c])
    /\ UNCHANGED <<user, send, ongoing, answer, ran, life>>

\* The error code becomes SUCCESS, with a value or with the error of the target.
Deliver(c) == HandOver(c, answer[c])

\* The unpacking of the answer throws: the error code stays FAILED, whatever the
\* answer was.
DeliverUnread(c) == c \in Unreadable /\ HandOver(c, "unread")

\* mutant: the entry of a call with a callback stays.
CallbackReturnsKeepsEntry(c) ==
    /\ at[c] = "callback"
    /\ NestedDone(c, "callback")
    /\ at' = [at EXCEPT ![c] = "over"]
    /\ UNCHANGED <<user, send, ongoing, answer, result, completions, ran, life>>

CallbackReturns(c) ==
    /\ at[c] = "callback"
    /\ NestedDone(c, "callback")
    /\ at' = [at EXCEPT ![c] = "over"]
    /\ ongoing' = ongoing \ {c}
    /\ UNCHANGED <<user, send, answer, result, completions, ran, life>>

-----------------------------------------------------------------------------
(* Veigar::uninit of instance i. *)

Lost(S) == at' = [c \in Calls |-> IF c \in S THEN "lost" ELSE at[c]]

\* The last owner of these promises is gone: a promise that was not set is
\* broken, and get() throws; a callback is never called.
Break(S) ==
    LET broken == {c \in S : Kind(c) # "callback" /\ result[c] = "none"}
    IN  /\ result' = [c \in Calls |-> IF c \in broken THEN "broken" ELSE result[c]]
        /\ completions' = [c \in Calls |-> completions[c] + IF c \in broken THEN 1 ELSE 0]

\* Sender::uninit cancels the events of the lists.
Cancel(i) ==
    /\ i \in Stoppable
    /\ life[i] = "up"
    /\ life' = [life EXCEPT ![i] = "cancelled"]
    /\ UNCHANGED <<user, send, at, ongoing, answer, result, completions, ran>>

\* The lists are emptied when no worker is busy, and sender_ is reset.
SenderIdle(i) ==
    \A c \in Calls :
        /\ From(c) = i => send[c] \notin {"sending", "failed", "released", "callback"}
        /\ To(c) = i => at[c] # "answering"

Listed(i) == {c \in Calls : From(c) = i /\ send[c] = "listed"}

\* mutant: what is left on the list keeps its promises.
ResetSenderKeepsPromises(i) ==
    /\ life[i] = "cancelled"
    /\ SenderIdle(i)
    /\ life' = [life EXCEPT ![i] = "nosender"]
    /\ send' = [c \in Calls |-> IF c \in Listed(i) THEN "finished" ELSE send[c]]
    /\ Lost({c \in Calls : To(c) = i /\ at[c] = "resplist"})
    /\ UNCHANGED <<user, ongoing, answer, result, completions, ran>>

ResetSender(i) ==
    /\ life[i] = "cancelled"
    /\ SenderIdle(i)
    /\ life' = [life EXCEPT ![i] = "nosender"]
    /\ send' = [c \in Calls |-> IF c \in Listed(i) THEN "finished" ELSE send[c]]
    /\ Lost({c \in Calls : To(c) = i /\ at[c] = "resplist"})
    /\ Break(Listed(i))
    /\ UNCHANGED <<user, ongoing, answer, ran>>

\* CallDispatcher::uninit waits for the functions that run, and closes the queue.
StopCalls(i) ==
    /\ life[i] = "nosender"
    /\ \A c \in Calls : To(c) = i => at[c] # "running"
    /\ life' = [life EXCEPT ![i] = "nocalls"]
    /\ Lost({c \in Calls : To(c) = i /\ at[c] = "callqueue"})
    /\ UNCHANGED <<user, send, ongoing, answer, result, completions, ran>>

\* RespDispatcher::uninit waits for the callbacks that run, closes the queue and
\* clears ongoingCalls_.
RespsIdle(i) == \A c \in Calls : From(c) = i => at[c] \notin {"delivering", "callback"}

Entries(i) == {c \in ongoing : From(c) = i}

\* mutant: ongoingCalls_ is not cleared.
StopRespsKeepsEntries(i) ==
    /\ life[i] = "nocalls"
    /\ RespsIdle(i)
    /\ life' = [life EXCEPT ![i] = "down"]
    /\ Lost({c \in Calls : From(c) = i /\ at[c] = "respqueue"})
    /\ UNCHANGED <<user, send, ongoing, answer, result, completions, ran>>

StopResps(i) ==
    /\ life[i] = "nocalls"
    /\ RespsIdle(i)
    /\ life' = [life EXCEPT ![i] = "down"]
    /\ Lost({c \in Calls : From(c) = i /\ at[c] = "respqueue"})
    /\ ongoing' = ongoing \ Entries(i)
    /\ Break(Entries(i))
    /\ UNCHANGED <<user, send, answer, ran>>

Stop(i) == ResetSender(i) \/ StopCalls(i) \/ StopResps(i)

-----------------------------------------------------------------------------
\* A thread of a pool takes the next call or response.
Take(c) == PickUp(c) \/ PopCall(c) \/ RejectCall(c) \/ PickUpResp(c) \/ PopResp(c)

\* What threads of the program do by themselves once they have it.
Proceed(c) ==
    \/ InlineCallbackReturns(c) \/ InlineCallbackRunsAgain(c) \/ InlineCallbackThrows(c) \/ Get(c)
    \/ PushCall(c) \/ PushCallFails(c)
    \/ ReleaseFailed(c) \/ ReportFailure(c) \/ FailureCallbackReturns(c)
    \/ Respond(c) \/ RespondError(c) \/ PushResp(c)
    \/ Deliver(c) \/ DeliverUnread(c) \/ CallbackReturns(c)

Next ==
    \/ \E c \in Calls :
           \/ Begin(c) \/ BeginRefused(c) \/ BeginThrows(c)
           \/ Release(c) \/ Lose(c) \/ Take(c) \/ Proceed(c)
    \/ \E i \in Instances : Cancel(i) \/ Stop(i)

Spec == Init /\ [][Next]_vars

\* The pools whose instance told them to stop need not take anything more.
KeepsTaking(c) ==
    \/ life[From(c)] = "up" /\ PickUp(c)
    \/ life[To(c)] = "up" /\ PickUpResp(c)
    \/ ~SenderGone(To(c)) /\ (PopCall(c) \/ RejectCall(c))
    \/ ~CallsClosed(From(c)) /\ PopResp(c)

\* A client thread need not make a call, but a function or a callback that makes
\* calls makes them, and releases them in the end. Every thread goes on.
Fairness ==
    /\ \A c \in Calls :
        /\ WF_vars(KeepsTaking(c) \/ Proceed(c))
        /\ WF_vars(Site(c) # "client" /\ (Begin(c) \/ BeginRefused(c) \/ BeginThrows(c)))
        /\ WF_vars(Release(c))
    /\ \A i \in Instances : WF_vars(Stop(i))

FairSpec == Spec /\ Fairness

-----------------------------------------------------------------------------
(* Properties *)

TypeOK ==
    /\ user \in [Calls -> {"idle", "callback", "handler", "waiting", "holding", "got", "done"}]
    /\ send \in [Calls -> {"idle", "listed", "sending", "failed", "released", "callback", "finished"}]
    /\ at \in [Calls -> {"nowhere", "callqueue", "running", "resplist", "answering", "respqueue",
                         "delivering", "callback", "over", "lost"}]
    /\ ongoing \subseteq Calls
    /\ answer \in [Calls -> {"none", "value", "remote"}]
    /\ result \in [Calls -> {"none", "value", "remote", "unsent", "unread", "broken"}]
    /\ completions \in [Calls -> Nat]
    /\ ran \subseteq Calls
    /\ life \in [Instances -> {"up", "cancelled", "nosender", "nocalls", "down"}]
    /\ \A c \in Calls :
         user[c] = "handler" \/ "callback" \in {user[c], send[c], at[c]} => Kind(c) = "callback"

\* A promise is set or broken once, a callback called once: a second set_value
\* would throw on a dispatcher thread, where nobody catches it. Three threads may
\* complete a call, the worker that fails to send it, the dispatcher of its
\* response and the one that runs uninit. Only the caller's own thread may call a
\* callback again, once, which threw when it was told that the call was not sent.
RunAgain(c) ==
    /\ Kind(c) = "callback" /\ <<c, "callback">> \in Throws
    /\ completions[c] = 2
    /\ send[c] = "finished" /\ at[c] = "nowhere" /\ result[c] = "unsent"
CompletedAtMostOnce == \A c \in Calls : completions[c] <= 1 \/ RunAgain(c)

\* The response to a call that nobody released finds the entry of the call: it
\* cannot overtake the worker that makes the entry, and an entry is never
\* dropped while the response is on its way.
ResponseFindsCall ==
    \A c \in Calls :
        at[c] = "respqueue" /\ (Kind(c) = "async" => ~EarlyRelease) => c \in ongoing

\* When the user, the worker and the dispatchers are through with a call,
\* nothing of it is left in ongoingCalls_: veigar.h:147 says releaseCall is what
\* prevents the leak of a promise, README.md:146 that a callback needs none. (The
\* entry of a callback whose response got lost stays until uninit.)
Settled(c) ==
    /\ user[c] = "done"
    /\ send[c] = "finished"
    /\ at[c] \in {"nowhere", "over"} \/ (at[c] = "lost" /\ Kind(c) # "callback")
NoCallLeaks == \A c \in Calls : Settled(c) => c \notin ongoing

\* Somebody waits for the result of the call, or for its callback.
Unanswered(c) ==
    /\ result[c] = "none"
    /\ user[c] \in {"waiting", "holding"} \/ (Kind(c) = "callback" /\ user[c] # "idle")

\* As long as no instance is uninitialized, the caller of a synchronous call
\* returns, and a promise or a callback gets its result: whenever some of the
\* calls, which are finitely many, have no answer, there comes a time when all do.
EveryCallCompletes ==
    (\E c \in Calls : Unanswered(c))
        ~> ((\A c \in Calls : ~Unanswered(c)) \/ \E i \in Instances : life[i] # "up")

\* The calls to i whose functions call, and those from i whose callbacks do, are
\* fewer than the threads of the pools that they may hold while they wait.
Callers(site) == {Parent(c) : c \in {d \in Calls : Site(d) = site}}
PoolsSuffice ==
    \A i \in Instances :
        LET functions == {c \in Callers("function") : To(c) = i}
            callbacks == {c \in Callers("callback") : From(c) = i}
        IN  /\ Few(functions, DispatcherThreads)
            /\ Few(callbacks, DispatcherThreads)
            /\ Few(callbacks, SenderThreads)

\* Some thread of the program can go on with the call.
Ready(c) ==
    \/ Site(c) # "client" /\ MayBegin(c)
    \/ user[c] = "got" \/ (user[c] \in {"waiting", "holding"} /\ result[c] # "none")
    \/ send[c] = "listed" /\ FreeCallWorker(From(c))
    \/ send[c] \in {"sending", "failed", "released"}
    \/ at[c] = "callqueue" /\ FreeCallDispatcher(To(c))
    \/ at[c] = "running" /\ NestedDone(c, "function")
    \/ at[c] = "resplist" /\ FreeRespWorker(To(c))
    \/ at[c] = "respqueue" /\ FreeRespDispatcher(From(c))
    \/ at[c] \in {"answering", "delivering"}
    \/ InCallback(c) /\ NestedDone(c, "callback")

\* Threads that wait for each other's calls never hold all of a pool, so that
\* nobody could go on: as long as a pool has more threads than there are calls
\* whose functions, or callbacks, call. (rpc_pool has one too many.)
NoStandstill ==
    PoolsSuffice /\ ~Losses /\ (\A i \in Instances : life[i] = "up") =>
        ((\E c \in Calls : Unanswered(c)) => \E c \in Calls : Ready(c))

\* When uninit of the caller's instance has returned, no future of its calls
\* waits for a result that nobody can give any more, wherever the call was then.
PromisesSettled ==
    \A c \in Calls :
        life[From(c)] = "down" /\ user[c] \in {"waiting", "holding"} => result[c] # "none"

\* uninit returns, unless it joins a thread that waits for good: for a call that
\* its callback made, which the instance will not send or not get the response of
\* any more, or for one that its function made and that was lost with the instance
\* called, or is stuck there because that is being uninitialized or waits in turn.
HeldByCallback(i) ==
    \E c \in Calls :
        Site(c) = "callback" /\ From(Parent(c)) = i /\ user[c] \in {"waiting", "holding"} /\ result[c] = "none"
HeldByFunction(i) ==
    \E c \in Calls :
        /\ Site(c) = "function" /\ To(Parent(c)) = i /\ user[c] \in {"waiting", "holding"} /\ result[c] = "none"
        /\ at[c] \in {"callqueue", "running", "resplist", "lost"}
UninitReturns ==
    \A i \in Instances :
        (life[i] = "cancelled") ~> (life[i] = "down" \/ [](HeldByCallback(i) \/ HeldByFunction(i)))

\* The contract of a call: the function runs at most once, and never after its
\* caller was answered; a value means that it ran, and the failure to send the
\* call that it did not. The other two errors, of the target and of the unpacking
\* of its answer, do not say whether it ran.
Phase == [c \in Calls |-> IF result[c] # "none" THEN result[c]
                          ELSE IF user[c] = "idle" THEN "idle" ELSE "open"]
Contract == INSTANCE RemoteCall WITH phase <- Phase
ImplementsRemoteCall == Contract!Spec
=============================================================================
