----------------------------- MODULE Lifecycle -----------------------------
(***************************************************************************)
(* A channel is a name, under which Veigar::init creates six objects of    *)
(* the operating system: the memory, the lock and the counter of the call  *)
(* queue, then those of the response queue (message_queue.cpp:19,          *)
(* shared_memory.cpp:129, semaphore.cpp:51). Each is created exclusively   *)
(* by its own name, each is unlinked by name, and nothing covers the six   *)
(* as a whole: other processes may create, unlink and open in between.     *)
(*                                                                         *)
(* A life is one attempt to be the channel, from init to uninit; the lives *)
(* of this module all use one name, from one process or from several. A    *)
(* process may be killed at any time, and leaves its names (POSIX).        *)
(*                                                                         *)
(* A peer opens the three objects of the call queue one by one at its      *)
(* first call, and keeps the handles until its own uninit (sender.cpp:130).*)
(* The response queue is opened by the same code.                          *)
(***************************************************************************)
EXTENDS Naturals

CONSTANTS Lives, Peers, Nobody

ASSUME LifecycleAssumption == Nobody \notin Lives

\* The objects, in the order init creates them.
Parts     == 1 .. 6
CallParts == 1 .. 3    \* "_shm", "_rwlock" and "_readsmp" of the call queue
RespParts == Parts \ CallParts

VARIABLES
    dir,     \* the directory of the system: whose object has each name
    pc,      \* where each life is
    made,    \* the objects each life created and has not unlinked
    handle,  \* whose objects each peer got for the call queue
    rushed   \* history: the lives whose first object was created while
             \* another process had still to unlink some of its own

vars == <<dir, pc, made, handle, rushed>>

Pcs == {"new", "creating", "undoing", "up", "closing", "failed", "gone", "crashed"}

Leaving == {"undoing", "closing"}

NoHandles == [k \in CallParts |-> Nobody]

Init ==
    /\ dir = [k \in Parts |-> Nobody]
    /\ pc = [l \in Lives |-> "new"]
    /\ made = [l \in Lives |-> {}]
    /\ handle = [p \in Peers |-> NoHandles]
    /\ rushed = {}

Goto(l, label) == pc' = [pc EXCEPT ![l] = label]

-----------------------------------------------------------------------------
(* Veigar::init *)

BeginInit(l) ==
    /\ pc[l] = "new"
    /\ Goto(l, "creating")
    /\ UNCHANGED <<dir, made, handle, rushed>>

IsNext(l, k) == k \notin made[l] /\ \A j \in Parts : j < k => j \in made[l]

\* Others that have still objects to unlink, and will.
SomeoneLeaves(l) == \E o \in Lives \ {l} : pc[o] # "crashed" /\ made[o] # {}

\* mutant: without O_EXCL, the name that exists is taken over.
CreateTakesOver(l, k) ==
    /\ pc[l] = "creating"
    /\ IsNext(l, k)
    /\ dir' = [dir EXCEPT ![k] = l]
    /\ made' = [made EXCEPT ![l] = @ \cup {k}]
    /\ rushed' = IF k = 1 /\ SomeoneLeaves(l) THEN rushed \cup {l} ELSE rushed
    /\ UNCHANGED <<pc, handle>>

Create(l, k) ==
    /\ pc[l] = "creating"
    /\ IsNext(l, k)
    /\ dir[k] = Nobody
    /\ dir' = [dir EXCEPT ![k] = l]
    /\ made' = [made EXCEPT ![l] = @ \cup {k}]
    /\ rushed' = IF k = 1 /\ SomeoneLeaves(l) THEN rushed \cup {l} ELSE rushed
    /\ UNCHANGED <<pc, handle>>

\* mutant: the name of the object that could not be created is unlinked as well.
CreateFailsWithName(l) ==
    /\ pc[l] = "creating"
    /\ made[l] # Parts
    /\ Goto(l, "undoing")
    /\ made' = [made EXCEPT ![l] = @ \cup {k \in Parts : IsNext(l, k)}]
    /\ UNCHANGED <<dir, handle, rushed>>

\* The name exists, or the system refuses for a reason of its own.
CreateFails(l) ==
    /\ pc[l] = "creating"
    /\ made[l] # Parts
    /\ Goto(l, "undoing")
    /\ UNCHANGED <<dir, made, handle, rushed>>

\* mutant: init does not look at what the response dispatcher returned.
InitDoneWithoutResps(l) ==
    /\ pc[l] = "creating"
    /\ CallParts \subseteq made[l]
    /\ Goto(l, "up")
    /\ UNCHANGED <<dir, made, handle, rushed>>

InitDone(l) ==
    /\ pc[l] = "creating"
    /\ made[l] = Parts
    /\ Goto(l, "up")
    /\ UNCHANGED <<dir, made, handle, rushed>>

-----------------------------------------------------------------------------
(* The cleanup of an init that failed, and Veigar::uninit. *)

BeginUninit(l) ==
    /\ pc[l] = "up"
    /\ Goto(l, "closing")
    /\ UNCHANGED <<dir, made, handle, rushed>>

\* uninit closes the call queue first. Only a failure in the response queue finds
\* both: create undoes the queue it was at before the CallDispatcher closes its
\* own. The parts of a queue are closed in the order they were created.
Before(l, j, k) ==
    IF pc[l] = "undoing" /\ (j \in CallParts) # (k \in CallParts) THEN k \in CallParts ELSE j < k

Unlink(l, k) ==
    /\ pc[l] \in Leaving
    /\ k \in made[l]
    /\ \A j \in made[l] \ {k} : Before(l, k, j)
    /\ dir' = [dir EXCEPT ![k] = Nobody]
    /\ made' = [made EXCEPT ![l] = @ \ {k}]
    /\ UNCHANGED <<pc, handle, rushed>>

\* mutant: the response queue is not closed.
LeaveRespsBehind(l) ==
    /\ pc[l] \in Leaving
    /\ made[l] \cap CallParts = {}
    /\ Goto(l, IF pc[l] = "undoing" THEN "failed" ELSE "gone")
    /\ UNCHANGED <<dir, made, handle, rushed>>

Leave(l) ==
    /\ pc[l] \in Leaving
    /\ made[l] = {}
    /\ Goto(l, IF pc[l] = "undoing" THEN "failed" ELSE "gone")
    /\ UNCHANGED <<dir, made, handle, rushed>>

Crash(l) ==
    /\ pc[l] \in {"creating", "up"} \cup Leaving
    /\ Goto(l, "crashed")
    /\ UNCHANGED <<dir, made, handle, rushed>>

-----------------------------------------------------------------------------
(* Sender::getTargetCallMessageQueue of a peer, under its mutex. *)

Opened(p) == {k \in CallParts : handle[p][k] # Nobody}

\* mutant: the counter is opened first and the memory last.
OpenLastFirst(p, k) ==
    /\ handle[p][k] = Nobody
    /\ \A j \in CallParts : j > k => handle[p][j] # Nobody
    /\ dir[k] # Nobody
    /\ handle' = [handle EXCEPT ![p][k] = dir[k]]
    /\ UNCHANGED <<dir, pc, made, rushed>>

Open(p, k) ==
    /\ handle[p][k] = Nobody
    /\ \A j \in CallParts : j < k => handle[p][j] # Nobody
    /\ dir[k] # Nobody
    /\ handle' = [handle EXCEPT ![p][k] = dir[k]]
    /\ UNCHANGED <<dir, pc, made, rushed>>

\* There is no object of that name, or the system refuses: the handles are
\* closed and the call fails. The next call opens again.
OpenFails(p) ==
    /\ Opened(p) \notin {{}, CallParts}
    /\ handle' = [handle EXCEPT ![p] = NoHandles]
    /\ UNCHANGED <<dir, pc, made, rushed>>

\* Sender::uninit of the peer closes the handles, and unlinks nothing.
PeerUninit(p) ==
    /\ Opened(p) = CallParts
    /\ handle' = [handle EXCEPT ![p] = NoHandles]
    /\ UNCHANGED <<dir, pc, made, rushed>>

-----------------------------------------------------------------------------
LifeStep(l) ==
    \/ BeginInit(l) \/ CreateFails(l) \/ InitDone(l)
    \/ BeginUninit(l) \/ Leave(l) \/ Crash(l)
    \/ \E k \in Parts : Create(l, k) \/ Unlink(l, k)

PeerStep(p) == OpenFails(p) \/ PeerUninit(p) \/ \E k \in CallParts : Open(p, k)

Next ==
    \/ \E l \in Lives : LifeStep(l)
    \/ \E p \in Peers : PeerStep(p)

Spec == Init /\ [][Next]_vars

-----------------------------------------------------------------------------
(* Properties *)

\* The types; and an instance counts as initialized with all its objects only.
TypeOK ==
    /\ dir \in [Parts -> Lives \cup {Nobody}]
    /\ pc \in [Lives -> Pcs]
    /\ made \in [Lives -> SUBSET Parts]
    /\ handle \in [Peers -> [CallParts -> Lives \cup {Nobody}]]
    /\ rushed \subseteq Lives
    /\ \A l \in Lives : pc[l] = "up" => made[l] = Parts

\* Who opens a name of an initialized channel gets the object of the instance
\* that is initialized, whatever others do that create and unlink by the same
\* names: a failed init must not remove what it found.
OwnerHasItsNames == \A l \in Lives : pc[l] = "up" => \A k \in Parts : dir[k] = l

\* After uninit, and after an init that failed at any of the objects, none of
\* the names is left: one that were would keep every later init from succeeding.
NamesFreed == \A l \in Lives : pc[l] \in {"failed", "gone"} => \A k \in Parts : dir[k] # l

\* A peer that has the memory of the initialized instance has its lock and its
\* counter too, so that it excludes the others and wakes up the dispatchers. Each
\* was opened by itself; it takes an instance that came while another process was
\* still unlinking to let the lock of the one go with the memory of the other.
LiveMemoryGuarded ==
    \A p \in Peers, l \in Lives \ rushed :
        pc[l] = "up" /\ handle[p][1] = l => \A k \in CallParts : handle[p][k] \in {l, Nobody}

\* At most one instance has the channel, and nobody after one that was killed
\* and left names.
Owner == IF \E l \in Lives : pc[l] = "up" THEN CHOOSE l \in Lives : pc[l] = "up" ELSE Nobody
Abandoned == \E l \in Lives : pc[l] = "crashed" /\ made[l] # {}

Channel == INSTANCE Claim WITH owner <- Owner, abandoned <- Abandoned
ImplementsClaim == Channel!Spec
=============================================================================
