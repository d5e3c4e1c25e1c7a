-------------------------- MODULE LifecycleProofs --------------------------
(***************************************************************************)
(* Proofs about Lifecycle, for any set of lives and peers: the names of an *)
(* initialized channel are its own, none is left behind, the memory of a   *)
(* live queue is guarded, and Claim is implemented.                        *)
(***************************************************************************)
EXTENDS Lifecycle, TLAPS

\* A life has to unlink exactly what it finds under the names: so what it unlinks
\* by name is its own.
Unlinks(l) == \A k \in Parts : k \in made[l] <=> dir[k] = l

Stage(l) ==
    /\ pc[l] \in {"new", "failed", "gone"} => made[l] = {}
    /\ pc[l] = "creating" => \A k \in made[l], j \in Parts : j < k => j \in made[l]

NamesInv == TypeOK /\ \A l \in Lives : Unlinks(l) /\ Stage(l)

-----------------------------------------------------------------------------
LEMMA InitNamesInv == Init => NamesInv
  BY LifecycleAssumption DEF Init, NamesInv, TypeOK, Unlinks, Stage, Pcs, NoHandles

LEMMA LifeNamesInv ==
  ASSUME NamesInv, NEW l \in Lives, LifeStep(l)
  PROVE  NamesInv'
<1> USE LifecycleAssumption DEF NamesInv, TypeOK, Unlinks, Stage, Pcs, Goto
<1>1. CASE BeginInit(l)
  BY <1>1 DEF BeginInit
<1>2. CASE CreateFails(l)
  BY <1>2 DEF CreateFails
<1>3. CASE InitDone(l)
  BY <1>3 DEF InitDone
<1>4. CASE BeginUninit(l)
  BY <1>4 DEF BeginUninit
<1>5. CASE Leave(l)
  BY <1>5 DEF Leave, Leaving
<1>6. CASE Crash(l)
  BY <1>6 DEF Crash
<1>7. ASSUME NEW k \in Parts, Create(l, k) PROVE NamesInv'
  <2>1. TypeOK'
    BY <1>7 DEF Create
  <2>2. \A o \in Lives : Unlinks(o)'
    BY <1>7 DEF Create
  <2>3. \A o \in Lives : Stage(o)'
    BY <1>7 DEF Create, IsNext
  <2> QED BY <2>1, <2>2, <2>3
<1>8. ASSUME NEW k \in Parts, Unlink(l, k) PROVE NamesInv'
  <2>1. TypeOK'
    BY <1>8 DEF Unlink, Leaving
  <2>2. \A o \in Lives : Unlinks(o)'
    BY <1>8 DEF Unlink
  <2>3. \A o \in Lives : Stage(o)'
    BY <1>8 DEF Unlink, Leaving
  <2> QED BY <2>1, <2>2, <2>3
<1> QED BY <1>1, <1>2, <1>3, <1>4, <1>5, <1>6, <1>7, <1>8 DEF LifeStep

LEMMA PeerNamesInv ==
  ASSUME NamesInv, NEW p \in Peers, PeerStep(p)
  PROVE  NamesInv'
<1> USE DEF NamesInv, TypeOK, Unlinks, Stage, CallParts, Parts
<1>1. CASE OpenFails(p) \/ PeerUninit(p)
  BY <1>1 DEF OpenFails, PeerUninit, NoHandles
<1>2. ASSUME NEW k \in CallParts, Open(p, k) PROVE NamesInv'
  BY <1>2 DEF Open
<1> QED BY <1>1, <1>2 DEF PeerStep

LEMMA NextNamesInv == NamesInv /\ [Next]_vars => NamesInv'
<1> SUFFICES ASSUME NamesInv, [Next]_vars PROVE NamesInv'
  OBVIOUS
<1>1. CASE UNCHANGED vars
  BY <1>1 DEF vars, NamesInv, TypeOK, Unlinks, Stage
<1> QED BY <1>1, LifeNamesInv, PeerNamesInv DEF Next

LEMMA NamesInvHolds == Spec => []NamesInv
  BY InitNamesInv, NextNamesInv, PTL DEF Spec

\* Every variable keeps to its type, and an initialized instance has all it needs.
THEOREM LifecycleTypes == Spec => []TypeOK
<1>1. NamesInv => TypeOK
  BY DEF NamesInv
<1> QED BY <1>1, NamesInvHolds, PTL

\* Nobody can take a name from an initialized instance.
THEOREM NamesAreTheOwners == Spec => []OwnerHasItsNames
<1>1. NamesInv => OwnerHasItsNames
  BY DEF NamesInv, TypeOK, Unlinks, OwnerHasItsNames
<1> QED BY <1>1, NamesInvHolds, PTL

\* Nothing is left of an instance that was uninitialized, or failed to come up.
THEOREM NamesAreFreed == Spec => []NamesFreed
<1>1. NamesInv => NamesFreed
  BY DEF NamesInv, Unlinks, Stage, NamesFreed
<1> QED BY <1>1, NamesInvHolds, PTL

-----------------------------------------------------------------------------
(* The handles of a peer. *)

Comes(l) == pc[l] \in {"creating", "up"}

\* While an instance that did not rush has the name of its memory, the others
\* have nothing to unlink, or never will. A peer that has this memory and some
\* other part has it of one that was killed, and the name of that part is taken
\* for good: the instance cannot come up.
Alone(l) == Comes(l) /\ 1 \in made[l] => \A o \in Lives \ {l} : made[o] = {} \/ pc[o] = "crashed"

OfKilled(o, k) == o \in Lives /\ pc[o] = "crashed" /\ k \in made[o]

Guarded(p, l) ==
    Comes(l) /\ handle[p][1] = l =>
        \A k \in CallParts : handle[p][k] \in {l, Nobody} \/ OfKilled(handle[p][k], k)

InOrder(p) == handle[p][1] = Nobody => \A k \in CallParts : handle[p][k] = Nobody

HandleInv ==
    /\ \A p \in Peers : InOrder(p)
    /\ \A l \in Lives \ rushed : Alone(l)
    /\ \A p \in Peers, l \in Lives : (Comes(l) \/ pc[l] = "new") /\ handle[p][1] = l => 1 \in made[l]
    /\ \A p \in Peers, l \in Lives \ rushed : Guarded(p, l)

LEMMA InitHandleInv == Init => HandleInv
  BY LifecycleAssumption DEF Init, HandleInv, Alone, Guarded, Comes, InOrder, NoHandles, CallParts

LEMMA LifeHandleInv ==
  ASSUME NamesInv, HandleInv, NEW l \in Lives, LifeStep(l)
  PROVE  HandleInv'
<1> USE LifecycleAssumption
    DEF NamesInv, TypeOK, Unlinks, Stage, Pcs, Goto, HandleInv, Alone, Guarded, Comes, OfKilled,
        InOrder, Parts, CallParts
<1>1. CASE BeginInit(l)
  BY <1>1 DEF BeginInit
<1>2. CASE CreateFails(l)
  BY <1>2 DEF CreateFails
<1>3. CASE InitDone(l)
  BY <1>3 DEF InitDone
<1>4. CASE BeginUninit(l)
  BY <1>4 DEF BeginUninit
<1>5. CASE Leave(l)
  BY <1>5 DEF Leave, Leaving
<1>6. CASE Crash(l)
  BY <1>6 DEF Crash
<1>7. ASSUME NEW k \in Parts, Create(l, k) PROVE HandleInv'
  <2>1. \A o \in Lives \ rushed' : Alone(o)'
    BY <1>7 DEF Create, IsNext, SomeoneLeaves
  <2>2. \A p \in Peers, o \in Lives : (Comes(o) \/ pc[o] = "new")' /\ handle'[p][1] = o => 1 \in made'[o]
    BY <1>7 DEF Create
  <2>3. \A p \in Peers, o \in Lives \ rushed' : Guarded(p, o)'
    BY <1>7 DEF Create
  <2>4. \A p \in Peers : InOrder(p)'
    BY <1>7 DEF Create
  <2> QED BY <2>1, <2>2, <2>3, <2>4
<1>8. ASSUME NEW k \in Parts, Unlink(l, k) PROVE HandleInv'
  <2>1. \A o \in Lives \ rushed' : Alone(o)'
    BY <1>8 DEF Unlink, Leaving
  <2>2. \A p \in Peers, o \in Lives : (Comes(o) \/ pc[o] = "new")' /\ handle'[p][1] = o => 1 \in made'[o]
    BY <1>8 DEF Unlink, Leaving
  <2>3. \A p \in Peers, o \in Lives \ rushed' : Guarded(p, o)'
    BY <1>8 DEF Unlink, Leaving
  <2>4. \A p \in Peers : InOrder(p)'
    BY <1>8 DEF Unlink
  <2> QED BY <2>1, <2>2, <2>3, <2>4
<1> QED BY <1>1, <1>2, <1>3, <1>4, <1>5, <1>6, <1>7, <1>8 DEF LifeStep

LEMMA PeerHandleInv ==
  ASSUME NamesInv, HandleInv, NEW p \in Peers, PeerStep(p)
  PROVE  HandleInv'
<1> USE LifecycleAssumption
    DEF NamesInv, TypeOK, Unlinks, HandleInv, Alone, Guarded, Comes, OfKilled, InOrder, Parts, CallParts
<1>1. CASE OpenFails(p) \/ PeerUninit(p)
  <2>1. UNCHANGED <<dir, pc, made, rushed>> /\ handle' = [handle EXCEPT ![p] = NoHandles]
    BY <1>1 DEF OpenFails, PeerUninit
  <2>2. \A k \in CallParts : handle'[p][k] = Nobody
    BY <2>1 DEF NoHandles
  <2>3. \A q \in Peers \ {p} : handle'[q] = handle[q]
    BY <2>1
  <2>4. \A l \in Lives \ rushed' : Alone(l)'
    BY <2>1
  <2>5. \A q \in Peers : InOrder(q)'
    BY <2>2, <2>3
  <2>6. \A q \in Peers, l \in Lives : (Comes(l) \/ pc[l] = "new")' /\ handle'[q][1] = l => 1 \in made'[l]
    BY <2>1, <2>2, <2>3
  <2>7. \A q \in Peers, l \in Lives \ rushed' : Guarded(q, l)'
    BY <2>1, <2>2, <2>3
  <2> QED BY <2>4, <2>5, <2>6, <2>7
<1>2. ASSUME NEW k \in CallParts, Open(p, k) PROVE HandleInv'
  <2>1. \A l \in Lives \ rushed' : Alone(l)'
    BY <1>2 DEF Open
  <2>2. \A q \in Peers, l \in Lives : (Comes(l) \/ pc[l] = "new")' /\ handle'[q][1] = l => 1 \in made'[l]
    BY <1>2 DEF Open
  <2>3. ASSUME NEW q \in Peers, NEW l \in Lives \ rushed' PROVE Guarded(q, l)'
    <3>1. CASE k = 1
      BY <1>2, <3>1 DEF Open
    <3>2. CASE k # 1
      BY <1>2, <3>2 DEF Open
    <3> QED BY <3>1, <3>2
  <2>4. \A q \in Peers : InOrder(q)'
    BY <1>2 DEF Open
  <2> QED BY <2>1, <2>2, <2>3, <2>4
<1> QED BY <1>1, <1>2 DEF PeerStep

LEMMA NextHandleInv == NamesInv /\ HandleInv /\ [Next]_vars => HandleInv'
<1> SUFFICES ASSUME NamesInv, HandleInv, [Next]_vars PROVE HandleInv'
  OBVIOUS
<1>1. CASE UNCHANGED vars
  BY <1>1 DEF vars, HandleInv, Alone, Guarded, Comes, OfKilled, InOrder
<1> QED BY <1>1, LifeHandleInv, PeerHandleInv DEF Next

\* Peers use the memory of an initialized instance under its own lock, unless the
\* instance came while another process was still unlinking its names.
THEOREM LiveMemoryIsGuarded == Spec => []LiveMemoryGuarded
<1>1. NamesInv /\ HandleInv => LiveMemoryGuarded
  BY DEF NamesInv, TypeOK, Unlinks, HandleInv, Guarded, Comes, OfKilled, LiveMemoryGuarded,
         Parts, CallParts
<1> QED BY <1>1, InitHandleInv, NextHandleInv, NamesInvHolds, PTL DEF Spec

-----------------------------------------------------------------------------
(* Every step is one of Claim, or none. *)

OwnerIsUp ==
    /\ \A l \in Lives : pc[l] = "up" => Owner = l
    /\ (\A l \in Lives : pc[l] # "up") => Owner = Nobody

LEMMA OwnerIsTheOneUp == NamesInv => OwnerIsUp
<1> SUFFICES ASSUME NamesInv PROVE OwnerIsUp
  OBVIOUS
<1>1. ASSUME NEW l \in Lives, pc[l] = "up" PROVE Owner = l
  <2>1. \A o \in Lives : pc[o] = "up" => dir[1] = o
    BY DEF NamesInv, TypeOK, Unlinks, Parts
  <2> QED BY <1>1, <2>1 DEF Owner
<1> QED BY <1>1 DEF Owner, OwnerIsUp

LEMMA InitMapped == Init => Channel!Init
  BY DEF Init, Channel!Init, Owner, Abandoned

LEMMA LifeMapped ==
  ASSUME NamesInv, NamesInv', NEW l \in Lives, LifeStep(l)
  PROVE  [Channel!Next]_(Channel!vars)
<1>0. OwnerIsUp /\ OwnerIsUp'
  BY OwnerIsTheOneUp, PTL
<1> USE DEF OwnerIsUp, NamesInv, TypeOK, Unlinks, Stage, Goto
<1>1. CASE InitDone(l)
  <2>1. \A o \in Lives \ {l} : made[o] = {}
    BY <1>1 DEF InitDone
  <2>2. Owner = Nobody /\ ~Abandoned
    BY <1>1, <1>0, <2>1 DEF InitDone, Abandoned, Parts
  <2>3. Owner' = l /\ Abandoned' = Abandoned
    BY <1>0, <1>1 DEF InitDone, Abandoned
  <2> QED BY <2>2, <2>3 DEF Channel!Next, Channel!Acquire
<1>2. CASE BeginUninit(l)
  <2>1. \A o \in Lives \ {l} : pc[o] # "up"
    BY <1>2 DEF BeginUninit, Parts
  <2>2. Owner = l /\ Owner' = Nobody /\ Abandoned' = Abandoned
    BY <1>0, <1>2, <2>1 DEF BeginUninit, Abandoned
  <2> QED BY <2>2, LifecycleAssumption DEF Channel!Next, Channel!Release
<1>3. CASE Crash(l) /\ made[l] # {}
  <2>1. \A o \in Lives : pc'[o] # "up"
    BY <1>3 DEF Crash, Parts
  <2>2. Owner' = Nobody /\ Abandoned' = TRUE
    BY <1>0, <1>3, <2>1 DEF Crash, Abandoned
  <2> QED BY <2>2 DEF Channel!Next, Channel!Abandon
<1>4. ASSUME \A o \in Lives : pc'[o] = "up" <=> pc[o] = "up", Abandoned' = Abandoned
      PROVE  UNCHANGED Channel!vars
  BY <1>0, <1>4 DEF Channel!vars
<1>5. CASE Crash(l) /\ made[l] = {}
  BY <1>4, <1>5 DEF Crash, Abandoned, Parts
<1>6. CASE BeginInit(l) \/ CreateFails(l) \/ Leave(l)
  BY <1>4, <1>6 DEF BeginInit, CreateFails, Leave, Leaving, Abandoned
<1>7. ASSUME NEW k \in Parts, Create(l, k) \/ Unlink(l, k) PROVE UNCHANGED Channel!vars
  BY <1>4, <1>7 DEF Create, Unlink, Leaving, Abandoned
<1> QED BY <1>1, <1>2, <1>3, <1>5, <1>6, <1>7 DEF LifeStep

LEMMA NextMapped == NamesInv /\ NamesInv' /\ [Next]_vars => [Channel!Next]_(Channel!vars)
<1> SUFFICES ASSUME NamesInv, NamesInv', [Next]_vars PROVE [Channel!Next]_(Channel!vars)
  OBVIOUS
<1>1. CASE UNCHANGED vars
  BY <1>1 DEF vars, Channel!vars, Owner, Abandoned
<1>2. ASSUME NEW p \in Peers, PeerStep(p) PROVE UNCHANGED Channel!vars
  BY <1>2 DEF PeerStep, OpenFails, PeerUninit, Open, Channel!vars, Owner, Abandoned
<1> QED BY <1>1, <1>2, LifeMapped DEF Next

\* One instance at a time has the channel, nobody after a kill that left names.
THEOREM LifecycleImplementsClaim == Spec => ImplementsClaim
  BY InitMapped, NextMapped, NamesInvHolds, PTL DEF Spec, ImplementsClaim, Channel!Spec
=============================================================================
