------------------------------- MODULE MCRpc -------------------------------
(***************************************************************************)
(* Two instances. In the "mixed" instance a synchronous call whose         *)
(* function calls back, where a function waits for a promise, and a call   *)
(* with a callback that calls again: each kind and each site at least      *)
(* once, with pools of two, the fewest a callback that calls can live      *)
(* with. In the "faulty" one, a function and a callback that may throw     *)
(* while they make calls. In the "crowd", as many callbacks that call as   *)
(* there are threads in the pool.                                          *)
(***************************************************************************)
EXTENDS Rpc

CONSTANTS A, B, c1, c2, c3, c4, c5, none

Call(from, to, kind, parent, site) ==
    [from |-> from, to |-> to, kind |-> kind, parent |-> parent, site |-> site]

MixedCalls == {c1, c2, c3, c4, c5}
MixedInfo ==
    [c \in MixedCalls |->
        CASE c = c1 -> Call(A, B, "sync", none, "client")
          [] c = c2 -> Call(B, A, "sync", c1, "function")
          [] c = c3 -> Call(A, B, "callback", none, "client")
          [] c = c4 -> Call(A, B, "sync", c3, "callback")
          [] c = c5 -> Call(A, B, "async", c2, "function")]

FaultyCalls == {c1, c2, c3, c4}
FaultyInfo ==
    [c \in FaultyCalls |->
        CASE c = c1 -> Call(A, B, "sync", none, "client")
          [] c = c2 -> Call(B, A, "async", c1, "function")
          [] c = c3 -> Call(A, B, "callback", none, "client")
          [] c = c4 -> Call(A, B, "sync", c3, "callback")]
FaultyThrows == {<<c1, "function">>, <<c3, "callback">>}

CrowdCalls == {c1, c2, c3, c4}
CrowdInfo ==
    [c \in CrowdCalls |->
        CASE c = c1 -> Call(A, B, "callback", none, "client")
          [] c = c2 -> Call(A, B, "sync", c1, "callback")
          [] c = c3 -> Call(A, B, "callback", none, "client")
          [] c = c4 -> Call(A, B, "sync", c3, "callback")]
=============================================================================
