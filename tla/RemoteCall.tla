----------------------------- MODULE RemoteCall -----------------------------
(***************************************************************************)
(* What a call to a function of another process promises its caller: the   *)
(* function runs at most once; the caller learns of the call one thing,    *)
(* which never changes; it gets a value only of a function that ran, and   *)
(* is told that the call was not sent ("unsent": FAILED or TIMEOUT) only   *)
(* when the function did not run and never will. An error of the target    *)
(* ("remote": SUCCESS with an errorMessage) or an answer that cannot be    *)
(* read ("unread": FAILED again) leave open whether the function ran, but  *)
(* it does not run afterwards. When its own instance goes away first, its  *)
(* promise is broken and it knows nothing at all.                          *)
(*                                                                         *)
(* Rpc implements it with two send lists, two queues and four pools of     *)
(* threads.                                                                *)
(***************************************************************************)
CONSTANT Calls

VARIABLES
    phase,  \* what the caller of each call knows
    ran     \* the calls whose function was called

vars == <<phase, ran>>

Become(c, p) == phase' = [phase EXCEPT ![c] = p]

Init ==
    /\ phase = [c \in Calls |-> "idle"]
    /\ ran = {}

Open(c) == phase[c] = "idle" /\ Become(c, "open") /\ UNCHANGED ran

Refuse(c) == phase[c] = "idle" /\ Become(c, "unsent") /\ UNCHANGED ran

Run(c) ==
    /\ phase[c] \in {"open", "broken"}
    /\ c \notin ran
    /\ ran' = ran \cup {c}
    /\ UNCHANGED phase

Return(c) == phase[c] = "open" /\ c \in ran /\ Become(c, "value") /\ UNCHANGED ran

Fail(c) == phase[c] = "open" /\ c \notin ran /\ Become(c, "unsent") /\ UNCHANGED ran

ReturnError(c) == phase[c] = "open" /\ Become(c, "remote") /\ UNCHANGED ran

LoseAnswer(c) == phase[c] = "open" /\ Become(c, "unread") /\ UNCHANGED ran

Break(S) ==
    /\ \A c \in S : phase[c] = "open"
    /\ phase' = [c \in Calls |-> IF c \in S THEN "broken" ELSE phase[c]]
    /\ UNCHANGED ran

Next ==
    \/ \E c \in Calls :
           \/ Open(c) \/ Refuse(c) \/ Run(c)
           \/ Return(c) \/ Fail(c) \/ ReturnError(c) \/ LoseAnswer(c)
    \/ \E S \in SUBSET Calls : Break(S)

Spec == Init /\ [][Next]_vars
=============================================================================
