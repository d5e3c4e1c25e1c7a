----------------------------- MODULE MCCallId -----------------------------
(***************************************************************************)
(* Indexes of one digit and of two; a name with a digit inside, and one    *)
(* that begins with another.                                               *)
(***************************************************************************)
EXTENDS CallId

MCNames == {<<"f">>, <<"g">>, <<"f", "1", "x">>}
=============================================================================
