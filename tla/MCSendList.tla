---------------------------- MODULE MCSendList ----------------------------
(***************************************************************************)
(* Two workers race for two calls; one worker and one response are          *)
(* enough to tell the second list from the first.                          *)
(***************************************************************************)
EXTENDS SendList

CONSTANTS w1, w2, w3, c1, c2, r1, nothing

MCCallWorkers == {w1, w2}
MCRespWorkers == {w3}
MCCallItems   == {c1, c2}
=============================================================================
