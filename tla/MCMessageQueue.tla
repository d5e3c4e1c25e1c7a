--------------------------- MODULE MCMessageQueue ---------------------------
(***************************************************************************)
(* A queue of at most three messages and six bytes: messages of one to     *)
(* four bytes fill it by number and by size, leave it with free space at   *)
(* the front, at the tail and at both, and make a push move one message or *)
(* two, by one byte and by more; the message of seven never fits. Each     *)
(* message has bytes of its own.                                           *)
(***************************************************************************)
EXTENDS MessageQueue

MCMessages == {<<1>>, <<2, 3>>, <<4, 5, 6>>, <<7, 8, 9, 10>>, <<1, 2, 3, 4, 5, 6, 7>>}
MCBufSizes == {0, 2, 8}
=============================================================================
