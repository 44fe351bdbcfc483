----------------------------- MODULE MCDotrigger -----------------------------
(***************************************************************************)
(* One DU, up to three decisions, room for one in the queue.               *)
(***************************************************************************)
EXTENDS Dotrigger

CONSTANT d1

MCOneDU == {d1}
=============================================================================
