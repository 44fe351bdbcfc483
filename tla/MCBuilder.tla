------------------------------ MODULE MCBuilder ------------------------------
(***************************************************************************)
(* A small instance of Builder: two configured DUs and a stray one, two    *)
(* tags, so that a tag can be reused while the heap still holds the entry  *)
(* of its first event.                                                     *)
(***************************************************************************)
EXTENDS Builder

CONSTANTS d1, d2, stray, e1, e2

MCDU    == {d1, d2, stray}
MCChannelTags == {d1, d2}
MCTags  == {e1, e2}
=============================================================================
