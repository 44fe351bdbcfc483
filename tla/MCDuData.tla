------------------------------ MODULE MCDuData ------------------------------
(* Instances of DuData for TLC.  A ring of five cells holds two events of   *)
(* two cells, and one cell is left over.                                     *)
EXTENDS DuData

MCTimes    == {1, 2, 4}
MCRequests == {<<4, 4, 2>>}
=============================================================================
