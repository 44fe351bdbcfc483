----------------------------- MODULE MCGateLogic -----------------------------
(***************************************************************************)
(* Two DUs, of which one is expected, and two stamps per time window.      *)
(***************************************************************************)
EXTENDS GateLogic, TLC

CONSTANTS d1, d2, s1, s2

MCTmId  == 1..2
MCDU    == {d1, d2}
MCExpectedDU == {d1}
MCStamp == {s1, s2}
Symm    == Permutations(MCStamp)
=============================================================================
