-------------------------- MODULE MCTriggerPipeline --------------------------
(***************************************************************************)
(* Two DAQ threads, two time windows.                                      *)
(***************************************************************************)
EXTENDS TriggerPipeline

CONSTANTS d1, d2, s1

MCTmId  == 1..2
MCDU    == {d1, d2}
MCOneDU == {d1}
MCStamp == {s1}
=============================================================================
