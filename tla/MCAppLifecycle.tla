--------------------------- MODULE MCAppLifecycle ---------------------------
(* Instance of AppLifecycle for TLC: two detection units. *)
EXTENDS AppLifecycle

MCDU == 1..2
=============================================================================
