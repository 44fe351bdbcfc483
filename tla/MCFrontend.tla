----------------------------- MODULE MCFrontend -----------------------------
(* Instance of Frontend for TLC. *)
EXTENDS Frontend
=============================================================================
