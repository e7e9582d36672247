------------------------------ MODULE MCAppSync ------------------------------
(* Instances of AppSync for TLC. *)
EXTENDS AppSync, TLC
===============================================================================
