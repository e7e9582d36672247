------------------------- MODULE MCAccountDeletion -------------------------
(* An instance of AccountDeletion for TLC. *)
EXTENDS AccountDeletion

CONSTANTS d1, d2, w1
=============================================================================
