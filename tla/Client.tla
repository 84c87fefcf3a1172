------------------------------- MODULE Client -------------------------------
(***************************************************************************)
(* Whose page it is and whom it reads: what the modules about reading      *)
(* (Slots, Reader) have in common.                                         *)
(***************************************************************************)
CONSTANTS
  Author,
  Me,      \* one of them
  None

ASSUME ClientAssumption == Me \in Author
=============================================================================
