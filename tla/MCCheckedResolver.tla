------------------------- MODULE MCCheckedResolver -------------------------
(* Instances of CheckedResolver for TLC: those of MCResolver. *)
EXTENDS MCResolver, CheckedResolver
=============================================================================
