------------------------------ MODULE MCTokens ------------------------------
(* Instances of Tokens for TLC. *)
EXTENDS Tokens, TLC

CONSTANTS admin, ci, alice, bob, run

Interchangeable == Permutations({admin, ci}) \cup Permutations({alice, bob})
=============================================================================
