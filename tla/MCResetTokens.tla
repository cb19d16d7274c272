---------------------------- MODULE MCResetTokens ----------------------------
(***************************************************************************)
(* Instances of the reset-token store for TLC.                             *)
(***************************************************************************)
EXTENDS ResetTokens, TLC

TokenSymmetry == Permutations(Token) \cup Permutations(UserId)
=============================================================================
