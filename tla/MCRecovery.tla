------------------------------ MODULE MCRecovery ------------------------------
(* The instance of Recovery that TLC explores: the HTTP exchanges are          *)
(* interchangeable.                                                            *)
EXTENDS Recovery, TLC

RequestSymmetry == Permutations(Requests)
=============================================================================
