------------------------------- MODULE MCServer -------------------------------
(***************************************************************************)
(* Server on small instances.                                              *)
(***************************************************************************)
EXTENDS Server, TLC

CONSTANTS c1, c2, c3, n1, n2, n3

ClientSymmetry == Permutations(Clients)
===============================================================================
