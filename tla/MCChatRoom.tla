------------------------------ MODULE MCChatRoom ------------------------------
(***************************************************************************)
(* ChatRoom on small instances.                                            *)
(***************************************************************************)
EXTENDS ChatRoom, TLC

CONSTANTS c1, c2, c3, m1, m2, m3

ClientSymmetry == Permutations(Clients) \cup Permutations(Msg)
===============================================================================
