------------------------------- MODULE MCWidget -------------------------------
(***************************************************************************)
(* Widget on small instances.                                              *)
(***************************************************************************)
EXTENDS Widget

CONSTANTS t1, t2, t3
===============================================================================
