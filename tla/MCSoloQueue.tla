------------------------------ MODULE MCSoloQueue ------------------------------
(***************************************************************************)
(* SoloQueue on the instances of MCMessageQueue.                           *)
(***************************************************************************)
EXTENDS SoloQueue, MCMessageQueue
================================================================================
