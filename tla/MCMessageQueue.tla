---------------------------- MODULE MCMessageQueue ----------------------------
(***************************************************************************)
(* MessageQueue on small instances.  Entries are told apart by the bytes   *)
(* they take, so that an amount subtracted for the wrong entry shows.      *)
(***************************************************************************)
EXTENDS MessageQueue, TLC

CONSTANTS m1, m2, m3, m4, t1, t2, t3, l1, l2

\* An empty message is legal: its entry takes the overhead alone.
MCLength == [m \in Msg |-> CASE m = m1 -> 0 [] m = m2 -> 1
                             [] m = m3 -> 3 [] OTHER -> 1]

AppenderSymmetry == Permutations(Appenders)

\* The comment on trim, "safe for concurrent calls": no interleaving of
\* appenders makes trim follow a nil entry.
TrimSafe == panic # "trim of a nil entry"
================================================================================
