------------------------------- MODULE SoloQueue -------------------------------
(***************************************************************************)
(* MessageQueue with one more history variable: was there never more than  *)
(* one Append at a time?  As long as there was not, the queue must do what *)
(* its sequential tests ask of it.                                         *)
(***************************************************************************)
EXTENDS MessageQueue

VARIABLE alone   \* history: no two calls of Append have overlapped

Busy(t) == pc[t] # "idle"
OneBusy == \A t, u \in Appenders : Busy(t) /\ Busy(u) => t = u

SoloInit == Init /\ alone = TRUE
SoloNext == Next /\ alone' = (alone /\ OneBusy')

soloVars == <<vars, alone>>
SoloSpec == SoloInit /\ [][SoloNext]_soloVars

\* TestBacklog, for one Append at a time: the backlog holds as many of the
\* latest messages as fit, no fewer, and the byte count is exactly theirs.
FullBacklogAlone == alone => FullBacklog

\* With one Append at a time and a limit that is not negative, nothing in the
\* queue panics.
NoPanicAlone == alone => NoPanic

-------------------------------------------------------------------------------
(* The inductive invariant behind these: what an Append that is alone knows.  *)

\* All entries are announced but the one being filled, which is the last.
AloneFills ==
  /\ \A t \in Appenders : Filling(t) => ent[t] = newest - 1
  /\ \A i \in 1..newest - 1 :
       valid[i] = 0 \/ \E t \in Appenders : Filling(t) /\ ent[t] = i

\* Nobody moves the front under the hands of a trimmer, nor the byte count, which
\* is too high until the entry is trimmed.
AloneTrims ==
  \A t \in Appenders :
    /\ pc[t] \in {"oldest", "next", "drop"} => size > MaxSize
    /\ pc[t] \in {"next", "drop"} => ent[t] = oldest
    /\ pc[t] = "drop" => ptr[t] = oldest + 1
    /\ pc[t] = "sub" => oldest > 1 /\ ent[t] = oldest - 1

\* The byte count lacks what is swapped in and not added, and includes what is
\* trimmed and not subtracted.
AloneCounts ==
  /\ (\A t \in Appenders : pc[t] \notin {"link", "fill", "add", "sub"}) =>
       size = bytes[newest] - bytes[oldest]
  /\ \A t \in Appenders : pc[t] \in {"link", "fill", "add"} =>
       size = bytes[newest - 1] - bytes[oldest]
  /\ \A t \in Appenders : pc[t] = "sub" =>
       size = bytes[newest] - bytes[oldest - 1]

\* The entry trimmed last did not fit, and fits less since.
AloneFull == oldest > 1 => bytes[newest] - bytes[oldest - 1] > MaxSize

AloneInv ==
  alone => ~overrun /\ OneBusy /\ AloneFills /\ AloneTrims /\ AloneCounts /\ AloneFull

================================================================================
