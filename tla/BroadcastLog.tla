----------------------------- MODULE BroadcastLog -----------------------------
(***************************************************************************)
(* What a room's message queue promises its listeners, with no memory      *)
(* management in sight: one order of messages that everybody agrees on,    *)
(* and a feed per listener that starts somewhere in it, follows it without *)
(* a gap, a repetition or a swap, and may be cut off at any moment.        *)
(* hub/messagequeue.go (MessageQueue.tla) is shown to implement it, and    *)
(* the chat room's end-to-end path (ChatRoom.tla) is built on it.          *)
(***************************************************************************)
EXTENDS Naturals, Sequences

CONSTANTS
  Listeners,   \* the listeners of one room, one per connection
  Msg          \* the messages appended to the room

VARIABLES
  log,         \* every message appended so far, in the order all agree on
  state,       \* state[l]: is l's feed not yet "open", "open", or "cut" off?
  from,        \* from[l]: the position of log at which l's feed starts
  got          \* got[l]: what l was handed so far, in order

absVars == <<log, state, from, got>>

AbsTypeOK ==
  /\ log \in Seq(Msg)
  /\ state \in [Listeners -> {"new", "open", "cut"}]
  /\ from \in [Listeners -> Nat]
  /\ got \in [Listeners -> Seq(Msg)]

AbsInit ==
  /\ log = <<>>
  /\ state = [l \in Listeners |-> "new"]
  /\ from = [l \in Listeners |-> 0]
  /\ got = [l \in Listeners |-> <<>>]

\* A message takes its place at the end of the order.
Publish(m) ==
  /\ log' = Append(log, m)
  /\ UNCHANGED <<state, from, got>>

\* A feed opens somewhere in the retained backlog, or right at its end.
Open(l) ==
  /\ state[l] = "new"
  /\ \E i \in 1..Len(log) + 1 : from' = [from EXCEPT ![l] = i]
  /\ state' = [state EXCEPT ![l] = "open"]
  /\ UNCHANGED <<log, got>>

\* The one after the last message handed over comes next.
Hand(l) ==
  /\ state[l] = "open"
  /\ from[l] + Len(got[l]) \in 1..Len(log)
  /\ got' = [got EXCEPT ![l] = Append(@, log[from[l] + Len(got[l])])]
  /\ UNCHANGED <<log, state, from>>

\* The listener fell behind the retained backlog, or was told to quit.
Cut(l) ==
  /\ state[l] = "open"
  /\ state' = [state EXCEPT ![l] = "cut"]
  /\ UNCHANGED <<log, from, got>>

AbsNext ==
  \/ \E m \in Msg : Publish(m)
  \/ \E l \in Listeners : Open(l) \/ Hand(l) \/ Cut(l)

AbsSpec == AbsInit /\ [][AbsNext]_absVars
================================================================================
