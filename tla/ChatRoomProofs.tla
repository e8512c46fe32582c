----------------------------- MODULE ChatRoomProofs -----------------------------
(***************************************************************************)
(* The chat room keeps its promises for any connections and messages.      *)
(*                                                                         *)
(* The argument falls into three parts.  Messages: FeedInv, SpawnInv and   *)
(* WireInv follow a message from the log over the listener and the sender  *)
(* to the websocket, so that each step is one of BroadcastLog or none.     *)
(* The map: NumberInv (everybody has a number of his own), SlotInv,        *)
(* StageInv and ExitInv keep map, websockets and readers in step, whoever  *)
(* closes and removes a client.  The count: each step that changes the map *)
(* or counts a client adds or removes one element of Members or Uncounted. *)
(***************************************************************************)
EXTENDS ChatRoom, SafeValsProofs, SequenceTheorems, FiniteSetTheorems

\* What is read of pc after a reader or a sender has moved.
LEMMA ReaderMoved ==
  ASSUME TypeOK, NEW c \in Clients, NEW here, NEW there \in ReaderPcs,
         Move(c, "reader", here, there)
  PROVE  /\ pc[c].reader = here /\ pc'[c].reader = there
         /\ pc'[c].sender = pc[c].sender
         /\ \A d \in Clients : d # c => pc'[d] = pc[d]
         /\ pc' \in [Clients -> [reader : ReaderPcs, sender : SenderPcs]]
BY DEF TypeOK, Move

LEMMA SenderMoved ==
  ASSUME TypeOK, NEW c \in Clients, NEW here, NEW there \in SenderPcs,
         Move(c, "sender", here, there)
  PROVE  /\ pc[c].sender = here /\ pc'[c].sender = there
         /\ pc'[c].reader = pc[c].reader
         /\ \A d \in Clients : d # c => pc'[d] = pc[d]
         /\ pc' \in [Clients -> [reader : ReaderPcs, sender : SenderPcs]]
BY DEF TypeOK, Move

\* All that happens to a feed is what the queue does.
LEMMA FeedSteps ==
  ASSUME [Next]_vars
  PROVE  \/ \E c \in Clients, m \in Msg : ReadMsg(c, m)
         \/ \E c \in Clients : OpenFeed(c) \/ HandOver(c) \/ FallBehind(c) \/ QuitFeed(c)
         \/ UNCHANGED <<feed, msgs>>
BY DEF Next, Hub, Reader, Listener, Sender, Leaving, vars, Connect, TakeNumber,
       Insert, Spawn, Count, ReadError, Del, DelClient, LookClosed, Shut, WriteOk,
       WriteError, OutOfSync, Watch, CloseRoom, PurgeClient, PeerFails

\* All that happens to the map, its numbers and the websockets.
LEMMA CounterSteps ==
  ASSUME [Next]_vars
  PROVE  \/ \E c \in Clients : TakeNumber(c) \/ Insert(c) \/ Count(c)
         \/ \E c \in Clients : DelClient(c)
         \/ UNCHANGED <<numclients, connectedclients, clients, id, raw>>
BY DEF Next, Hub, Reader, Listener, Sender, Leaving, vars, room, ws, Connect, Spawn, ReadError,
       Del, LookClosed, Shut, WriteOk, OpenFeed, HandOver, FallBehind, QuitFeed, ReadMsg,
       WriteError, OutOfSync, Watch, CloseRoom, PurgeClient, PeerFails

\* Who moves.
LEMMA PcSteps ==
  ASSUME [Next]_vars
  PROVE  \/ \E c \in Clients :
              \/ Connect(c) \/ TakeNumber(c) \/ Insert(c) \/ Spawn(c) \/ Count(c)
              \/ ReadError(c) \/ HandOver(c) \/ WriteOk(c) \/ WriteError(c)
              \/ OutOfSync(c) \/ Leaving(c, "reader") \/ Leaving(c, "sender")
         \/ UNCHANGED pc
BY DEF Next, Hub, Reader, Listener, Sender, vars, OpenFeed, FallBehind, QuitFeed, ReadMsg,
       Watch, CloseRoom, PurgeClient, PeerFails

\* Who touches a channel, a peer, a purge or the process.
LEMMA RestSteps ==
  ASSUME [Next]_vars
  PROVE  \/ \E c \in Clients : PeerFails(c) \/ Watch(c) \/ PurgeClient(c)
         \/ \E c \in Clients, role \in {"reader", "sender"} : Shut(c, role)
         \/ CloseRoom
         \/ UNCHANGED <<quit, closed, peer, purge, roomClosed, panic>>
BY DEF Next, Hub, Reader, Listener, Sender, Leaving, vars, room, ws, Connect, TakeNumber,
       Insert, Spawn, Count, ReadError, ReadMsg, Del, DelClient, LookClosed, WriteOk,
       WriteError, OutOfSync, OpenFeed, HandOver, FallBehind, QuitFeed

-------------------------------------------------------------------------------
(* Types.                                                                    *)

LEMMA FeedTypeKept ==
  ASSUME TypeOK, [Next]_vars
  PROVE  AbsTypeOK' /\ msgs' \in [Clients -> BOOLEAN]
<1> USE DEF TypeOK, AbsTypeOK, Clients
<1>1. ASSUME NEW c \in Clients, NEW m \in Msg, ReadMsg(c, m)
      PROVE  AbsTypeOK' /\ msgs' \in [Clients -> BOOLEAN]
  BY <1>1 DEF ReadMsg, Publish
<1>2. ASSUME NEW c \in Clients, OpenFeed(c)
      PROVE  AbsTypeOK' /\ msgs' \in [Clients -> BOOLEAN]
  <2>1. PICK i \in 1..Len(log) + 1 : from' = [from EXCEPT ![c] = i]
    BY <1>2 DEF OpenFeed, Open
  <2> QED BY <1>2, <2>1 DEF OpenFeed, Open
<1>3. ASSUME NEW c \in Clients, HandOver(c)
      PROVE  AbsTypeOK' /\ msgs' \in [Clients -> BOOLEAN]
  <2>1. log[from[c] + Len(got[c])] \in Msg /\ got[c] \in Seq(Msg)
    BY <1>3 DEF HandOver, Hand
  <2> QED BY <1>3, <2>1 DEF HandOver, Hand
<1>4. ASSUME NEW c \in Clients, FallBehind(c) \/ QuitFeed(c)
      PROVE  AbsTypeOK' /\ msgs' \in [Clients -> BOOLEAN]
  BY <1>4 DEF FallBehind, QuitFeed, Cut
<1>5. CASE UNCHANGED <<feed, msgs>>
  BY <1>5 DEF feed
<1> QED BY <1>1, <1>2, <1>3, <1>4, <1>5, FeedSteps

LEMMA MapTypeKept ==
  ASSUME TypeOK, [Next]_vars
  PROVE  /\ numclients' \in Word /\ connectedclients' \in Word
         /\ clients' \in [Word -> Clients \cup {NoClient}]
         /\ id' \in [Clients -> Word]
         /\ raw' \in [Clients -> {"open", "closed"}]
<1> USE DEF TypeOK
<1>1. CASE \E c \in Clients : TakeNumber(c)
  BY <1>1, IncIs DEF TakeNumber, ws
<1>2. CASE \E c \in Clients : Insert(c)
  BY <1>2 DEF Insert, ws
<1>3. CASE \E c \in Clients : Count(c)
  BY <1>3, IncIs DEF Count, ws
<1>4. CASE \E c \in Clients : DelClient(c)
  BY <1>4, DecIs DEF DelClient
<1>5. CASE UNCHANGED <<numclients, connectedclients, clients, id, raw>>
  BY <1>5
<1> QED BY <1>1, <1>2, <1>3, <1>4, <1>5, CounterSteps

LEMMA PcTypeKept ==
  ASSUME TypeOK, [Next]_vars
  PROVE  pc' \in [Clients -> [reader : ReaderPcs, sender : SenderPcs]]
<1>1. ASSUME NEW c \in Clients,
             \/ Connect(c) \/ TakeNumber(c) \/ Insert(c) \/ Count(c) \/ ReadError(c)
             \/ Leaving(c, "reader")
      PROVE  pc' \in [Clients -> [reader : ReaderPcs, sender : SenderPcs]]
  <2>1. \E here \in ReaderPcs, there \in ReaderPcs : Move(c, "reader", here, there)
    BY <1>1 DEF Connect, TakeNumber, Insert, Count, ReadError, Leaving, Del, LookClosed,
                Shut, AfterDel, AfterClose, ReaderPcs
  <2> QED BY <2>1, ReaderMoved
<1>2. ASSUME NEW c \in Clients,
             \/ HandOver(c) \/ WriteOk(c) \/ WriteError(c) \/ OutOfSync(c)
             \/ Leaving(c, "sender")
      PROVE  pc' \in [Clients -> [reader : ReaderPcs, sender : SenderPcs]]
  <2>1. \E here \in SenderPcs, there \in SenderPcs : Move(c, "sender", here, there)
    BY <1>2 DEF HandOver, WriteOk, WriteError, OutOfSync, Leaving, Del, LookClosed,
                Shut, AfterDel, AfterClose, SenderPcs
  <2> QED BY <2>1, SenderMoved
<1>3. ASSUME NEW c \in Clients, Spawn(c)
      PROVE  pc' \in [Clients -> [reader : ReaderPcs, sender : SenderPcs]]
  BY <1>3 DEF Spawn, TypeOK, ReaderPcs, SenderPcs
<1>4. CASE UNCHANGED pc
  BY <1>4 DEF TypeOK
<1> QED BY <1>1, <1>2, <1>3, <1>4, PcSteps

LEMMA RestTypeKept ==
  ASSUME TypeOK, [Next]_vars
  PROVE  /\ quit' \in [Clients -> BOOLEAN] /\ closed' \in [Clients -> BOOLEAN]
         /\ peer' \in [Clients -> {"ok", "gone", "stalled", "binary"}]
         /\ purge' \in [Clients -> BOOLEAN]
         /\ roomClosed' \in BOOLEAN /\ panic' \in BOOLEAN
<1> USE DEF TypeOK, room, ws
<1>1. ASSUME NEW c \in Clients, PeerFails(c)
      PROVE  peer' \in [Clients -> {"ok", "gone", "stalled", "binary"}]
  BY <1>1, RoomAssumption DEF PeerFails
<1>2. CASE \E c \in Clients : PeerFails(c)
  BY <1>1, <1>2 DEF PeerFails
<1>3. CASE \E c \in Clients : Watch(c)
  BY <1>3 DEF Watch
<1>4. CASE \E c \in Clients, role \in {"reader", "sender"} : Shut(c, role)
  BY <1>4 DEF Shut
<1>5. CASE \E c \in Clients : PurgeClient(c)
  BY <1>5 DEF PurgeClient, DelClient
<1>6. CASE CloseRoom
  BY <1>6 DEF CloseRoom
<1>7. CASE UNCHANGED <<quit, closed, peer, purge, roomClosed, panic>>
  BY <1>7
<1> QED BY <1>2, <1>3, <1>4, <1>5, <1>6, <1>7, RestSteps

\* A sender leaves "none" when its reader leaves "spawn", and neither goes back.
LEMMA SpawnKept ==
  ASSUME TypeOK, SpawnInv, [Next]_vars
  PROVE  SpawnInv'
<1> USE DEF SpawnInv
<1>1. ASSUME NEW c \in Clients,
             \/ Connect(c) \/ TakeNumber(c) \/ Insert(c) \/ Count(c) \/ ReadError(c)
             \/ Leaving(c, "reader")
      PROVE  SpawnInv'
  <2>1. PICK here \in ReaderPcs, there \in ReaderPcs :
          /\ Move(c, "reader", here, there)
          /\ here \in {"away", "number", "insert", "spawn"}
               <=> there \in {"away", "number", "insert", "spawn"}
    BY <1>1 DEF Connect, TakeNumber, Insert, Count, ReadError, Leaving, Del, LookClosed,
                Shut, AfterDel, AfterClose, ReaderPcs
  <2> QED BY <2>1, ReaderMoved
<1>2. ASSUME NEW c \in Clients,
             \/ HandOver(c) \/ WriteOk(c) \/ WriteError(c) \/ OutOfSync(c)
             \/ Leaving(c, "sender")
      PROVE  SpawnInv'
  <2>1. PICK here \in SenderPcs \ {"none"}, there \in SenderPcs \ {"none"} :
          Move(c, "sender", here, there)
    BY <1>2 DEF HandOver, WriteOk, WriteError, OutOfSync, Leaving, Del, LookClosed,
                Shut, AfterDel, AfterClose, SenderPcs
  <2> QED BY <2>1, SenderMoved
<1>3. ASSUME NEW c \in Clients, Spawn(c)
      PROVE  SpawnInv'
  BY <1>3 DEF Spawn, TypeOK
<1>4. CASE UNCHANGED pc
  BY <1>4
<1> QED BY <1>1, <1>2, <1>3, <1>4, PcSteps

-------------------------------------------------------------------------------
(* From the log to the websocket.                                            *)

\* What appending does to a sequence, in the form in which it is needed here.
LEMMA Appended ==
  ASSUME NEW S, NEW s \in Seq(S), NEW x \in S
  PROVE  /\ Append(s, x) \in Seq(S) /\ Len(Append(s, x)) = Len(s) + 1
         /\ \A i \in 1..Len(s) : Append(s, x)[i] = s[i]
         /\ Append(s, x)[Len(s) + 1] = x
BY AppendProperties

\* A feed opens, goes on with the next message of the log, or ends.
LEMMA FeedKept ==
  ASSUME TypeOK, FeedInv, [Next]_vars
  PROVE  FeedInv'
<1> USE DEF FeedInv
<1>1. /\ log \in Seq(Msg) /\ Len(log) \in Nat /\ Clients = Listeners
      /\ state \in [Clients -> {"new", "open", "cut"}]
      /\ from \in [Clients -> Nat] /\ got \in [Clients -> Seq(Msg)]
      /\ msgs \in [Clients -> BOOLEAN]
  BY DEF TypeOK, AbsTypeOK, Clients
<1>2. ASSUME NEW c \in Clients, NEW m \in Msg, ReadMsg(c, m)
      PROVE  FeedInv'
  <2>1. log' = Append(log, m) /\ UNCHANGED <<state, from, got, msgs>>
    BY <1>2 DEF ReadMsg, Publish
  <2>2. Len(log') = Len(log) + 1 /\ \A i \in 1..Len(log) : log'[i] = log[i]
    BY <1>1, <2>1, Appended
  <2>3. 1..Len(log) \subseteq 1..Len(log')
    BY <1>1, <2>2
  <2> QED BY <2>1, <2>2, <2>3
<1>3. ASSUME NEW c \in Clients, OpenFeed(c)
      PROVE  FeedInv'
  <2>1. PICK i \in 1..Len(log) + 1 : from' = [from EXCEPT ![c] = i]
    BY <1>3 DEF OpenFeed, Open
  <2>2. /\ state[c] = "new" /\ state' = [state EXCEPT ![c] = "open"]
        /\ UNCHANGED <<log, got, msgs>>
    BY <1>3 DEF OpenFeed, Open
  <2>3. i # 0 /\ Len(got[c]) = 0
    BY <1>1, <2>1, <2>2
  <2> QED BY <1>1, <2>1, <2>2, <2>3
<1>4. ASSUME NEW c \in Clients, HandOver(c)
      PROVE  FeedInv'
  <2> DEFINE n == from[c] + Len(got[c])
  <2>1. /\ state[c] = "open" /\ n \in 1..Len(log)
        /\ got' = [got EXCEPT ![c] = Append(@, log[n])]
        /\ UNCHANGED <<log, state, from, msgs>>
    BY <1>4 DEF HandOver, Hand
  <2>2. /\ got'[c] = Append(got[c], log[n]) /\ log[n] \in Msg
        /\ \A d \in Clients : d # c => got'[d] = got[d]
    BY <1>1, <2>1
  <2>3. /\ Len(got'[c]) = Len(got[c]) + 1
        /\ \A k \in 1..Len(got[c]) : got'[c][k] = got[c][k]
        /\ got'[c][Len(got[c]) + 1] = log[n]
    BY <1>1, <2>2, Appended
  <2>4. ASSUME NEW k \in 1..Len(got'[c])
        PROVE  from[c] + k - 1 \in 1..Len(log) /\ got'[c][k] = log[from[c] + k - 1]
    <3>1. Len(got[c]) \in Nat /\ from[c] \in Nat
      BY <1>1
    <3>2. k \in 1..Len(got[c]) \/ k = Len(got[c]) + 1
      BY <2>3, <3>1
    <3>3. CASE k \in 1..Len(got[c])
      BY <2>3, <3>3
    <3>4. CASE k = Len(got[c]) + 1
      BY <2>1, <2>3, <3>1, <3>4
    <3> QED BY <3>2, <3>3, <3>4
  <2> QED BY <1>1, <2>1, <2>2, <2>4
<1>5. ASSUME NEW c \in Clients, FallBehind(c) \/ QuitFeed(c)
      PROVE  FeedInv'
  <2>1. /\ state[c] = "open" /\ state' = [state EXCEPT ![c] = "cut"]
        /\ \A d \in Clients : d # c => msgs'[d] = msgs[d]
        /\ UNCHANGED <<log, from, got>>
    BY <1>1, <1>5 DEF FallBehind, QuitFeed, Cut
  <2> QED BY <1>1, <2>1
<1>6. CASE UNCHANGED <<feed, msgs>>
  BY <1>6 DEF feed
<1> QED BY <1>2, <1>3, <1>4, <1>5, <1>6, FeedSteps

\* A message comes in, is handed over and written; all else leaves the senders in
\* their loops.
LEMMA FlowSteps ==
  ASSUME [Next]_vars
  PROVE  \/ \E c \in Clients, m \in Msg : ReadMsg(c, m)
         \/ \E c \in Clients : WriteOk(c) \/ HandOver(c) \/ OpenFeed(c)
         \/ \E c \in Clients : FallBehind(c) \/ QuitFeed(c)
         \/ \E c \in Clients : Spawn(c) \/ WriteError(c) \/ OutOfSync(c) \/ Leaving(c, "sender")
         \/ /\ UNCHANGED <<log, from, wire, got, state>>
            /\ \/ UNCHANGED pc
               \/ \E c \in Clients, here, there \in ReaderPcs : Move(c, "reader", here, there)
BY DEF Next, Hub, Reader, Listener, Sender, vars, feed, room, ws, Connect, TakeNumber,
       Insert, Count, ReadError, Watch, CloseRoom, PurgeClient,
       PeerFails, DelClient, Leaving, Del, LookClosed, Shut, AfterDel, AfterClose, ReaderPcs

\* What a client was sent is what its listener handed over, one message behind while
\* the sender writes.
LEMMA WireKept ==
  ASSUME TypeOK, SpawnInv, FeedInv, WireInv, [Next]_vars
  PROVE  wire' \in [Clients -> Seq(Msg)] /\ WireInv'
<1> USE DEF WireInv
<1>1. /\ state \in [Clients -> {"new", "open", "cut"}]
      /\ got \in [Clients -> Seq(Msg)] /\ wire \in [Clients -> Seq(Msg)]
      /\ \A c \in Clients : Len(got[c]) \in Nat /\ Len(wire[c]) \in Nat
  BY DEF TypeOK, AbsTypeOK, Clients
<1>2. ASSUME NEW c \in Clients, WriteOk(c)
      PROVE  wire' \in [Clients -> Seq(Msg)] /\ WireInv'
  <2> DEFINE m == got[c][Len(got[c])]
  <2>1. /\ pc[c].sender = "write" /\ pc'[c].sender = "recv"
        /\ \A d \in Clients : d # c => pc'[d] = pc[d]
        /\ wire' = [wire EXCEPT ![c] = Append(@, m)]
        /\ UNCHANGED <<got, state>>
    BY <1>2, SenderMoved DEF WriteOk, feed, SenderPcs
  <2>2. Len(wire[c]) + 1 = Len(got[c]) /\ m \in Msg
    BY <1>1, <2>1
  <2>3. /\ wire'[c] = Append(wire[c], m) /\ wire' \in [Clients -> Seq(Msg)]
        /\ \A d \in Clients : d # c => wire'[d] = wire[d]
    BY <1>1, <2>1, <2>2, Appended
  <2>4. /\ Len(wire'[c]) = Len(wire[c]) + 1 /\ wire'[c][Len(wire[c]) + 1] = m
        /\ \A k \in 1..Len(wire[c]) : wire'[c][k] = wire[c][k]
    BY <1>1, <2>2, <2>3, Appended
  <2>5. ASSUME NEW k \in 1..Len(wire'[c])
        PROVE  k <= Len(got[c]) /\ wire'[c][k] = got[c][k]
    BY <1>1, <2>2, <2>4
  <2>6. Len(wire'[c]) = Len(got[c])
    BY <2>2, <2>4
  <2>7. ASSUME NEW d \in Clients, d # c
        PROVE  wire'[d] = wire[d] /\ pc'[d] = pc[d]
    BY <2>1, <2>3, <2>7
  <2> QED BY <2>1, <2>3, <2>5, <2>6, <2>7
<1>3. ASSUME NEW c \in Clients, HandOver(c)
      PROVE  wire' \in [Clients -> Seq(Msg)] /\ WireInv'
  <2> DEFINE m == log[from[c] + Len(got[c])]
  <2>1. /\ pc[c].sender = "recv" /\ pc'[c].sender = "write"
        /\ \A d \in Clients : d # c => pc'[d] = pc[d]
        /\ UNCHANGED <<wire, state>>
    BY <1>3, SenderMoved DEF HandOver, Hand, ws, SenderPcs
  <2>2. got'[c] = Append(got[c], m) /\ \A d \in Clients : d # c => got'[d] = got[d]
    BY <1>1, <1>3 DEF HandOver, Hand
  <2>3. m \in Msg
    BY <1>3 DEF HandOver, Hand, TypeOK, AbsTypeOK
  <2>4. Len(got'[c]) = Len(got[c]) + 1 /\ \A k \in 1..Len(got[c]) : got'[c][k] = got[c][k]
    BY <1>1, <2>2, <2>3, Appended
  <2>5. Len(wire[c]) = Len(got[c])
    BY <2>1
  <2>6. \A k \in 1..Len(wire[c]) : k <= Len(got'[c]) /\ wire[c][k] = got'[c][k]
    BY <1>1, <2>4, <2>5
  <2>7. ASSUME NEW d \in Clients, d # c
        PROVE  got'[d] = got[d] /\ pc'[d] = pc[d]
    BY <2>1, <2>2, <2>7
  <2>8. Len(wire[c]) + 1 = Len(got'[c])
    BY <2>4, <2>5
  <2>9. wire' = wire /\ state' = state
    BY <2>1
  <2>10. wire' \in [Clients -> Seq(Msg)]
    BY <1>1, <2>9
  <2>11. \A d \in Clients : \A k \in 1..Len(wire'[d]) :
           k <= Len(got'[d]) /\ wire'[d][k] = got'[d][k]
    BY <2>6, <2>7, <2>9
  <2> QED BY <2>1, <2>7, <2>8, <2>9, <2>10, <2>11
<1>4. ASSUME NEW c \in Clients, OpenFeed(c)
      PROVE  wire' \in [Clients -> Seq(Msg)] /\ WireInv'
  <2>1. /\ UNCHANGED <<wire, got, pc>> /\ state'[c] = "open"
        /\ \A d \in Clients : d # c => state'[d] = state[d]
    BY <1>1, <1>4 DEF OpenFeed, Open, ws
  <2> QED BY <1>1, <2>1
<1>5. ASSUME NEW c \in Clients, FallBehind(c) \/ QuitFeed(c)
      PROVE  wire' \in [Clients -> Seq(Msg)] /\ WireInv'
  BY <1>1, <1>5 DEF FallBehind, QuitFeed, Cut, ws
<1>6. ASSUME NEW c \in Clients,
             Spawn(c) \/ WriteError(c) \/ OutOfSync(c) \/ Leaving(c, "sender")
      PROVE  wire' \in [Clients -> Seq(Msg)] /\ WireInv'
  <2>1. UNCHANGED <<wire, got, state>>
    BY <1>6 DEF Spawn, WriteError, OutOfSync, Leaving, Del, DelClient, LookClosed, Shut,
                feed, ws
  <2>2. \A d \in Clients : d # c => pc'[d] = pc[d]
    BY <1>6 DEF Spawn, WriteError, OutOfSync, Leaving, Del, LookClosed, Shut, Move, TypeOK
  <2>3. CASE Spawn(c)
    <3>1. pc[c].sender = "none" /\ pc'[c].sender = "recv"
      BY <2>3 DEF Spawn, TypeOK, SpawnInv
    <3> QED BY <1>1, <2>1, <2>2, <3>1
  <2>4. CASE WriteError(c) \/ OutOfSync(c) \/ Leaving(c, "sender")
    <3>1. /\ pc[c].sender \notin {"none"} /\ pc'[c].sender \notin {"none", "recv", "write"}
          /\ pc[c].sender = "recv" => ~msgs[c]
      BY <2>4, SenderMoved DEF WriteError, OutOfSync, Leaving, Del, LookClosed, Shut,
                               AfterDel, AfterClose, SenderPcs
    <3>2. state[c] # "new"
      BY <1>1, <3>1 DEF FeedInv
    <3> QED BY <1>1, <2>1, <2>2, <3>1, <3>2
  <2> QED BY <1>6, <2>3, <2>4
<1>7. CASE UNCHANGED <<wire, got, state, pc>>
  BY <1>1, <1>7
<1>8. ASSUME NEW c \in Clients, NEW here \in ReaderPcs, NEW there \in ReaderPcs,
             Move(c, "reader", here, there), UNCHANGED <<wire, got, state>>
      PROVE  wire' \in [Clients -> Seq(Msg)] /\ WireInv'
  <2>1. \A d \in Clients : pc'[d].sender = pc[d].sender
    BY <1>8, ReaderMoved
  <2> QED BY <1>1, <1>8, <2>1
<1>9. ASSUME NEW c \in Clients, NEW m \in Msg, ReadMsg(c, m)
      PROVE  wire' \in [Clients -> Seq(Msg)] /\ WireInv'
  BY <1>1, <1>9 DEF ReadMsg, Publish, ws
<1> QED BY <1>2, <1>3, <1>4, <1>5, <1>6, <1>7, <1>8, <1>9, FlowSteps

\* The part of IInv that is about messages: it needs nothing of numbers and the map.
FlowInv == TypeOK /\ SpawnInv /\ FeedInv /\ WireInv

LEMMA FlowInitial == Init => FlowInv
<1> SUFFICES ASSUME Init PROVE FlowInv
  OBVIOUS
<1> USE DEF Init, AbsInit, Clients
<1>1. 0 \in Word
  BY WordAssumption DEF Word
<1>2. AbsTypeOK
  BY DEF AbsTypeOK
<1>3. pc \in [Clients -> [reader : ReaderPcs, sender : SenderPcs]]
  BY DEF ReaderPcs, SenderPcs
<1>4. wire \in [Clients -> Seq(Msg)]
  <2>1. <<>> \in Seq(Msg)
    OBVIOUS
  <2> QED BY <2>1
<1>5. TypeOK
  BY <1>1, <1>2, <1>3, <1>4 DEF TypeOK
<1>6. SpawnInv
  BY DEF SpawnInv
<1>7. \A c \in Clients :
        /\ Len(wire[c]) = 0 /\ Len(got[c]) = 0 /\ got[c] = <<>>
        /\ state[c] = "new" /\ from[c] = 0 /\ msgs[c] /\ pc[c].sender = "none"
  OBVIOUS
<1> HIDE DEF Init, AbsInit
<1>8. FeedInv
  <2>1. \A c \in Clients : \A k \in 1..Len(got[c]) : FALSE
    BY <1>7
  <2> QED BY <1>7, <2>1 DEF FeedInv
<1>9. WireInv
  <2>1. \A c \in Clients : \A k \in 1..Len(wire[c]) : FALSE
    BY <1>7
  <2> QED BY <1>7, <2>1 DEF WireInv
<1> QED BY <1>5, <1>6, <1>8, <1>9 DEF FlowInv

LEMMA FlowKept == ASSUME FlowInv, [Next]_vars PROVE FlowInv'
<1> USE DEF FlowInv
<1>1. wire' \in [Clients -> Seq(Msg)]
  BY WireKept
<1>2. TypeOK'
  BY <1>1, FeedTypeKept, MapTypeKept, PcTypeKept, RestTypeKept DEF TypeOK
<1> QED BY <1>2, SpawnKept, FeedKept, WireKept

LEMMA FlowInductive == Spec => []FlowInv
BY FlowInitial, FlowKept, PTL DEF Spec

\* Every variable has the type of the code's; in particular the counters stay words.
THEOREM TypeCorrect == Spec => []TypeOK
<1>1. FlowInv => TypeOK
  BY DEF FlowInv
<1> QED BY <1>1, FlowInductive, PTL

\* What the room shows of a feed is unchanged when the sender neither enters nor
\* leaves its loop.
LEMMA WireStateKept ==
  ASSUME UNCHANGED from,
         \A d \in Clients : pc'[d].sender \in {"none", "recv", "write"}
                              <=> pc[d].sender \in {"none", "recv", "write"}
  PROVE  UNCHANGED wireState
BY DEF wireState

\* A step of the room is one of BroadcastLog, with the websocket for the feed.
LEMMA WireStep ==
  ASSUME FlowInv, FlowInv', [Next]_vars
  PROVE  Wire!AbsNext \/ UNCHANGED Wire!absVars
<1> USE DEF FlowInv, Clients
<1>1. /\ from \in [Clients -> Nat] /\ wire \in [Clients -> Seq(Msg)]
      /\ got \in [Clients -> Seq(Msg)] /\ log \in Seq(Msg)
      /\ \A c \in Clients : Len(got[c]) \in Nat /\ Len(wire[c]) \in Nat
  BY DEF TypeOK, AbsTypeOK
<1>2. ASSUME NEW c \in Clients, NEW m \in Msg, ReadMsg(c, m)
      PROVE  Wire!AbsNext
  <2>1. log' = Append(log, m) /\ UNCHANGED <<from, wire, pc>>
    BY <1>2 DEF ReadMsg, Publish, ws
  <2>2. UNCHANGED wireState
    BY <2>1, WireStateKept
  <2> QED BY <2>1, <2>2 DEF Wire!AbsNext, Wire!Publish
<1>3. ASSUME NEW c \in Clients, OpenFeed(c)
      PROVE  Wire!AbsNext
  <2>1. PICK i \in 1..Len(log) + 1 : from' = [from EXCEPT ![c] = i]
    BY <1>3 DEF OpenFeed, Open
  <2>2. state[c] = "new" /\ UNCHANGED <<log, wire, pc>>
    BY <1>3 DEF OpenFeed, Open, ws
  <2>3. from[c] = 0 /\ pc[c].sender \in {"none", "recv", "write"} /\ from'[c] # 0
    BY <1>1, <2>1, <2>2 DEF FeedInv, WireInv
  <2>4. wireState[c] = "new"
    BY <2>3 DEF wireState
  <2>5. wireState' = [wireState EXCEPT ![c] = "open"]
    BY <1>1, <2>1, <2>2, <2>3 DEF wireState
  <2> QED BY <2>1, <2>2, <2>4, <2>5 DEF Wire!AbsNext, Wire!Open
<1>4. ASSUME NEW c \in Clients, WriteOk(c)
      PROVE  Wire!AbsNext
  <2> DEFINE n == Len(got[c])
  <2>1. /\ pc[c].sender = "write" /\ pc'[c].sender = "recv"
        /\ \A d \in Clients : d # c => pc'[d] = pc[d]
        /\ wire' = [wire EXCEPT ![c] = Append(@, got[c][n])]
        /\ UNCHANGED <<log, from>>
    BY <1>4, SenderMoved DEF WriteOk, feed, SenderPcs
  <2>2. Len(wire[c]) + 1 = n /\ n \in 1..n
    BY <1>1, <2>1 DEF WireInv
  <2>3. from[c] + n - 1 \in 1..Len(log) /\ got[c][n] = log[from[c] + n - 1]
    BY <2>2 DEF FeedInv
  <2>4. from[c] + n - 1 = from[c] + Len(wire[c])
    BY <1>1, <2>2
  <2>5. wireState[c] = "open"
    <3>1. got[c] # <<>>
      BY <2>2
    <3> QED BY <2>1, <3>1 DEF FeedInv, wireState, TypeOK, AbsTypeOK
  <2>6. UNCHANGED wireState
    BY <2>1, WireStateKept
  <2> QED BY <2>1, <2>3, <2>4, <2>5, <2>6 DEF Wire!AbsNext, Wire!Hand
<1>5. ASSUME NEW c \in Clients, WriteError(c) \/ OutOfSync(c)
      PROVE  Wire!AbsNext
  <2>1. /\ pc[c].sender \in {"recv", "write"}
        /\ pc'[c].sender \notin {"none", "recv", "write"}
        /\ \A d \in Clients : d # c => pc'[d] = pc[d]
        /\ UNCHANGED <<log, from, wire>>
    BY <1>5, SenderMoved DEF WriteError, OutOfSync, feed, ws, SenderPcs
  <2>2. from[c] # 0
    BY <2>1 DEF FeedInv, WireInv
  <2>3. wireState[c] = "open" /\ wireState' = [wireState EXCEPT ![c] = "cut"]
    BY <2>1, <2>2 DEF wireState
  <2> QED BY <2>1, <2>3 DEF Wire!AbsNext, Wire!Cut
<1>6. ASSUME NEW c \in Clients,
             FallBehind(c) \/ QuitFeed(c) \/ Spawn(c) \/ HandOver(c) \/ Leaving(c, "sender")
      PROVE  UNCHANGED Wire!absVars
  <2>1. UNCHANGED <<log, from, wire>>
    BY <1>6 DEF FallBehind, QuitFeed, Cut, Spawn, HandOver, Hand, Leaving, Del, DelClient,
                LookClosed, Shut, feed, ws
  <2>2. \A d \in Clients : pc'[d].sender \in {"none", "recv", "write"}
                             <=> pc[d].sender \in {"none", "recv", "write"}
    <3>1. CASE FallBehind(c) \/ QuitFeed(c)
      BY <3>1 DEF FallBehind, QuitFeed
    <3>2. CASE Spawn(c)
      BY <3>2 DEF Spawn, SpawnInv, TypeOK
    <3>3. CASE HandOver(c) \/ Leaving(c, "sender")
      BY <3>3, SenderMoved DEF HandOver, Leaving, Del, LookClosed, Shut, AfterDel,
                               AfterClose, SenderPcs
    <3> QED BY <1>6, <3>1, <3>2, <3>3
  <2> QED BY <2>1, <2>2, WireStateKept DEF Wire!absVars
<1>7. CASE /\ UNCHANGED <<log, from, wire>>
           /\ \/ UNCHANGED pc
              \/ \E c \in Clients, here, there \in ReaderPcs : Move(c, "reader", here, there)
  <2>1. \A d \in Clients : pc'[d].sender = pc[d].sender
    BY <1>7, ReaderMoved
  <2> QED BY <1>7, <2>1, WireStateKept DEF Wire!absVars
<1> QED BY <1>2, <1>3, <1>4, <1>5, <1>6, <1>7, FlowSteps

\* End to end: what l_sendToClient writes to each websocket is a feed of the room's
\* messages as the queue promises it, whoever closes or removes the client meanwhile
\* (l_addClient, l_sendToClient, handleNewMsg, readMessage, writeMessage).
THEOREM WiresFollow == Spec => WiresFollowLog
<1>1. Init => Wire!AbsInit
  BY DEF Init, AbsInit, Wire!AbsInit, wireState, Clients
<1>2. FlowInv /\ FlowInv' /\ [Next]_vars => [Wire!AbsNext]_(Wire!absVars)
  BY WireStep
<1> QED BY <1>1, <1>2, FlowInductive, PTL DEF Spec, WiresFollowLog, Wire!AbsSpec

-------------------------------------------------------------------------------
(* The map of clients.                                                       *)

\* What the steps that concern the map are, and that the others only move senders.
LEMMA MapSteps ==
  ASSUME [Next]_vars
  PROVE  \/ \E c \in Clients : Connect(c) \/ TakeNumber(c) \/ Insert(c) \/ Spawn(c) \/ Count(c)
         \/ \E c \in Clients : Del(c, "reader") \/ Del(c, "sender") \/ PurgeClient(c)
         \/ \E c \in Clients : ReadError(c) \/ LookClosed(c, "reader") \/ Shut(c, "reader")
         \/ CloseRoom
         \/ \E c \in Clients : LookClosed(c, "sender") \/ Shut(c, "sender")
         \/ /\ UNCHANGED <<numclients, connectedclients, clients, id, raw, purge, closed>>
            /\ \/ UNCHANGED pc
               \/ \E c \in Clients, here, there \in SenderPcs : Move(c, "sender", here, there)
BY DEF Next, Hub, Reader, Listener, Sender, Leaving, vars, room, ws, WriteOk, OpenFeed,
       HandOver, FallBehind, QuitFeed, ReadMsg, WriteError, OutOfSync, Watch, PeerFails,
       SenderPcs

\* Every client in the map is there under its own number, and no other client is.
LEMMA MemberIff ==
  ASSUME TypeOK, NumberInv, SlotInv, NEW c \in Clients
  PROVE  /\ c \in Members <=> clients[id[c]] = c
         /\ c \in Members => c \in Entered
         /\ c \in Numbered => (clients[id[c]] = NoClient <=> c \notin Members)
<1> USE DEF Members
<1>1. id[c] \in Word /\ clients \in [Word -> Clients \cup {NoClient}] /\ c # NoClient
  BY RoomAssumption DEF TypeOK
<1>2. c \in Members <=> clients[id[c]] = c
  BY <1>1 DEF SlotInv
<1>3. c \in Members => c \in Entered
  BY <1>1 DEF SlotInv
<1>4. ASSUME c \in Numbered
      PROVE  clients[id[c]] = NoClient <=> c \notin Members
  <2>1. CASE clients[id[c]] = NoClient
    BY <1>1, <1>2, <2>1
  <2>2. CASE clients[id[c]] # NoClient
    <3>1. clients[id[c]] \in Entered /\ id[clients[id[c]]] = id[c]
      BY <1>1, <2>2 DEF SlotInv
    <3>2. clients[id[c]] = c
      BY <1>4, <3>1 DEF NumberInv, Entered
    <3> QED BY <1>2, <2>2, <3>2
  <2> QED BY <2>1, <2>2
<1> QED BY <1>2, <1>3, <1>4

\* cr.l.clients[id] = c takes a slot that was free.
LEMMA InsertDoes ==
  ASSUME TypeOK, NumberInv, SlotInv, NEW c \in Clients, Insert(c)
  PROVE  /\ c \in Numbered /\ c \notin Entered /\ c \notin Uncounted
         /\ Numbered' = Numbered /\ Entered' = Entered \cup {c}
         /\ Uncounted' = Uncounted \cup {c}
         /\ c \notin Members /\ Members' = Members \cup {c}
<1>1. /\ pc[c].reader = "insert" /\ pc'[c].reader = "spawn"
      /\ \A d \in Clients : d # c => pc'[d] = pc[d]
      /\ clients' = [clients EXCEPT ![id[c]] = c]
  BY ReaderMoved DEF Insert, ReaderPcs
<1>2. /\ c \in Numbered /\ c \notin Entered /\ c \notin Uncounted
      /\ Numbered' = Numbered /\ Entered' = Entered \cup {c}
      /\ Uncounted' = Uncounted \cup {c}
  BY <1>1 DEF Numbered, Entered, Uncounted
<1>3. clients[id[c]] = NoClient /\ c \notin Members
  BY <1>2, MemberIff
<1>4. id[c] \in Word /\ clients \in [Word -> Clients \cup {NoClient}] /\ c # NoClient
  BY RoomAssumption DEF TypeOK
<1>5. Members' = Members \cup {c}
  BY <1>1, <1>3, <1>4 DEF Members
<1> QED BY <1>2, <1>3, <1>5

\* l_delClient takes at most the one client out of the map that it is called with.
LEMMA DelDoes ==
  ASSUME TypeOK, SpawnInv, NumberInv, SlotInv, StageInv, NEW c \in Clients,
         Del(c, "reader") \/ Del(c, "sender") \/ PurgeClient(c)
  PROVE  /\ c \in Entered /\ UNCHANGED <<Numbered, Entered, Uncounted, numclients, id, closed>>
         /\ Members' = Members \ {c}
         /\ raw' = IF c \in Members THEN [raw EXCEPT ![c] = "closed"] ELSE raw
         /\ connectedclients' = IF c \in Members THEN Dec(connectedclients) ELSE connectedclients
         /\ \A d \in Clients : purge'[d] => purge[d]
         /\ \A d \in Clients : d # c => pc'[d] = pc[d]
         /\ \/ pc[c].reader = "del" /\ pc'[c].reader = "exit"
            \/ pc'[c].reader = pc[c].reader
<1>1. /\ DelClient(c) /\ \A d \in Clients : purge'[d] => purge[d]
      /\ \A d \in Clients : d # c => pc'[d] = pc[d]
      /\ \/ pc[c].reader = "del" /\ pc'[c].reader = "exit"
         \/ /\ pc'[c].reader = pc[c].reader
            /\ pc[c].sender = "del" \/ purge[c]
  BY ReaderMoved, SenderMoved
     DEF Del, PurgeClient, AfterDel, ReaderPcs, SenderPcs, TypeOK
<1>2. c \in Entered
  BY <1>1 DEF StageInv, SpawnInv, Entered, Numbered
<1>3. UNCHANGED <<Numbered, Entered, Uncounted>>
  BY <1>1 DEF Numbered, Entered, Uncounted
<1>4. id[c] \in Word /\ clients \in [Word -> Clients \cup {NoClient}] /\ c # NoClient
  BY RoomAssumption DEF TypeOK
<1>5. /\ clients[id[c]] = NoClient <=> c \notin Members
      /\ c \in Members => clients[id[c]] = c
  BY <1>2, MemberIff DEF Entered
<1>6. /\ Members' = Members \ {c}
      /\ raw' = IF c \in Members THEN [raw EXCEPT ![c] = "closed"] ELSE raw
      /\ connectedclients' = IF c \in Members THEN Dec(connectedclients) ELSE connectedclients
      /\ UNCHANGED <<numclients, id, closed>>
  <2>1. CASE c \notin Members
    <3>1. UNCHANGED <<raw, clients, connectedclients, numclients, id, closed>>
      BY <1>1, <1>5, <2>1 DEF DelClient
    <3> QED BY <2>1, <3>1 DEF Members
  <2>2. CASE c \in Members
    <3>1. /\ clients' = [clients EXCEPT ![id[c]] = NoClient]
          /\ raw' = [raw EXCEPT ![c] = "closed"]
          /\ connectedclients' = Dec(connectedclients)
          /\ UNCHANGED <<numclients, id, closed>>
      BY <1>1, <1>5, <2>2 DEF DelClient
    <3>2. \A i \in Word : clients[i] = c => i = id[c]
      BY <1>4 DEF SlotInv
    <3>3. Members' = Members \ {c}
      BY <1>4, <1>5, <2>2, <3>1, <3>2 DEF Members
    <3> QED BY <2>2, <3>1, <3>3
  <2> QED BY <2>1, <2>2
<1> QED BY <1>1, <1>2, <1>3, <1>6

LEMMA TakeNumberDoes ==
  ASSUME TypeOK, NEW c \in Clients, TakeNumber(c)
  PROVE  /\ c \notin Numbered /\ Numbered' = Numbered \cup {c}
         /\ UNCHANGED <<Entered, Uncounted, Members, clients, raw, purge, connectedclients, closed>>
         /\ numclients' = Inc(numclients) /\ id'[c] = numclients'
         /\ \A d \in Clients : d # c => id'[d] = id[d]
         /\ \A d \in Clients : pc'[d].reader = "exit" <=> pc[d].reader = "exit"
         /\ \A d \in Clients : pc'[d].reader = "del" <=> pc[d].reader = "del"
<1>1. /\ pc[c].reader = "number" /\ pc'[c].reader = "insert"
      /\ \A d \in Clients : d # c => pc'[d] = pc[d]
  BY ReaderMoved DEF TakeNumber, ReaderPcs
<1>2. /\ c \notin Numbered /\ Numbered' = Numbered \cup {c}
      /\ UNCHANGED <<Entered, Uncounted>>
  BY <1>1 DEF Numbered, Entered, Uncounted
<1>3. UNCHANGED <<clients, raw, purge, connectedclients, closed, Members>>
  BY DEF TakeNumber, Members, ws
<1>4. /\ numclients' = Inc(numclients) /\ id'[c] = numclients'
      /\ \A d \in Clients : d # c => id'[d] = id[d]
  BY DEF TakeNumber, TypeOK
<1> QED BY <1>1, <1>2, <1>3, <1>4

LEMMA CountDoes ==
  ASSUME TypeOK, NEW c \in Clients, Count(c)
  PROVE  /\ c \in Uncounted /\ Uncounted' = Uncounted \ {c}
         /\ UNCHANGED <<Numbered, Entered, Members, numclients, clients, id, raw, purge, closed>>
         /\ connectedclients' = Inc(connectedclients)
         /\ \A d \in Clients : pc'[d].reader = "exit" <=> pc[d].reader = "exit"
         /\ \A d \in Clients : pc'[d].reader = "del" <=> pc[d].reader = "del"
<1>1. /\ pc[c].reader = "count" /\ pc'[c].reader = "read"
      /\ \A d \in Clients : d # c => pc'[d] = pc[d]
  BY ReaderMoved DEF Count, ReaderPcs
<1>2. /\ c \in Uncounted /\ Uncounted' = Uncounted \ {c}
      /\ UNCHANGED <<Numbered, Entered>>
  BY <1>1 DEF Numbered, Entered, Uncounted
<1> QED BY <1>1, <1>2 DEF Count, Members, ws

\* No other step changes the map, or what is counted.
LEMMA OthersDo ==
  ASSUME TypeOK,
         \/ \E c \in Clients : Connect(c) \/ Spawn(c)
         \/ \E c \in Clients : ReadError(c) \/ LookClosed(c, "reader") \/ Shut(c, "reader")
         \/ CloseRoom
         \/ \E c \in Clients : LookClosed(c, "sender") \/ Shut(c, "sender")
         \/ /\ UNCHANGED <<numclients, connectedclients, clients, id, raw, purge, closed>>
            /\ \/ UNCHANGED pc
               \/ \E c \in Clients, here, there \in SenderPcs : Move(c, "sender", here, there)
  PROVE  /\ UNCHANGED <<Numbered, Entered, Uncounted, Members>>
         /\ UNCHANGED <<numclients, connectedclients, clients, id, raw>>
         /\ \A d \in Clients : purge'[d] => purge[d] \/ d \in Members
         /\ \A d \in Clients : closed[d] => closed'[d]
         /\ \A d \in Clients : pc'[d].reader = "exit" <=> pc[d].reader = "exit"
         /\ \A d \in Clients :
              pc'[d].reader = "del" => pc[d].reader = "del" \/ closed'[d]
<1> DEFINE Late == {"read", "look", "shut", "del"}
<1>1. /\ UNCHANGED <<numclients, connectedclients, clients, id, raw>>
      /\ \A d \in Clients : purge'[d] => purge[d] \/ d \in Members
      /\ \A d \in Clients : closed[d] => closed'[d]
  BY DEF Connect, Spawn, ReadError, LookClosed, Shut, CloseRoom, room, ws, TypeOK
<1>2. UNCHANGED Members
  BY <1>1 DEF Members
<1>3. ASSUME NEW c \in Clients, ReadError(c) \/ LookClosed(c, "reader") \/ Shut(c, "reader")
      PROVE  /\ pc[c].reader \in Late \ {"del"} /\ pc'[c].reader \in Late
             /\ pc'[c].reader = "del" => closed'[c]
             /\ \A d \in Clients : d # c => pc'[d] = pc[d]
  BY <1>3, ReaderMoved DEF ReadError, LookClosed, Shut, AfterClose, ReaderPcs, TypeOK
<1>4. ASSUME NEW c \in Clients, Connect(c) \/ Spawn(c)
      PROVE  /\ \/ pc[c].reader = "away" /\ pc'[c].reader = "number"
                \/ pc[c].reader = "spawn" /\ pc'[c].reader = "count"
             /\ \A d \in Clients : d # c => pc'[d] = pc[d]
  BY <1>4, ReaderMoved DEF Connect, Spawn, ReaderPcs, TypeOK
<1>5. ASSUME NEW c \in Clients,
             \/ LookClosed(c, "sender") \/ Shut(c, "sender")
             \/ \E here, there \in SenderPcs : Move(c, "sender", here, there)
      PROVE  \A d \in Clients : pc'[d].reader = pc[d].reader
  BY <1>5, SenderMoved DEF LookClosed, Shut, AfterClose, SenderPcs, TypeOK
<1>6. CASE UNCHANGED pc \/ CloseRoom
  BY <1>1, <1>2, <1>6 DEF CloseRoom, Numbered, Entered, Uncounted
<1>7. CASE \E c \in Clients : ReadError(c) \/ LookClosed(c, "reader") \/ Shut(c, "reader")
  BY <1>1, <1>2, <1>3, <1>7 DEF Numbered, Entered, Uncounted
<1>8. CASE \E c \in Clients : Connect(c) \/ Spawn(c)
  BY <1>1, <1>2, <1>4, <1>8 DEF Numbered, Entered, Uncounted
<1>9. CASE \E c \in Clients :
             \/ LookClosed(c, "sender") \/ Shut(c, "sender")
             \/ \E here, there \in SenderPcs : Move(c, "sender", here, there)
  BY <1>1, <1>2, <1>5, <1>9 DEF Numbered, Entered, Uncounted
<1> QED BY <1>6, <1>7, <1>8, <1>9

\* A new number is the number of numbers, and as long as there are enough of them
\* nobody else has it.
LEMMA NumberKept ==
  ASSUME TypeOK, SpawnInv, NumberInv, SlotInv, StageInv, [Next]_vars
  PROVE  NumberInv'
<1> USE DEF NumberInv
<1>1. IsFiniteSet(Numbered) /\ Cardinality(Numbered) \in Nat
  BY NumbersSuffice, FS_Subset, FS_CardinalityType DEF Numbered
<1>2. ASSUME NEW c \in Clients, TakeNumber(c)
      PROVE  NumberInv'
  <2>1. /\ c \notin Numbered /\ Numbered' = Numbered \cup {c}
        /\ numclients' = Inc(numclients) /\ id'[c] = numclients'
        /\ \A d \in Clients : d # c => id'[d] = id[d]
    BY <1>2, TakeNumberDoes
  <2>2. Cardinality(Numbered') = Cardinality(Numbered) + 1
    BY <1>1, <2>1, FS_AddElement
  <2>3. Cardinality(Numbered') < Modulus
    <3>1. Numbered' \in SUBSET Clients
      BY DEF Numbered
    <3>2. Cardinality(Numbered') <= Cardinality(Clients) /\ Cardinality(Clients) \in Nat
      BY <3>1, NumbersSuffice, FS_Subset, FS_CardinalityType
    <3> QED BY <1>1, <2>2, <3>2, NumbersSuffice, WordAssumption
  <2>4. numclients' = numclients + 1
    BY <1>1, <2>1, <2>2, <2>3, IncIs, WordAssumption DEF TypeOK
  <2>5. Numbered \subseteq Clients
    BY DEF Numbered
  <2>6. \A d \in Numbered : id'[d] = id[d] /\ id'[d] \in 1..numclients
    BY <2>1, <2>5
  <2> QED BY <1>1, <2>1, <2>2, <2>4, <2>6
<1>3. CASE UNCHANGED <<Numbered, numclients, id>>
  BY <1>3
<1> QED BY <1>2, <1>3, MapSteps, InsertDoes, CountDoes, DelDoes, OthersDo DEF Insert

\* A slot is filled with who has its number, and emptied.
LEMMA SlotKept ==
  ASSUME TypeOK, SpawnInv, NumberInv, SlotInv, StageInv, [Next]_vars
  PROVE  SlotInv'
<1> USE DEF SlotInv
<1>1. /\ clients \in [Word -> Clients \cup {NoClient}] /\ id \in [Clients -> Word]
      /\ Entered \subseteq Numbered /\ Numbered \subseteq Clients
  BY DEF TypeOK, Entered, Numbered
<1>2. ASSUME NEW c \in Clients, Insert(c)
      PROVE  SlotInv'
  <2>1. clients' = [clients EXCEPT ![id[c]] = c] /\ id' = id /\ Entered' = Entered \cup {c}
    BY <1>2, InsertDoes DEF Insert
  <2> QED BY <1>1, <2>1
<1>3. ASSUME NEW c \in Clients, TakeNumber(c)
      PROVE  SlotInv'
  <2>1. /\ c \notin Numbered /\ UNCHANGED <<clients, Entered>>
        /\ \A d \in Clients : d # c => id'[d] = id[d]
    BY <1>3, TakeNumberDoes
  <2> QED BY <1>1, <2>1
<1>4. ASSUME NEW c \in Clients, Del(c, "reader") \/ Del(c, "sender") \/ PurgeClient(c)
      PROVE  SlotInv'
  <2>1. UNCHANGED <<id, Entered>>
    BY <1>4, DelDoes
  <2>2. \A i \in Word : clients'[i] = clients[i] \/ clients'[i] = NoClient
    BY <1>1, <1>4 DEF Del, PurgeClient, DelClient
  <2> QED BY <2>1, <2>2
<1>5. CASE UNCHANGED <<clients, id, Entered>>
  BY <1>5
<1> QED BY <1>2, <1>3, <1>4, <1>5, MapSteps, CountDoes, OthersDo

LEMMA StageKept ==
  ASSUME TypeOK, SpawnInv, NumberInv, SlotInv, StageInv, [Next]_vars
  PROVE  StageInv'
<1> USE DEF StageInv
<1>1. ASSUME NEW c \in Clients, Insert(c)
      PROVE  StageInv'
  BY <1>1, InsertDoes DEF Insert, ws
<1>2. ASSUME NEW c \in Clients, TakeNumber(c) \/ Count(c)
      PROVE  StageInv'
  BY <1>2, TakeNumberDoes, CountDoes
<1>3. ASSUME NEW c \in Clients, Del(c, "reader") \/ Del(c, "sender") \/ PurgeClient(c)
      PROVE  StageInv'
  BY <1>3, DelDoes DEF TypeOK
<1>4. CASE /\ UNCHANGED <<Entered, raw>>
           /\ \A d \in Clients : purge'[d] => purge[d] \/ d \in Members
  BY <1>4, MemberIff
<1> QED BY <1>1, <1>2, <1>3, <1>4, MapSteps, OthersDo

\* A websocket is closed with the removal of its client, under one lock.
LEMMA ClosedKept ==
  ASSUME TypeOK, SpawnInv, NumberInv, SlotInv, StageInv, [Next]_vars,
         \A c \in Entered : raw[c] = "closed" <=> c \notin Members
  PROVE  \A c \in Entered' : raw'[c] = "closed" <=> c \notin Members'
<1>1. raw \in [Clients -> {"open", "closed"}] /\ Entered \subseteq Clients
  BY DEF TypeOK, Entered, Numbered
<1>2. ASSUME NEW c \in Clients, Insert(c)
      PROVE  \A d \in Entered' : raw'[d] = "closed" <=> d \notin Members'
  <2>1. /\ c \notin Entered /\ raw' = raw /\ Entered' = Entered \cup {c}
        /\ Members' = Members \cup {c}
    BY <1>2, InsertDoes DEF Insert, ws
  <2> QED BY <1>1, <2>1 DEF StageInv
<1>3. ASSUME NEW c \in Clients, TakeNumber(c) \/ Count(c)
      PROVE  \A d \in Entered' : raw'[d] = "closed" <=> d \notin Members'
  BY <1>3, TakeNumberDoes, CountDoes
<1>4. ASSUME NEW c \in Clients, Del(c, "reader") \/ Del(c, "sender") \/ PurgeClient(c)
      PROVE  \A d \in Entered' : raw'[d] = "closed" <=> d \notin Members'
  <2>1. /\ c \in Entered /\ Entered' = Entered /\ Members' = Members \ {c}
        /\ raw' = IF c \in Members THEN [raw EXCEPT ![c] = "closed"] ELSE raw
    BY <1>4, DelDoes
  <2> QED BY <1>1, <2>1
<1>5. CASE UNCHANGED <<Entered, raw, Members>>
  BY <1>5
<1> QED BY <1>2, <1>3, <1>4, <1>5, MapSteps, OthersDo

\* A reader gets past c.Close() with the channel closed, and past l_delClient with
\* the client out of the map.
LEMMA ExitKept ==
  ASSUME TypeOK, SpawnInv, NumberInv, SlotInv, StageInv, ExitInv, [Next]_vars
  PROVE  ExitInv'
<1> USE DEF ExitInv
<1>1. ASSUME NEW c \in Clients, Insert(c)
      PROVE  ExitInv'
  <2>1. Members' = Members \cup {c} /\ closed' = closed
    BY <1>1, InsertDoes DEF Insert
  <2>2. pc'[c].reader = "spawn" /\ \A d \in Clients : d # c => pc'[d] = pc[d]
    BY <1>1, ReaderMoved DEF Insert, ReaderPcs
  <2> QED BY <2>1, <2>2
<1>2. ASSUME NEW c \in Clients, TakeNumber(c) \/ Count(c)
      PROVE  ExitInv'
  BY <1>2, TakeNumberDoes, CountDoes
<1>3. ASSUME NEW c \in Clients, Del(c, "reader") \/ Del(c, "sender") \/ PurgeClient(c)
      PROVE  ExitInv'
  <2>1. /\ Members' = Members \ {c} /\ closed' = closed
        /\ \A d \in Clients : d # c => pc'[d] = pc[d]
        /\ \/ pc[c].reader = "del" /\ pc'[c].reader = "exit"
           \/ pc'[c].reader = pc[c].reader
    BY <1>3, DelDoes
  <2> QED BY <2>1
<1>4. CASE /\ UNCHANGED Members /\ \A d \in Clients : closed[d] => closed'[d]
           /\ \A d \in Clients : pc'[d].reader = "exit" <=> pc[d].reader = "exit"
           /\ \A d \in Clients : pc'[d].reader = "del" => pc[d].reader = "del" \/ closed'[d]
  BY <1>4
<1> QED BY <1>1, <1>2, <1>3, <1>4, MapSteps, OthersDo

-------------------------------------------------------------------------------
(* Counting.                                                                 *)

\* What % is on the difference of two words.
LEMMA DifferenceMod ==
  ASSUME NEW a \in Word, NEW b \in Word
  PROVE  (a - b) % Modulus = IF a >= b THEN a - b ELSE a - b + Modulus
<1>1. CASE a >= b
  <2>1. a - b \in Word
    BY <1>1, WordAssumption DEF Word
  <2> QED BY <1>1, <2>1, Residues
<1>2. CASE a < b
  <2> DEFINE y == a - b + Modulus
  <2>1. y \in Word /\ a - b = y - Modulus
    BY <1>2, WordAssumption DEF Word
  <2>2. ~(a >= b)
    BY <1>2 DEF Word
  <2> HIDE DEF y
  <2>3. (a - b) % Modulus = y
    BY <2>1, Residues
  <2> QED BY <2>2, <2>3 DEF y
<1> QED BY <1>1, <1>2 DEF Word

\* inc and dec move such a difference by one.
LEMMA CountingUp ==
  ASSUME NEW a \in Word, NEW b \in Word, b # 0
  PROVE  Inc((a - b) % Modulus) = (a - (b - 1)) % Modulus
<1>1. b - 1 \in Word
  BY WordAssumption DEF Word
<1>2. /\ (a - b) % Modulus = IF a >= b THEN a - b ELSE a - b + Modulus
      /\ (a - (b - 1)) % Modulus = IF a >= b - 1 THEN a - (b - 1) ELSE a - (b - 1) + Modulus
  BY <1>1, DifferenceMod
<1>3. (a - b) % Modulus \in Word
  BY ResidueIsWord DEF Word
<1>4. Inc((a - b) % Modulus) =
        IF (a - b) % Modulus = Modulus - 1 THEN 0 ELSE ((a - b) % Modulus) + 1
  BY <1>3, IncIs
<1> QED BY <1>2, <1>4, WordAssumption DEF Word

LEMMA CountingDown ==
  ASSUME NEW a \in Word, NEW b \in Word, a # 0
  PROVE  Dec((a - b) % Modulus) = (a - 1 - b) % Modulus
<1>1. a - 1 \in Word
  BY WordAssumption DEF Word
<1>2. /\ (a - b) % Modulus = IF a >= b THEN a - b ELSE a - b + Modulus
      /\ (a - 1 - b) % Modulus = IF a - 1 >= b THEN a - 1 - b ELSE a - 1 - b + Modulus
  BY <1>1, DifferenceMod
<1>3. (a - b) % Modulus \in Word
  BY ResidueIsWord DEF Word
<1>4. Dec((a - b) % Modulus) =
        IF (a - b) % Modulus = 0 THEN Modulus - 1 ELSE ((a - b) % Modulus) - 1
  BY <1>3, DecIs
<1> QED BY <1>2, <1>4, WordAssumption DEF Word

\* There are fewer clients than words, so their numbers are words.
LEMMA FewClients ==
  ASSUME NEW S \in SUBSET Clients
  PROVE  IsFiniteSet(S) /\ Cardinality(S) \in Word
<1>1. IsFiniteSet(S) /\ Cardinality(S) <= Cardinality(Clients) /\ Cardinality(S) \in Nat
  BY NumbersSuffice, FS_Subset, FS_CardinalityType
<1>2. Cardinality(Clients) \in Nat
  BY NumbersSuffice, FS_CardinalityType
<1> QED BY <1>1, <1>2, NumbersSuffice, WordAssumption DEF Word

\* Putting a client in the map and counting it are two steps, removing and counting
\* down are one: the count is behind by those in between.
LEMMA CountedKept ==
  ASSUME TypeOK, SpawnInv, NumberInv, SlotInv, StageInv, Counted, [Next]_vars
  PROVE  Counted'
<1> USE DEF Counted
<1> DEFINE a == Cardinality(Members)
           b == Cardinality(Uncounted)
<1>1. /\ IsFiniteSet(Members) /\ a \in Word
      /\ IsFiniteSet(Uncounted) /\ b \in Word
  BY FewClients DEF Members, Uncounted, TypeOK
<1>2. ASSUME NEW c \in Clients, Insert(c)
      PROVE  Counted'
  <2>1. /\ c \notin Uncounted /\ Uncounted' = Uncounted \cup {c}
        /\ c \notin Members /\ Members' = Members \cup {c}
        /\ connectedclients' = connectedclients
    BY <1>2, InsertDoes DEF Insert
  <2>2. Cardinality(Members') = a + 1 /\ Cardinality(Uncounted') = b + 1
    BY <1>1, <2>1, FS_AddElement
  <2>3. Cardinality(Members') - Cardinality(Uncounted') = a - b
    BY <1>1, <2>2 DEF Word
  <2> QED BY <2>1, <2>2, <2>3
<1>3. ASSUME NEW c \in Clients, TakeNumber(c)
      PROVE  Counted'
  BY <1>3, TakeNumberDoes
<1>4. ASSUME NEW c \in Clients, Count(c)
      PROVE  Counted'
  <2>1. /\ c \in Uncounted /\ Uncounted' = Uncounted \ {c} /\ Members' = Members
        /\ connectedclients' = Inc(connectedclients)
    BY <1>4, CountDoes
  <2>2. Cardinality(Uncounted') = b - 1 /\ b # 0
    BY <1>1, <2>1, FS_RemoveElement, FS_EmptySet
  <2> QED BY <1>1, <2>1, <2>2, CountingUp
<1>5. ASSUME NEW c \in Clients, Del(c, "reader") \/ Del(c, "sender") \/ PurgeClient(c)
      PROVE  Counted'
  <2>1. /\ Uncounted' = Uncounted /\ Members' = Members \ {c}
        /\ connectedclients' = IF c \in Members THEN Dec(connectedclients) ELSE connectedclients
    BY <1>5, DelDoes
  <2>2. CASE c \in Members
    <3>1. Cardinality(Members') = a - 1 /\ a # 0
      BY <1>1, <2>1, <2>2, FS_RemoveElement, FS_EmptySet
    <3> QED BY <1>1, <2>1, <2>2, <3>1, CountingDown
  <2>3. CASE c \notin Members
    BY <2>1, <2>3
  <2> QED BY <2>2, <2>3
<1>6. CASE UNCHANGED <<Uncounted, Members, connectedclients>>
  BY <1>6
<1> QED BY <1>2, <1>3, <1>4, <1>5, <1>6, MapSteps, OthersDo

-------------------------------------------------------------------------------
(* The theorems on the map.                                                  *)

LEMMA Initial == Init => IInv
<1> SUFFICES ASSUME Init PROVE IInv
  OBVIOUS
<1>1. FlowInv
  BY FlowInitial
<1>2. \A c \in Clients : pc[c].reader = "away" /\ raw[c] = "open" /\ purge[c] = FALSE
  BY DEF Init
<1>3. numclients = 0 /\ connectedclients = 0 /\ \A i \in Word : clients[i] = NoClient
  BY DEF Init
<1>4. Numbered = {} /\ Entered = {} /\ Uncounted = {} /\ Members = {}
  BY <1>2, <1>3 DEF Numbered, Entered, Uncounted, Members
<1>5. Cardinality({}) = 0
  BY FS_EmptySet
<1>6. NumberInv
  BY <1>3, <1>4, <1>5 DEF NumberInv
<1>7. SlotInv /\ StageInv /\ ExitInv
  BY <1>2, <1>3 DEF SlotInv, StageInv, ExitInv
<1>8. ClosedIffRemoved
  BY <1>2 DEF ClosedIffRemoved
<1>9. Counted
  <2>1. 0 \in Word
    BY WordAssumption DEF Word
  <2>2. (0 - 0) % Modulus = 0
    BY <2>1, Residues
  <2> QED BY <1>3, <1>4, <1>5, <2>2 DEF Counted
<1> QED BY <1>1, <1>6, <1>7, <1>8, <1>9 DEF IInv, MapInv, FlowInv

LEMMA Inductive == Spec => []IInv
<1>1. ClosedIffRemoved <=> \A c \in Entered : raw[c] = "closed" <=> c \notin Members
  BY DEF ClosedIffRemoved, Entered, Numbered
<1>2. ClosedIffRemoved' <=> \A c \in Entered' : raw'[c] = "closed" <=> c \notin Members'
  BY DEF ClosedIffRemoved, Entered, Numbered
<1>3. IInv /\ [Next]_vars => IInv'
  <2> SUFFICES ASSUME IInv, [Next]_vars PROVE IInv'
    OBVIOUS
  <2>1. FlowInv'
    BY FlowKept DEF IInv, FlowInv
  <2>2. NumberInv' /\ SlotInv' /\ StageInv' /\ ExitInv' /\ Counted'
    BY NumberKept, SlotKept, StageKept, ExitKept, CountedKept DEF IInv, MapInv
  <2>3. ClosedIffRemoved'
    BY <1>1, <1>2, ClosedKept DEF IInv, MapInv
  <2> QED BY <2>1, <2>2, <2>3 DEF IInv, MapInv, FlowInv
<1> QED BY Initial, <1>3, PTL DEF Spec

\* A member always has its websocket and a removed client never does (l_addClient,
\* l_delClient), however the removals race.
THEOREM ClosedWithRemoval == Spec => []ClosedIffRemoved
<1>1. IInv => ClosedIffRemoved
  BY DEF IInv, MapInv
<1> QED BY <1>1, Inductive, PTL

\* When handleWebsocket returns nothing of the connection is left in the room.
THEOREM GoneForGood == Spec => []GoneIsGone
<1>1. ASSUME IInv PROVE GoneIsGone
  <2>1. ExitInv /\ ClosedIffRemoved
    BY <1>1 DEF IInv, MapInv
  <2> QED BY <2>1 DEF GoneIsGone, ExitInv, ClosedIffRemoved
<1>2. IInv => GoneIsGone
  BY <1>1
<1> QED BY <1>2, Inductive, PTL

\* connectedclients counts the members, up to those in the middle of l_addClient.
THEOREM MembersAreCounted == Spec => []Counted
<1>1. IInv => Counted
  BY DEF IInv
<1> QED BY <1>1, Inductive, PTL
================================================================================
