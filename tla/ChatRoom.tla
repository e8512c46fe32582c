------------------------------- MODULE ChatRoom -------------------------------
(***************************************************************************)
(* One chat room and its connections: hub/chatroom.go, hub/client.go and   *)
(* the reader loop of handleWebsocket in hub/groupchatserver.go.           *)
(*                                                                         *)
(* A connection has four goroutines: its reader (handleWebsocket), its     *)
(* sender and its watcher (started by l_addClient) and its listener        *)
(* (started by Listen).  They meet in the room's map of clients, in the    *)
(* client's channel closed, and in the channels msgs and quit.  A purge of *)
(* the room adds one goroutine per member, which removes it.               *)
(*                                                                         *)
(* The room's queue is BroadcastLog, which hub/messagequeue.go implements  *)
(* (MessageQueue.tla); its byte limit is a number of messages here.  The   *)
(* hub runs in verbose mode, the one that counts connected clients.        *)
(***************************************************************************)
EXTENDS BroadcastLog, SafeVals, FiniteSets

Clients == Listeners   \* a connection has one listener

CONSTANTS
  NoClient,    \* a slot of the room's map that is not taken
  Backlog,     \* how many messages the queue keeps
  Failures     \* the ways in which a peer may fail, of those PeerFails lists

ASSUME RoomAssumption ==
  /\ NoClient \notin Clients
  /\ Backlog \in Nat
  /\ Failures \subseteq {"gone", "stalled", "binary"}

\* A room is not joined so often that its numbers, which wrap around, are used up.
ASSUME NumbersSuffice == IsFiniteSet(Clients) /\ Cardinality(Clients) < Modulus

VARIABLES
  numclients, connectedclients,   \* the two counters of the room
  clients,                        \* the map, from client numbers to clients
  id,                             \* per connection: its number
  pc,                             \* per connection: where its reader and its
                                  \* sender are
  msgs,                           \* per connection: is msgs still open?
  quit, closed,                   \* per connection: are these channels closed?
  raw,                            \* the hub's end of the websocket
  peer,                           \* the other end
  wire,                           \* what was written to the websocket, in order
  purge,                          \* must a purge goroutine remove the client?
  roomClosed,                     \* has the room's Close been called?
  panic                           \* did a double close end the process?

feed == <<log, state, from, got>>
room == <<numclients, connectedclients, clients, id, purge, roomClosed>>
ws   == <<raw, peer, wire>>
vars == <<feed, room, pc, msgs, quit, closed, ws, panic>>

Members == {clients[i] : i \in Word} \ {NoClient}

\* The oldest entry the queue still holds, or the empty one at its end.
Oldest == IF Len(log) < Backlog THEN 1 ELSE Len(log) + 1 - Backlog

\* newChatroom and, per connection, makeClient and l_addClient's channels.
Init ==
  /\ AbsInit
  /\ numclients = 0 /\ connectedclients = 0
  /\ clients = [i \in Word |-> NoClient]
  /\ id = [c \in Clients |-> 0]
  /\ pc = [c \in Clients |-> [reader |-> "away", sender |-> "none"]]
  /\ msgs = [c \in Clients |-> TRUE]
  /\ quit = [c \in Clients |-> FALSE]
  /\ closed = [c \in Clients |-> FALSE]
  /\ raw = [c \in Clients |-> "open"]
  /\ peer = [c \in Clients |-> "ok"]
  /\ wire = [c \in Clients |-> <<>>]
  /\ purge = [c \in Clients |-> FALSE]
  /\ roomClosed = FALSE
  /\ panic = FALSE

\* After a panic the process is gone, and every step with it.
Running == ~panic

Move(c, role, here, there) ==
  /\ Running
  /\ pc[c][role] = here
  /\ pc' = [pc EXCEPT ![c][role] = there]

-------------------------------------------------------------------------------
(* What a reader and a sender do on their way out, in opposite orders: the    *)
(* reader closes the client and removes it, the sender removes it and has a   *)
(* deferred Close.                                                            *)

\* Mutant: the reader returns after c.Close() and leaves its client in the map.
AfterCloseReturn(role) == "exit"

AfterDel(role)   == IF role = "reader" THEN "exit" ELSE "look"
AfterClose(role) == IF role = "reader" THEN "del" ELSE "exit"

\* Mutant: the count is a signed number.
DelClientSigned(c) ==
  /\ \/ /\ clients[id[c]] = NoClient
        /\ UNCHANGED <<raw, clients, connectedclients>>
     \/ /\ clients[id[c]] # NoClient
        /\ raw' = [raw EXCEPT ![c] = "closed"]
        /\ clients' = [clients EXCEPT ![id[c]] = NoClient]
        /\ connectedclients' = connectedclients - 1
  /\ UNCHANGED <<feed, numclients, id, roomClosed, msgs, quit, closed, peer,
                 wire, panic>>

\* Mutant: no look at the map, a second delete counts down again.
DelClientTwice(c) ==
  /\ raw' = [raw EXCEPT ![c] = "closed"]
  /\ clients' = [clients EXCEPT ![id[c]] = NoClient]
  /\ connectedclients' = Dec(connectedclients)
  /\ UNCHANGED <<feed, numclients, id, roomClosed, msgs, quit, closed, peer,
                 wire, panic>>

\* Mutant: c.raw.Close() is forgotten.
DelClientOnly(c) ==
  /\ \/ /\ clients[id[c]] = NoClient
        /\ UNCHANGED <<clients, connectedclients>>
     \/ /\ clients[id[c]] # NoClient
        /\ clients' = [clients EXCEPT ![id[c]] = NoClient]
        /\ connectedclients' = Dec(connectedclients)
  /\ UNCHANGED <<feed, numclients, id, roomClosed, msgs, quit, closed, ws,
                 panic>>

\* l_delClient(id, c), all of it under the lock: a NOP if already deleted.
DelClient(c) ==
  /\ \/ /\ clients[id[c]] = NoClient
        /\ UNCHANGED <<raw, clients, connectedclients>>
     \/ /\ clients[id[c]] # NoClient
        /\ raw' = [raw EXCEPT ![c] = "closed"]
        /\ clients' = [clients EXCEPT ![id[c]] = NoClient]
        /\ connectedclients' = Dec(connectedclients)
  /\ UNCHANGED <<feed, numclients, id, roomClosed, msgs, quit, closed, peer,
                 wire, panic>>

Del(c, role) ==
  /\ Move(c, role, "del", AfterDel(role))
  /\ DelClient(c)
  /\ UNCHANGED purge

\* Mutant: the two ways out of the select are swapped.
LookClosedSwapped(c, role) ==
  /\ Move(c, role, "look", IF closed[c] THEN "shut" ELSE AfterClose(role))
  /\ UNCHANGED <<feed, room, msgs, quit, closed, ws, panic>>

\* c.Close(): first the look at the channel, then its close.  Nothing holds the
\* two together; closing a closed channel panics.
LookClosed(c, role) ==
  /\ Move(c, role, "look", IF closed[c] THEN AfterClose(role) ELSE "shut")
  /\ UNCHANGED <<feed, room, msgs, quit, closed, ws, panic>>

Shut(c, role) ==
  /\ Move(c, role, "shut", AfterClose(role))
  /\ closed' = [closed EXCEPT ![c] = TRUE]
  /\ panic' = closed[c]
  /\ UNCHANGED <<feed, room, msgs, quit, ws>>

Leaving(c, role) == Del(c, role) \/ LookClosed(c, role) \/ Shut(c, role)

-------------------------------------------------------------------------------
(* The reader: handleWebsocket with l_addClient.                              *)

\* A peer connects and is handed this room, which the server still knows.
Connect(c) ==
  /\ ~roomClosed
  /\ Move(c, "reader", "away", "number")
  /\ UNCHANGED <<feed, room, msgs, quit, closed, ws, panic>>

\* id := cr.numclients.inc()
TakeNumber(c) ==
  /\ Move(c, "reader", "number", "insert")
  /\ numclients' = Inc(numclients)
  /\ id' = [id EXCEPT ![c] = numclients']
  /\ UNCHANGED <<feed, connectedclients, clients, purge, roomClosed, msgs, quit,
                 closed, ws, panic>>

\* cr.l.clients[id] = c
Insert(c) ==
  /\ Move(c, "reader", "insert", "spawn")
  /\ clients' = [clients EXCEPT ![id[c]] = c]
  /\ UNCHANGED <<feed, numclients, connectedclients, id, purge, roomClosed, msgs,
                 quit, closed, ws, panic>>

\* The go statements for watcher, sender and (in Listen) listener.
Spawn(c) ==
  /\ Running /\ pc[c].reader = "spawn"
  /\ pc' = [pc EXCEPT ![c] = [reader |-> "count", sender |-> "recv"]]
  /\ UNCHANGED <<feed, room, msgs, quit, closed, ws, panic>>

\* cr.connectedclients.inc()
Count(c) ==
  /\ Move(c, "reader", "count", "read")
  /\ connectedclients' = Inc(connectedclients)
  /\ UNCHANGED <<feed, numclients, clients, id, purge, roomClosed, msgs, quit,
                 closed, ws, panic>>

\* readMessage returns a text message and handleNewMsg appends it.  A frame that
\* was buffered is read even when the websocket is closed meanwhile.
ReadMsg(c, m) ==
  /\ Running /\ pc[c].reader = "read"
  /\ \A i \in 1..Len(log) : log[i] # m
  /\ Publish(m)
  /\ UNCHANGED <<room, pc, msgs, quit, closed, ws, panic>>

\* readMessage fails: the hub closed the websocket, the peer is gone, or it sent
\* something that is not text.
ReadError(c) ==
  /\ raw[c] = "closed" \/ peer[c] \in {"gone", "binary"}
  /\ Move(c, "reader", "read", "look")
  /\ UNCHANGED <<feed, room, msgs, quit, closed, ws, panic>>

Reader(c) ==
  \/ TakeNumber(c) \/ Insert(c) \/ Spawn(c) \/ Count(c)
  \/ ReadError(c) \/ Leaving(c, "reader")

-------------------------------------------------------------------------------
(* The listener, the sender behind it, and the watcher.                       *)

\* The listener starts at the oldest entry.
OpenFeed(c) ==
  /\ Running /\ pc[c].sender # "none"
  /\ Open(c) /\ from'[c] = Oldest
  /\ UNCHANGED <<room, pc, msgs, quit, closed, ws, panic>>

\* c <- e.msg meets the sender's range msgs.
HandOver(c) ==
  /\ Move(c, "sender", "recv", "write")
  /\ Hand(c)
  /\ UNCHANGED <<room, msgs, quit, closed, ws, panic>>

\* The entry just handed over was trimmed: its next is stale, msgs is closed.
FallBehind(c) ==
  /\ Running
  /\ Len(got[c]) > 0 /\ from[c] + Len(got[c]) - 1 < Oldest
  /\ Cut(c)
  /\ msgs' = [msgs EXCEPT ![c] = FALSE]
  /\ UNCHANGED <<room, pc, quit, closed, ws, panic>>

\* case <-quit, while a message waits for the sender; msgs stays open.
QuitFeed(c) ==
  /\ Running
  /\ quit[c] /\ from[c] + Len(got[c]) <= Len(log)
  /\ Cut(c)
  /\ UNCHANGED <<room, pc, msgs, quit, closed, ws, panic>>

Listener(c) == OpenFeed(c) \/ HandOver(c) \/ FallBehind(c) \/ QuitFeed(c)

\* writeMessage succeeds: the websocket takes the message.
WriteOk(c) ==
  /\ raw[c] = "open"
  /\ Move(c, "sender", "write", "recv")
  /\ wire' = [wire EXCEPT ![c] = Append(@, got[c][Len(got[c])])]
  /\ UNCHANGED <<feed, room, msgs, quit, closed, raw, peer, panic>>

\* Mutant: the error is logged and the next message is sent.
WriteErrorIgnored(c) ==
  /\ raw[c] = "closed" \/ peer[c] \in {"gone", "stalled"}
  /\ Move(c, "sender", "write", "recv")
  /\ UNCHANGED <<feed, room, msgs, quit, closed, ws, panic>>

\* writeMessage fails: the hub closed the websocket, the peer is gone, or it
\* took nothing until the deadline.
WriteError(c) ==
  /\ raw[c] = "closed" \/ peer[c] \in {"gone", "stalled"}
  /\ Move(c, "sender", "write", "del")
  /\ UNCHANGED <<feed, room, msgs, quit, closed, ws, panic>>

\* range msgs ends: "Client out of sync".
OutOfSync(c) ==
  /\ ~msgs[c]
  /\ Move(c, "sender", "recv", "look")
  /\ UNCHANGED <<feed, room, msgs, quit, closed, ws, panic>>

Sender(c) == WriteOk(c) \/ WriteError(c) \/ OutOfSync(c) \/ Leaving(c, "sender")

\* Mutant: quit is closed without the wait.
WatchAtOnce(c) ==
  /\ Running /\ pc[c].sender # "none" /\ ~quit[c]
  /\ quit' = [quit EXCEPT ![c] = TRUE]
  /\ UNCHANGED <<feed, room, pc, msgs, closed, ws, panic>>

\* WaitUntilClosed, then close(quit).
Watch(c) ==
  /\ Running /\ closed[c] /\ ~quit[c]
  /\ quit' = [quit EXCEPT ![c] = TRUE]
  /\ UNCHANGED <<feed, room, pc, msgs, closed, ws, panic>>

-------------------------------------------------------------------------------
(* The purge, and the peers.                                                  *)

\* cr.Close(): one goroutine for each client that is in the map now.
CloseRoom ==
  /\ Running /\ ~roomClosed
  /\ roomClosed' = TRUE
  /\ purge' = [c \in Clients |-> c \in Members]
  /\ UNCHANGED <<feed, numclients, connectedclients, clients, id, pc, msgs, quit,
                 closed, ws, panic>>

PurgeClient(c) ==
  /\ Running /\ purge[c]
  /\ purge' = [purge EXCEPT ![c] = FALSE]
  /\ DelClient(c)
  /\ UNCHANGED pc

\* A peer leaves, takes no more bytes, or sends a frame that is not text.
PeerFails(c) ==
  /\ Running /\ pc[c].reader # "away" /\ peer[c] = "ok"
  /\ \E p \in Failures : peer' = [peer EXCEPT ![c] = p]
  /\ UNCHANGED <<feed, room, pc, msgs, quit, closed, raw, wire, panic>>

-------------------------------------------------------------------------------
Hub(c) == Reader(c) \/ Listener(c) \/ Sender(c) \/ Watch(c) \/ PurgeClient(c)

Next ==
  \/ \E c \in Clients : Hub(c) \/ Connect(c) \/ PeerFails(c)
  \/ \E c \in Clients, m \in Msg : ReadMsg(c, m)
  \/ CloseRoom

Spec == Init /\ [][Next]_vars

\* Every goroutine that can run does.  Peers and purges owe nothing.
Fairness ==
  \A c \in Clients :
    /\ WF_vars(Reader(c))
    /\ WF_vars(Listener(c))
    /\ WF_vars(Sender(c))
    /\ WF_vars(Watch(c))
    /\ WF_vars(PurgeClient(c))

FairSpec == Spec /\ Fairness
-------------------------------------------------------------------------------
(* What the room must guarantee.                                              *)

ReaderPcs == {"away", "number", "insert", "spawn", "count", "read", "look",
              "shut", "del", "exit"}
SenderPcs == {"none", "recv", "write", "del", "look", "shut", "exit"}

\* Every variable has the type of the code's.
TypeOK ==
  /\ AbsTypeOK
  /\ numclients \in Word /\ connectedclients \in Word
  /\ clients \in [Word -> Clients \cup {NoClient}]
  /\ id \in [Clients -> Word]
  /\ pc \in [Clients -> [reader : ReaderPcs, sender : SenderPcs]]
  /\ msgs \in [Clients -> BOOLEAN]
  /\ quit \in [Clients -> BOOLEAN]
  /\ closed \in [Clients -> BOOLEAN]
  /\ raw \in [Clients -> {"open", "closed"}]
  /\ peer \in [Clients -> {"ok", "gone", "stalled", "binary"}]
  /\ wire \in [Clients -> Seq(Msg)]
  /\ purge \in [Clients -> BOOLEAN]
  /\ roomClosed \in BOOLEAN
  /\ panic \in BOOLEAN

\* Clients in the map that l_addClient has not counted yet, or has put there before
\* they were removed.
Uncounted == {c \in Clients : pc[c].reader \in {"spawn", "count"}}

\* TestClientCount at every moment: the count is the number of clients in the
\* map, but for those whose l_addClient has not counted them yet; since they may
\* be removed before, it can wrap around below zero meanwhile.
Counted ==
  connectedclients = (Cardinality(Members) - Cardinality(Uncounted)) % Modulus

\* A connection whose handler has returned leaves nothing behind in the room:
\* it is out of the map, its websocket is closed, and so is its channel.
GoneIsGone ==
  \A c \in Clients : pc[c].reader = "exit" =>
    c \notin Members /\ raw[c] = "closed" /\ closed[c]

\* A websocket is closed when and only when its client leaves the map, so no
\* member is ever without a websocket and no removed client keeps one.
ClosedIffRemoved ==
  \A c \in Clients :
    pc[c].reader \notin {"away", "number", "insert"} =>
      (raw[c] = "closed" <=> c \notin Members)

\* A peer that leaves, a write that fails and a purge of the room all lead to
\* the same end: the handler returns, the client is out, its listener may quit.
TornDown ==
  \A c \in Clients :
    (\/ pc[c].reader # "away" /\ peer[c] \in {"gone", "binary"}
     \/ pc[c].sender = "del"
     \/ purge[c])
    ~> (panic \/ (pc[c].reader = "exit" /\ quit[c] /\ c \notin Members))

\* Somebody who stays connected and keeps up gets every message there is.
Delivered ==
  \A c \in Clients :
    <>[](\/ panic \/ pc[c].reader = "away"
         \/ peer[c] # "ok" \/ raw[c] = "closed" \/ ~msgs[c]
         \/ from[c] > 0 /\ Len(wire[c]) = Len(log) + 1 - from[c])

\* client.Close returns an error when the client is closed already ("client
\* already closed"), whoever else closes it: it never closes a closed channel.
NoDoubleClose == ~panic

\* The hub "echoes all incoming data to every other connected client": a member
\* with a working connection and a message to come still has a sender.
EveryoneHears ==
  \A c \in Clients :
    ~(/\ c \in Members /\ raw[c] = "open" /\ peer[c] = "ok"
      /\ pc[c].sender = "exit"
      /\ from[c] + Len(got[c]) <= Len(log))

\* What the queue promises its listeners is what the room promises its clients:
\* listener, channel, sender and websocket lose, repeat and swap nothing.  A
\* client's feed is cut off when its sender has left the loop over msgs.
wireState ==
  [c \in Clients |-> IF from[c] = 0 THEN "new"
                    ELSE IF pc[c].sender \in {"none", "recv", "write"} THEN "open"
                    ELSE "cut"]

Wire == INSTANCE BroadcastLog WITH state <- wireState, got <- wire

WiresFollowLog == Wire!AbsSpec

-------------------------------------------------------------------------------
(* The inductive invariants behind these.                                     *)

\* A feed starts somewhere in the log and is a run of it; only a cut one closes
\* msgs.
FeedInv ==
  \A c \in Clients :
    /\ state[c] = "new" <=> from[c] = 0
    /\ state[c] = "new" => got[c] = <<>>
    /\ ~msgs[c] => state[c] = "cut"
    /\ \A k \in 1..Len(got[c]) :
         from[c] + k - 1 \in 1..Len(log) /\ got[c][k] = log[from[c] + k - 1]

\* The sender is started by the reader, once.
SpawnInv ==
  \A c \in Clients :
    pc[c].sender = "none" <=> pc[c].reader \in {"away", "number", "insert", "spawn"}

\* A sender has written what its listener handed over, but for the one message it
\* may hold, until it leaves the loop.
WireInv ==
  \A c \in Clients :
    /\ \A k \in 1..Len(wire[c]) : k <= Len(got[c]) /\ wire[c][k] = got[c][k]
    /\ pc[c].sender \in {"none", "recv"} => Len(wire[c]) = Len(got[c])
    /\ pc[c].sender = "write" => Len(wire[c]) + 1 = Len(got[c])
    /\ pc[c].sender \notin {"none", "recv", "write"} => state[c] # "new"

Numbered == {c \in Clients : pc[c].reader \notin {"away", "number"}}
Entered == {c \in Numbered : pc[c].reader # "insert"}

\* Who has a number has one of his own.
NumberInv ==
  /\ numclients = Cardinality(Numbered)
  /\ \A c \in Numbered : id[c] \in 1..numclients
  /\ \A c, d \in Numbered : id[c] = id[d] => c = d

\* A client in the map is there under its number.
SlotInv ==
  \A i \in Word : clients[i] # NoClient => clients[i] \in Entered /\ id[clients[i]] = i

\* Nobody purges a client or closes its websocket before it is in the map.
StageInv ==
  \A c \in Clients :
    /\ purge[c] => c \in Entered
    /\ c \notin Entered => raw[c] = "open"

\* A reader on its way out has closed the client, then removed it.
ExitInv ==
  \A c \in Clients :
    /\ pc[c].reader \in {"del", "exit"} => closed[c]
    /\ pc[c].reader = "exit" => c \notin Members

MapInv == NumberInv /\ SlotInv /\ StageInv /\ ClosedIffRemoved /\ ExitInv

IInv == TypeOK /\ SpawnInv /\ FeedInv /\ WireInv /\ MapInv /\ Counted

===============================================================================
