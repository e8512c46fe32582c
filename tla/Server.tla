-------------------------------- MODULE Server --------------------------------
(***************************************************************************)
(* The rooms of the hub: hub/groupchatserver.go.                           *)
(*                                                                         *)
(* A websocket asks the room cache (hraban/lrucache) for the room of its   *)
(* name.  A miss opens a room and, when there are NUM_ROOMS of them, makes *)
(* the cache purge the one that was asked for the longest time ago.  The   *)
(* set of room names behind /rooms is written by goroutines of their own:  *)
(* one adds the name of an opened room, one removes that of a purged room, *)
(* and nothing orders them.  Between the cache's answer and the entry into *)
(* the room's map of clients (l_addClient) anything can happen.            *)
(*                                                                         *)
(* What goes on inside a room is ChatRoom.tla; here a room has members.    *)
(***************************************************************************)
EXTENDS Naturals, Sequences, FiniteSets

CONSTANTS
  Clients,     \* the peers; each has at most one websocket at a time
  Names,       \* the room names, the empty one of a request without any included
  Links,       \* those that start with http:// or https://
  NumRooms,    \* NUM_ROOMS
  MaxOpened    \* bound: how many rooms are opened in all

ASSUME ServerAssumption ==
  /\ Links \subseteq Names
  /\ NumRooms \in Nat \ {0}
  /\ MaxOpened \in Nat

VARIABLES
  cache,       \* the rooms in the cache, the one to be purged next first
  name,        \* name[r]: the name of the r-th room ever opened
  roomNames,   \* the set of names of the server
  adding,      \* the rooms whose name a goroutine still has to add,
  removing,    \* and those whose name one has to remove
  at,          \* per peer: where the goroutine of its websocket is
  want,        \* the room name it asks for
  joined,      \* the room it was given
  purge,       \* <<c, r>>: a goroutine has yet to remove c from the purged r
  late,        \* history: who entered a room that had been closed before
  overtaken    \* history: the names whose last goroutine to run, adding or
               \* removing, had been overtaken by one that was started later

names == <<roomNames, adding, removing, overtaken>>
vars == <<cache, name, names, at, want, joined, purge, late>>

Nobody == 0     \* no room: rooms are numbered from 1
Cached == {cache[i] : i \in 1..Len(cache)}
Opened == 1..Len(name)
MembersOf(r) == {c \in Clients : at[c] = "in" /\ joined[c] = r}
Purged(c) == <<c, joined[c]>> \in purge

\* The goroutine that adds the name of r, or the one that removes it, has run; and
\* one for the same name that was started later than both, since a name is opened
\* again only after its room was purged.
AddRan(r) == r \in Opened \ adding
RemoveRan(r) == r \in Opened \ (Cached \cup removing)
LaterRan(r) ==
  \E s \in Opened : s > r /\ name[s] = name[r] /\ (AddRan(s) \/ RemoveRan(s))

\* The i-th room goes to the end of the cache, those behind it move up.
Refresh(i) ==
  [j \in 1..Len(cache) |-> IF j < i THEN cache[j]
                           ELSE IF j < Len(cache) THEN cache[j + 1]
                           ELSE cache[i]]

\* makeServer
Init ==
  /\ cache = <<>> /\ name = <<>>
  /\ roomNames = {} /\ adding = {} /\ removing = {} /\ overtaken = {}
  /\ at = [c \in Clients |-> "away"]
  /\ want \in [Clients -> Names]
  /\ joined = [c \in Clients |-> Nobody]
  /\ purge = {} /\ late = {}

-------------------------------------------------------------------------------
\* handleHub: the upgrade succeeds and a goroutine is started for the websocket.
\* A missing room parameter is answered with an error, and goes on all the same.
HandleHub(c) ==
  /\ at[c] = "away"
  /\ \E n \in Names : want' = [want EXCEPT ![c] = n]
  /\ at' = [at EXCEPT ![c] = "get"]
  /\ UNCHANGED <<cache, name, names, joined, purge, late>>

\* s.rooms.Get, for a room that is in the cache.
GetHit(c) ==
  /\ at[c] = "get"
  /\ \E i \in 1..Len(cache) :
       /\ name[cache[i]] = want[c]
       /\ cache' = Refresh(i)
       /\ joined' = [joined EXCEPT ![c] = cache[i]]
  /\ at' = [at EXCEPT ![c] = "insert"]
  /\ UNCHANGED <<name, names, want, purge, late>>

\* Mutant: OnPurge closes the room and leaves the name on the list.
PurgeNameKept(r) ==
  /\ purge' = purge \cup (MembersOf(r) \X {r})
  /\ UNCHANGED removing

\* Mutant: OnPurge takes the name off the list and leaves the room as it is.
PurgeNameOnly(r) ==
  /\ removing' = removing \cup {r}
  /\ UNCHANGED purge

\* The cache is full: OnPurge of the first room starts a goroutine that removes
\* its name and one for each client that is in the room now (cr.Close).
Purge(r) ==
  /\ removing' = removing \cup {r}
  /\ purge' = purge \cup (MembersOf(r) \X {r})

\* Mutant: a cache without a limit.
OpenRoomUnlimited(c) ==
  /\ at[c] = "get" /\ Len(name) < MaxOpened
  /\ name' = Append(name, want[c])
  /\ adding' = adding \cup {Len(name) + 1}
  /\ joined' = [joined EXCEPT ![c] = Len(name) + 1]
  /\ cache' = Append(cache, Len(name) + 1)
  /\ at' = [at EXCEPT ![c] = "insert"]
  /\ UNCHANGED <<removing, purge, roomNames, overtaken, want, late>>

\* OnMiss: a new room, and a goroutine that adds its name; then the cache makes
\* place for it.
OpenRoom(c) ==
  /\ at[c] = "get" /\ Len(name) < MaxOpened
  /\ LET new == Len(name) + 1 IN
       /\ name' = Append(name, want[c])
       /\ adding' = adding \cup {new}
       /\ joined' = [joined EXCEPT ![c] = new]
       /\ \/ /\ Len(cache) < NumRooms
             /\ cache' = Append(cache, new)
             /\ UNCHANGED <<removing, purge>>
          \/ /\ Len(cache) = NumRooms
             /\ Purge(Head(cache))
             /\ cache' = Append(Tail(cache), new)
  /\ at' = [at EXCEPT ![c] = "insert"]
  /\ UNCHANGED <<roomNames, overtaken, want, late>>

\* Mutant: two misses for one name at a time each open a room.
GetMissRacing(c) == OpenRoom(c)

\* s.rooms.Get, for a name that no room in the cache has.
GetMiss(c) ==
  /\ \A r \in Cached : name[r] # want[c]
  /\ OpenRoom(c)

\* cr.l_addClient(c): the client enters the map of the room it was given.
AddClient(c) ==
  /\ at[c] = "insert"
  /\ at' = [at EXCEPT ![c] = "in"]
  /\ late' = IF joined[c] \in Cached THEN late ELSE late \cup {c}
  /\ UNCHANGED <<cache, name, names, want, joined, purge>>

\* l_delClient of a client that is in the map, and the end of its handler.
DelClient(c) ==
  /\ at' = [at EXCEPT ![c] = "away"]
  /\ joined' = [joined EXCEPT ![c] = Nobody]
  /\ late' = late \ {c}
  /\ UNCHANGED <<cache, name, names, want>>

Leave(c) ==
  /\ at[c] = "in"
  /\ DelClient(c)
  /\ UNCHANGED purge

\* A purge goroutine, whenever it gets to run: a NOP for a client that has left the
\* room, wherever the peer is by then.
PurgeClient(c, r) ==
  /\ <<c, r>> \in purge
  /\ purge' = purge \ {<<c, r>>}
  /\ \/ c \in MembersOf(r) /\ DelClient(c)
     \/ c \notin MembersOf(r) /\ UNCHANGED <<cache, name, names, at, want, joined, late>>

\* History: a goroutine runs for the name n.
RecordRun(n, after) ==
  overtaken' = IF after THEN overtaken \cup {n} ELSE overtaken \ {n}

\* go s.roomNames.Add(roomname), whenever it gets to run.
AddName(r) ==
  /\ r \in adding
  /\ adding' = adding \ {r}
  /\ roomNames' = roomNames \cup {name[r]}
  /\ RecordRun(name[r], RemoveRan(r) \/ LaterRan(r))
  /\ UNCHANGED <<cache, name, removing, at, want, joined, purge, late>>

\* go cr.server.roomNames.Remove(cr.name)
RemoveName(r) ==
  /\ r \in removing
  /\ removing' = removing \ {r}
  /\ roomNames' = roomNames \ {name[r]}
  /\ RecordRun(name[r], LaterRan(r))
  /\ UNCHANGED <<cache, name, adding, at, want, joined, purge, late>>

\* What handleRooms answers.
Rooms == roomNames \cap Links

Next ==
  \/ \E c \in Clients :
       \/ HandleHub(c) \/ GetHit(c) \/ GetMiss(c) \/ AddClient(c)
       \/ Leave(c) \/ (\E r \in Opened : PurgeClient(c, r))
  \/ \E r \in Opened : AddName(r) \/ RemoveName(r)

Spec == Init /\ [][Next]_vars
-------------------------------------------------------------------------------
(* What the server must guarantee.                                            *)

\* Every variable has the type of the code's; the cache never holds more rooms
\* than it may, and none twice.
TypeOK ==
  /\ name \in Seq(Names)
  /\ cache \in Seq(Opened) /\ Len(cache) <= NumRooms
  /\ \A i, j \in 1..Len(cache) : cache[i] = cache[j] => i = j
  /\ roomNames \subseteq Names
  /\ adding \subseteq Opened /\ removing \subseteq Opened
  /\ at \in [Clients -> {"away", "get", "insert", "in"}]
  /\ want \in [Clients -> Names]
  /\ joined \in [Clients -> Opened \cup {Nobody}]
  /\ purge \subseteq Clients \X Opened /\ late \subseteq Clients
  /\ overtaken \subseteq Names

\* Two peers that ask for the same name and are both in stay in one room; the
\* only ones apart are about to be removed, or entered a room after its purge.
SameNameSameRoom ==
  \A c, d \in Clients :
    (/\ at[c] = "in" /\ at[d] = "in" /\ want[c] = want[d]
     /\ \A e \in {c, d} : ~Purged(e) /\ e \notin late)
    => joined[c] = joined[d]

\* A purge removes everybody who was in the room when it was closed: who stays
\* in a room that is not in the cache entered it later.
OnlyLateStay ==
  \A c \in Clients :
    at[c] = "in" /\ joined[c] \notin Cached => Purged(c) \/ c \in late

\* The goroutines of OnMiss and OnPurge run in any order.  When none is left for a
\* name, the list, and what it shows to visitors, is right about that name over any
\* number of openings and purges, unless the last one to run had been overtaken: an
\* error needs that, and lasts until one runs that was not.
ListedUnlessOvertaken ==
  \A n \in Names \ overtaken :
    (\A r \in adding \cup removing : name[r] # n) =>
      LET open == \E r \in Cached : name[r] = n IN
      /\ n \in roomNames <=> open
      /\ n \in Rooms <=> open /\ n \in Links

\* The flag -rooms is the "maximum number of open rooms": once every purge is
\* done and nobody is on the way in, no more rooms than that have members.
NoMoreRoomsThanMax ==
  purge = {} /\ (\A c \in Clients : at[c] \in {"away", "in"}) =>
    Cardinality({r \in Opened : MembersOf(r) # {}} \cup Cached) <= NumRooms

-------------------------------------------------------------------------------
(* The inductive invariant behind all of these but the last.                 *)

\* Whoever was given a room was given one of the name it asked for.
JoinedInv ==
  \A c \in Clients : at[c] \in {"insert", "in"} =>
    joined[c] \in Opened /\ name[joined[c]] = want[c]

\* A room in the cache is the last that was opened with its name.
LatestInv ==
  \A r \in Cached : \A s \in Opened : s > r => name[s] # name[r]

\* A room whose name is to be removed is not in the cache.  The list is as the
\* latest of the goroutines that ran has left it, unless that was overtaken.
ListInv ==
  /\ removing \cap Cached = {}
  /\ \A n \in Names \ overtaken :
       n \in roomNames <=>
         \E r \in Opened : name[r] = n /\ AddRan(r) /\ ~RemoveRan(r) /\ ~LaterRan(r)

IInv ==
  /\ TypeOK /\ JoinedInv /\ LatestInv /\ ListInv /\ OnlyLateStay

===============================================================================
