------------------------------ MODULE ServerProofs ------------------------------
(***************************************************************************)
(* The server keeps rooms, members and names together for any number of    *)
(* peers, names and rooms.                                                 *)
(*                                                                         *)
(* The argument: IInv (Server.tla) is inductive.  What the cache holds     *)
(* changes in two ways only, stated as lemmas: a room that is asked for    *)
(* moves to the end, and a new one comes in, for which the first may go.   *)
(***************************************************************************)
EXTENDS Server, SequenceTheorems, TLAPS

-------------------------------------------------------------------------------
(* The cache.                                                                *)

\* A hit changes the order of the rooms in the cache and nothing else.
LEMMA RefreshKeeps ==
  ASSUME TypeOK, NEW i \in 1..Len(cache)
  PROVE  /\ Refresh(i) \in Seq(Opened)
         /\ Len(Refresh(i)) = Len(cache)
         /\ {Refresh(i)[k] : k \in 1..Len(Refresh(i))} = Cached
         /\ \A k, l \in 1..Len(Refresh(i)) :
              Refresh(i)[k] = Refresh(i)[l] => k = l
<1> DEFINE new == Refresh(i)
           n == Len(cache)
           src(k) == IF k < i THEN k ELSE IF k < n THEN k + 1 ELSE i
           dst(k) == IF k < i THEN k ELSE IF k = i THEN n ELSE k - 1
<1>1. n \in Nat /\ i \in 1..n /\ cache \in [1..n -> Opened]
  BY DEF TypeOK
<1>2. ASSUME NEW k \in 1..n
      PROVE  src(k) \in 1..n /\ dst(k) \in 1..n /\ src(dst(k)) = k
  <2> HIDE DEF n
  <2>1. CASE k < i
    BY <1>1, <2>1
  <2>2. CASE k = i
    BY <1>1, <2>2
  <2>3. CASE k > i
    BY <1>1, <2>3
  <2> QED BY <1>1, <2>1, <2>2, <2>3
<1>3. \A k \in 1..n : new[k] = cache[src(k)]
  BY <1>1 DEF Refresh
<1>4. new \in [1..n -> Opened]
  BY <1>1 DEF Refresh
<1>5. new \in Seq(Opened) /\ Len(new) = n
  BY <1>1, <1>4 DEF Refresh
<1>6. {new[k] : k \in 1..n} = Cached
  <2>1. ASSUME NEW k \in 1..n PROVE new[k] \in Cached
    BY <1>2, <1>3 DEF Cached
  <2>2. ASSUME NEW k \in 1..n PROVE cache[k] = new[dst(k)] /\ dst(k) \in 1..n
    BY <1>2, <1>3
  <2> HIDE DEF new, dst, src
  <2> QED BY <2>1, <2>2 DEF Cached
<1>7. ASSUME NEW k \in 1..n, NEW l \in 1..n, new[k] = new[l] PROVE k = l
  <2>1. cache[src(k)] = cache[src(l)] /\ src(k) \in 1..n /\ src(l) \in 1..n
    BY <1>2, <1>3, <1>7
  <2>2. src(k) = src(l)
    BY <2>1 DEF TypeOK
  <2> QED BY <2>2, <1>1
<1> HIDE DEF new
<1> QED BY <1>5, <1>6, <1>7 DEF new

\* A miss brings a new room into the cache, for which the first one goes when
\* the cache is full.
LEMMA OpenRoomCache ==
  ASSUME TypeOK, NEW c \in Clients, OpenRoom(c), NEW new, new = Len(name) + 1
  PROVE  /\ cache' \in Seq(1..new) /\ Len(cache') <= NumRooms
         /\ \A k, l \in 1..Len(cache') : cache'[k] = cache'[l] => k = l
         /\ \/ /\ Cached' = Cached \cup {new}
               /\ UNCHANGED <<removing, purge>>
            \/ \E r \in Cached : /\ Cached' = (Cached \ {r}) \cup {new}
                                 /\ Purge(r)
<1> USE ServerAssumption
<1>1. /\ cache \in Seq(1..new) /\ cache \in Seq(Opened) /\ new \in Nat
      /\ Len(cache) \in Nat /\ Len(cache) <= NumRooms
      /\ \A k \in 1..Len(cache) : cache[k] \in 1..new - 1
  BY DEF TypeOK, Opened
<1>2. CASE Len(cache) < NumRooms
  <2>1. cache' = Append(cache, new) /\ UNCHANGED <<removing, purge>>
    BY <1>1, <1>2 DEF OpenRoom
  <2>2. /\ Len(cache') = Len(cache) + 1 /\ cache' \in Seq(1..new)
        /\ cache'[Len(cache) + 1] = new
        /\ \A k \in 1..Len(cache) : cache'[k] = cache[k]
    BY <1>1, <2>1
  <2>3. ASSUME NEW k \in 1..Len(cache'), NEW l \in 1..Len(cache'),
               cache'[k] = cache'[l]
        PROVE  k = l
    <3>1. \A x, y \in 1..Len(cache) : cache[x] = cache[y] => x = y
      BY DEF TypeOK
    <3>2. \A x \in 1..Len(cache) : cache'[x] = cache[x] /\ cache'[x] # new
      BY <1>1, <2>2
    <3>3. CASE k = Len(cache) + 1 \/ l = Len(cache) + 1
      BY <1>1, <2>2, <2>3, <3>2, <3>3
    <3>4. CASE k \in 1..Len(cache) /\ l \in 1..Len(cache)
      BY <2>3, <3>1, <3>2, <3>4
    <3> QED BY <1>1, <2>2, <3>3, <3>4
  <2>4. Cached' = Cached \cup {new}
    <3>1. ASSUME NEW k \in 1..Len(cache') PROVE cache'[k] \in Cached \cup {new}
      <4>1. CASE k = Len(cache) + 1
        BY <2>2, <4>1
      <4>2. CASE k \in 1..Len(cache)
        BY <2>2, <4>2 DEF Cached
      <4> QED BY <1>1, <2>2, <4>1, <4>2
    <3>2. ASSUME NEW k \in 1..Len(cache) PROVE cache[k] \in Cached'
      BY <1>1, <2>2 DEF Cached
    <3>3. new \in Cached'
      BY <1>1, <2>2 DEF Cached
    <3> QED BY <3>1, <3>2, <3>3 DEF Cached
  <2> QED BY <1>1, <1>2, <2>1, <2>2, <2>3, <2>4
<1>3. CASE Len(cache) = NumRooms
  <2> DEFINE rest == Tail(cache)
  <2>1. /\ cache' = Append(rest, new) /\ Purge(Head(cache))
        /\ Len(cache) > 0
    BY <1>1, <1>3 DEF OpenRoom
  <2>2. /\ rest \in Seq(1..new) /\ Len(rest) = Len(cache) - 1
        /\ \A k \in 1..Len(rest) : rest[k] = cache[k + 1]
        /\ Head(cache) = cache[1] /\ cache[1] \in Cached
    BY <1>1, <2>1 DEF Cached
  <2> HIDE DEF rest
  <2>3. /\ Len(cache') = Len(cache) /\ cache' \in Seq(1..new)
        /\ cache'[Len(cache)] = new
        /\ \A k \in 1..Len(cache) - 1 : cache'[k] = cache[k + 1]
    BY <1>1, <2>1, <2>2
  <2>4. \A x, y \in 1..Len(cache) : cache[x] = cache[y] => x = y
    BY DEF TypeOK
  <2>5. \A x \in 1..Len(cache) - 1 : cache'[x] # new
    BY <1>1, <2>3
  <2>6. ASSUME NEW k \in 1..Len(cache'), NEW l \in 1..Len(cache'),
               cache'[k] = cache'[l]
        PROVE  k = l
    <3>1. CASE k = Len(cache) \/ l = Len(cache)
      <4>1. \A x \in 1..Len(cache') : cache'[x] = new => x = Len(cache)
        BY <1>1, <2>1, <2>3, <2>5
      <4>2. cache'[k] = new /\ cache'[l] = new
        BY <2>3, <2>6, <3>1
      <4> QED BY <4>1, <4>2
    <3>2. CASE k \in 1..Len(cache) - 1 /\ l \in 1..Len(cache) - 1
      <4>1. cache[k + 1] = cache[l + 1]
        BY <2>3, <2>6, <3>2
      <4>2. k + 1 = l + 1
        BY <1>1, <2>4, <3>2, <4>1
      <4> QED BY <3>2, <4>2
    <3> QED BY <1>1, <2>1, <2>3, <3>1, <3>2
  <2>7. Cached' = (Cached \ {cache[1]}) \cup {new}
    <3>1. ASSUME NEW k \in 1..Len(cache)
          PROVE  cache'[k] \in (Cached \ {cache[1]}) \cup {new}
      <4>1. CASE k = Len(cache)
        BY <2>3, <4>1
      <4>2. CASE k \in 1..Len(cache) - 1
        <5>1. k + 1 \in 1..Len(cache) /\ 1 \in 1..Len(cache) /\ k + 1 # 1
          BY <1>1, <4>2
        <5>2. cache[k + 1] \in Cached /\ cache[k + 1] # cache[1]
          BY <2>4, <5>1 DEF Cached
        <5> QED BY <2>3, <4>2, <5>2
      <4> QED BY <1>1, <4>1, <4>2
    <3>2. ASSUME NEW k \in 1..Len(cache), cache[k] # cache[1]
          PROVE  k - 1 \in 1..Len(cache) /\ cache'[k - 1] = cache[k]
      BY <1>1, <2>1, <2>3, <3>2
    <3>3. Cached' \subseteq (Cached \ {cache[1]}) \cup {new}
      BY <2>3, <3>1 DEF Cached
    <3>4. Cached \ {cache[1]} \subseteq Cached'
      BY <2>3, <3>2 DEF Cached
    <3>5. new \in Cached'
      BY <1>1, <2>1, <2>3 DEF Cached
    <3> QED BY <3>3, <3>4, <3>5
  <2> QED BY <1>1, <1>3, <2>1, <2>2, <2>3, <2>6, <2>7
<1> QED BY <1>1, <1>2, <1>3 DEF OpenRoom

-------------------------------------------------------------------------------
(* Each action keeps IInv.                                                   *)

\* handleHub: a peer that is away is in no room, whatever it asks for.
LEMMA HandleHubKeeps ==
  ASSUME IInv, NEW c \in Clients, HandleHub(c)
  PROVE  IInv'
<1> USE DEF HandleHub, names, Opened, Cached
<1>1. TypeOK'
  BY DEF IInv, TypeOK
<1>2. JoinedInv'
  BY DEF IInv, TypeOK, JoinedInv
<1>3. LatestInv' /\ ListInv'
  BY DEF IInv, LatestInv, ListInv, AddRan, RemoveRan, LaterRan
<1>4. OnlyLateStay'
  BY DEF IInv, TypeOK, OnlyLateStay, Purged
<1> QED BY <1>1, <1>2, <1>3, <1>4 DEF IInv

\* A hit in the cache gives the peer a room of the name it asked for.
LEMMA GetHitKeeps ==
  ASSUME IInv, NEW c \in Clients, GetHit(c)
  PROVE  IInv'
<1>1. PICK i \in 1..Len(cache) :
        /\ name[cache[i]] = want[c]
        /\ cache' = Refresh(i)
        /\ joined' = [joined EXCEPT ![c] = cache[i]]
  BY DEF GetHit
<1>2. TypeOK /\ cache[i] \in Opened
  BY DEF IInv, TypeOK
<1>3. /\ at[c] = "get" /\ at' = [at EXCEPT ![c] = "insert"]
      /\ UNCHANGED <<name, names, want, purge, late>>
  BY DEF GetHit
<1>4. /\ cache' \in Seq(Opened) /\ Len(cache') = Len(cache)
      /\ \A k, l \in 1..Len(cache') : cache'[k] = cache'[l] => k = l
      /\ Cached' = Cached
  <2>1. /\ Refresh(i) \in Seq(Opened) /\ Len(Refresh(i)) = Len(cache)
        /\ {Refresh(i)[k] : k \in 1..Len(Refresh(i))} = Cached
        /\ \A k, l \in 1..Len(Refresh(i)) :
             Refresh(i)[k] = Refresh(i)[l] => k = l
    BY <1>2, RefreshKeeps
  <2>2. Cached' = {cache'[k] : k \in 1..Len(cache')}
    BY DEF Cached
  <2> QED BY <1>1, <2>1, <2>2
<1>5. Opened' = Opened
  BY <1>3 DEF Opened
<1>6. TypeOK'
  BY <1>1, <1>2, <1>3, <1>4, <1>5 DEF TypeOK, names
<1>7. JoinedInv'
  BY <1>1, <1>2, <1>3, <1>5 DEF IInv, TypeOK, JoinedInv
<1>8. LatestInv' /\ ListInv'
  BY <1>3, <1>4, <1>5
     DEF IInv, LatestInv, ListInv, AddRan, RemoveRan, LaterRan, names
<1>9. OnlyLateStay'
  BY <1>1, <1>2, <1>3, <1>4 DEF IInv, TypeOK, OnlyLateStay, Purged
<1> QED BY <1>6, <1>7, <1>8, <1>9 DEF IInv

\* A miss: the new room's name is new to the cache, and whoever is in the room
\* that goes will be removed.
LEMMA GetMissKeeps ==
  ASSUME IInv, NEW c \in Clients, GetMiss(c)
  PROVE  IInv'
<1> DEFINE new == Len(name) + 1
<1>1. TypeOK /\ OpenRoom(c) /\ \A r \in Cached : name[r] # want[c]
  BY DEF IInv, GetMiss
<1>2. /\ at[c] = "get" /\ at' = [at EXCEPT ![c] = "insert"]
      /\ name' = Append(name, want[c])
      /\ adding' = adding \cup {new}
      /\ joined' = [joined EXCEPT ![c] = new]
      /\ UNCHANGED <<roomNames, overtaken, want, late>>
  BY <1>1 DEF OpenRoom
<1>3. /\ Len(name) \in Nat /\ Opened = 1..Len(name)
      /\ want[c] \in Names /\ Cached \subseteq Opened
  BY <1>1 DEF TypeOK, Cached, Opened
<1>4. /\ name' \in Seq(Names) /\ Len(name') = new /\ name'[new] = want[c]
      /\ \A r \in Opened : name'[r] = name[r]
      /\ Opened' = Opened \cup {new} /\ Opened' = 1..new /\ new \notin Opened
  BY <1>1, <1>2, <1>3 DEF TypeOK, Opened
<1>5. /\ cache' \in Seq(1..new) /\ Len(cache') <= NumRooms
      /\ \A k, l \in 1..Len(cache') : cache'[k] = cache'[l] => k = l
      /\ \/ /\ Cached' = Cached \cup {new}
            /\ UNCHANGED <<removing, purge>>
         \/ \E r \in Cached : /\ Cached' = (Cached \ {r}) \cup {new}
                              /\ Purge(r)
  BY <1>1, OpenRoomCache
<1> HIDE DEF new
<1>6. /\ Cached' \subseteq Cached \cup {new}
      /\ Cached \cup removing \subseteq Cached' \cup removing'
      /\ removing' \subseteq removing \cup (Cached \ Cached')
      /\ \A d \in Clients :
           (at[d] = "in" /\ joined[d] \in Cached \ Cached') => Purged(d)'
      /\ purge \subseteq purge' /\ purge' \subseteq Clients \X Opened'
      /\ removing' \subseteq Opened'
  <2>1. /\ removing \subseteq Opened /\ purge \subseteq Clients \X Opened
        /\ new \notin Cached
    BY <1>1, <1>3, <1>4 DEF TypeOK
  <2>2. CASE Cached' = Cached \cup {new} /\ UNCHANGED <<removing, purge>>
    BY <1>4, <2>1, <2>2
  <2>3. CASE \E r \in Cached : /\ Cached' = (Cached \ {r}) \cup {new}
                             /\ Purge(r)
    <3>1. PICK r \in Cached : Cached' = (Cached \ {r}) \cup {new} /\ Purge(r)
      BY <2>3
    <3>2. Cached \ Cached' = {r} /\ r \in Opened
      BY <1>3, <2>1, <3>1
    <3>3. removing' = removing \cup {r} /\ purge' = purge \cup (MembersOf(r) \X {r})
      BY <3>1 DEF Purge
    <3>4. /\ MembersOf(r) \subseteq Clients
          /\ \A d \in Clients :
               d \in MembersOf(r) <=> (at[d] = "in" /\ joined[d] = r)
      BY DEF MembersOf
    <3>5. ASSUME NEW d \in Clients, at[d] = "in", joined[d] \in Cached \ Cached'
          PROVE  Purged(d)'
      <4>1. joined[d] = r /\ d \in MembersOf(r) /\ d # c
        BY <1>2, <3>2, <3>4, <3>5
      <4>2. joined'[d] = r
        BY <1>1, <1>2, <4>1 DEF TypeOK
      <4> QED BY <3>3, <4>1, <4>2 DEF Purged
    <3>6. purge \subseteq purge' /\ purge' \subseteq Clients \X Opened'
      BY <1>4, <2>1, <3>2, <3>3, <3>4
    <3>7. /\ Cached' \subseteq Cached \cup {new}
          /\ Cached \cup removing \subseteq Cached' \cup removing'
          /\ removing' \subseteq removing \cup (Cached \ Cached')
          /\ removing' \subseteq Opened'
      BY <1>4, <2>1, <3>1, <3>2, <3>3
    <3> QED BY <3>5, <3>6, <3>7
  <2> QED BY <1>5, <2>2, <2>3
<1>7. TypeOK'
  BY <1>1, <1>2, <1>3, <1>4, <1>5, <1>6 DEF TypeOK
<1>8. JoinedInv'
  BY <1>1, <1>2, <1>3, <1>4 DEF IInv, TypeOK, JoinedInv
<1>9. LatestInv'
  <2> SUFFICES ASSUME NEW r \in Cached', NEW s \in Opened', s > r PROVE name'[s] # name'[r]
    BY DEF LatestInv
  <2>1. r \in Cached /\ r \in Opened
    BY <1>3, <1>4, <1>6
  <2>2. CASE s = new
    BY <1>1, <1>4, <2>1, <2>2
  <2>3. CASE s \in Opened
    BY <1>4, <2>1, <2>3 DEF IInv, LatestInv
  <2> QED BY <1>4, <2>2, <2>3
<1>10. ListInv'
  <2>1. removing' \cap Cached' = {}
    <3> SUFFICES ASSUME NEW r, r \in removing', r \in Cached' PROVE FALSE
      OBVIOUS
    <3>1. CASE r \in removing
      BY <1>1, <1>4, <1>6, <3>1 DEF IInv, TypeOK, ListInv
    <3>2. CASE r \in Cached \ Cached'
      BY <3>2
    <3> QED BY <1>6, <3>1, <3>2
  <2>2. ASSUME NEW s \in Opened', s \notin Opened PROVE ~AddRan(s)' /\ ~RemoveRan(s)'
    <3>1. s = new
      BY <1>4, <2>2
    <3>2. s \in adding' /\ s \in Cached'
      BY <1>2, <1>5, <3>1
    <3> QED BY <3>2 DEF AddRan, RemoveRan
  <2>3. ASSUME NEW r \in Opened
        PROVE  (AddRan(r)' <=> AddRan(r)) /\ (RemoveRan(r)' <=> RemoveRan(r))
    BY <1>1, <1>2, <1>4, <1>6 DEF AddRan, RemoveRan, TypeOK
  <2>4. ASSUME NEW r \in Opened PROVE LaterRan(r)' <=> LaterRan(r)
    BY <1>4, <2>2, <2>3 DEF LaterRan
  <2>5. ASSUME NEW n \in Names \ overtaken'
        PROVE  n \in roomNames' <=>
                 \E r \in Opened' : name'[r] = n /\ AddRan(r)' /\ ~RemoveRan(r)' /\ ~LaterRan(r)'
    <3>1. n \in roomNames' <=>
            \E r \in Opened : name[r] = n /\ AddRan(r) /\ ~RemoveRan(r) /\ ~LaterRan(r)
      BY <1>2 DEF IInv, ListInv
    <3> QED BY <1>4, <2>2, <2>3, <2>4, <3>1
  <2> QED BY <2>1, <2>5 DEF ListInv
<1>11. OnlyLateStay'
  <2> SUFFICES ASSUME NEW d \in Clients, at'[d] = "in", joined'[d] \notin Cached'
               PROVE  Purged(d)' \/ d \in late'
    BY DEF OnlyLateStay
  <2>1. d # c /\ at[d] = "in" /\ joined'[d] = joined[d]
    BY <1>1, <1>2 DEF TypeOK
  <2>2. CASE joined[d] \in Cached
    BY <1>6, <2>1, <2>2
  <2>3. CASE joined[d] \notin Cached
    BY <1>2, <1>6, <2>1, <2>3 DEF IInv, OnlyLateStay, Purged
  <2> QED BY <2>2, <2>3
<1> QED BY <1>7, <1>8, <1>9, <1>10, <1>11 DEF IInv

\* l_addClient: who enters a room that has left the cache is late.
LEMMA AddClientKeeps ==
  ASSUME IInv, NEW c \in Clients, AddClient(c)
  PROVE  IInv'
<1> USE DEF AddClient, names, Opened, Cached
<1>1. TypeOK'
  BY DEF IInv, TypeOK
<1>2. JoinedInv'
  BY DEF IInv, TypeOK, JoinedInv
<1>3. LatestInv' /\ ListInv'
  BY DEF IInv, LatestInv, ListInv, AddRan, RemoveRan, LaterRan
<1>4. OnlyLateStay'
  BY DEF IInv, TypeOK, OnlyLateStay, Purged
<1> QED BY <1>1, <1>2, <1>3, <1>4 DEF IInv

\* l_delClient of a member: who is removed is away.
LEMMA DelClientKeeps ==
  ASSUME IInv, NEW c \in Clients, DelClient(c), purge' \subseteq purge,
         \A d \in Clients \ {c} : Purged(d) => Purged(d)'
  PROVE  IInv'
<1> USE DEF DelClient, names, Opened, Cached
<1>1. TypeOK'
  BY DEF IInv, TypeOK, Nobody
<1>2. JoinedInv'
  BY DEF IInv, TypeOK, JoinedInv
<1>3. LatestInv' /\ ListInv'
  BY DEF IInv, LatestInv, ListInv, AddRan, RemoveRan, LaterRan
<1>4. OnlyLateStay'
  BY DEF IInv, TypeOK, OnlyLateStay
<1> QED BY <1>1, <1>2, <1>3, <1>4 DEF IInv

\* The reader's l_delClient leaves the purge goroutines alone.
LEMMA LeaveKeeps ==
  ASSUME IInv, NEW c \in Clients, Leave(c)
  PROVE  IInv'
<1>1. DelClient(c) /\ purge' = purge
  BY DEF Leave
<1>2. \A d \in Clients \ {c} : Purged(d) => Purged(d)'
  BY <1>1 DEF IInv, TypeOK, DelClient, Purged
<1> QED BY <1>1, <1>2, DelClientKeeps

\* A purge goroutine removes a member of its room, or does nothing.
LEMMA PurgeClientKeeps ==
  ASSUME IInv, NEW c \in Clients, NEW r \in Opened, PurgeClient(c, r)
  PROVE  IInv'
<1>1. purge' = purge \ {<<c, r>>} /\ purge' \subseteq purge
  BY DEF PurgeClient
<1>2. CASE c \in MembersOf(r) /\ DelClient(c)
  <2>1. \A d \in Clients \ {c} : Purged(d) => Purged(d)'
    BY <1>1, <1>2 DEF IInv, TypeOK, DelClient, Purged
  <2> QED BY <1>1, <1>2, <2>1, DelClientKeeps
<1>3. CASE c \notin MembersOf(r) /\ UNCHANGED <<cache, name, names, at, want, joined, late>>
  <2> USE <1>3 DEF names, Opened, Cached
  <2>1. TypeOK'
    BY <1>1 DEF IInv, TypeOK
  <2>2. JoinedInv' /\ LatestInv' /\ ListInv'
    BY DEF IInv, JoinedInv, LatestInv, ListInv, AddRan, RemoveRan, LaterRan
  <2>3. ASSUME NEW d \in Clients, at[d] = "in", Purged(d) PROVE Purged(d)'
    BY <1>1, <2>3 DEF MembersOf, Purged
  <2>4. OnlyLateStay'
    BY <2>3 DEF IInv, OnlyLateStay
  <2> QED BY <2>1, <2>2, <2>4 DEF IInv
<1> QED BY <1>2, <1>3 DEF PurgeClient

\* Goroutines of the list do not touch anything else.
LEMMA ListOnly ==
  ASSUME IInv, UNCHANGED <<cache, name, at, want, joined, purge, late>>,
         adding' \subseteq adding, removing' \subseteq removing,
         roomNames' \subseteq Names, overtaken' \subseteq Names
  PROVE  TypeOK' /\ JoinedInv' /\ LatestInv' /\ OnlyLateStay'
<1> USE DEF Opened, Cached
<1>1. TypeOK'
  BY DEF IInv, TypeOK
<1>2. JoinedInv' /\ LatestInv' /\ OnlyLateStay'
  BY DEF IInv, JoinedInv, LatestInv, OnlyLateStay, Purged
<1> QED BY <1>1, <1>2

\* The goroutine that adds a name: not overtaken, it is the latest to run.
LEMMA AddNameKeeps ==
  ASSUME IInv, NEW r \in Opened, AddName(r)
  PROVE  IInv'
<1>1. /\ TypeOK /\ ListInv /\ r \in adding /\ name[r] \in Names
      /\ adding' = adding \ {r} /\ roomNames' = roomNames \cup {name[r]}
      /\ UNCHANGED <<cache, name, removing, at, want, joined, purge, late>>
      /\ overtaken' = IF RemoveRan(r) \/ LaterRan(r) THEN overtaken \cup {name[r]}
                      ELSE overtaken \ {name[r]}
  BY DEF IInv, TypeOK, AddName, RecordRun, Opened
<1>2. Cached' = Cached /\ Opened' = Opened /\ Opened \subseteq Nat
  BY <1>1 DEF Cached, Opened
<1>3. /\ \A s \in Opened : RemoveRan(s)' <=> RemoveRan(s)
      /\ \A s \in Opened : s # r => (AddRan(s)' <=> AddRan(s))
      /\ AddRan(r)'
  BY <1>1, <1>2 DEF AddRan, RemoveRan
<1>4. ASSUME NEW n \in Names \ overtaken'
      PROVE  n \in roomNames' <=>
               \E s \in Opened : name[s] = n /\ AddRan(s)' /\ ~RemoveRan(s)' /\ ~LaterRan(s)'
  <2>1. CASE n = name[r]
    <3>1. ~RemoveRan(r) /\ ~LaterRan(r)
      BY <1>1, <1>4, <2>1
    <3>2. ~LaterRan(r)'
      BY <1>1, <1>2, <1>3, <3>1 DEF LaterRan
    <3> QED BY <1>1, <1>3, <2>1, <3>1, <3>2
  <2>2. CASE n # name[r]
    <3>1. \A s \in Opened : name[s] = n => (LaterRan(s)' <=> LaterRan(s))
      BY <1>1, <1>2, <1>3, <2>2 DEF LaterRan
    <3>2. n \notin overtaken
      BY <1>1, <1>4, <2>2
    <3> QED BY <1>1, <1>3, <2>2, <3>1, <3>2 DEF ListInv
  <2> QED BY <2>1, <2>2
<1>5. ListInv'
  BY <1>1, <1>2, <1>4 DEF ListInv
<1> QED BY <1>1, <1>5, ListOnly DEF IInv, TypeOK

\* The goroutine that removes a name: not overtaken, it leaves a list without it,
\* and those that ran before are earlier.
LEMMA RemoveNameKeeps ==
  ASSUME IInv, NEW r \in Opened, RemoveName(r)
  PROVE  IInv'
<1>1. /\ TypeOK /\ ListInv /\ r \in removing /\ name[r] \in Names
      /\ removing' = removing \ {r} /\ roomNames' = roomNames \ {name[r]}
      /\ UNCHANGED <<cache, name, adding, at, want, joined, purge, late>>
      /\ overtaken' = IF LaterRan(r) THEN overtaken \cup {name[r]}
                      ELSE overtaken \ {name[r]}
  BY DEF IInv, TypeOK, RemoveName, RecordRun, Opened
<1>2. /\ Cached' = Cached /\ Opened' = Opened /\ Opened \subseteq Nat
      /\ r \notin Cached
  BY <1>1 DEF Cached, Opened, ListInv
<1>3. /\ \A s \in Opened : AddRan(s)' <=> AddRan(s)
      /\ \A s \in Opened : s # r => (RemoveRan(s)' <=> RemoveRan(s))
      /\ RemoveRan(r)'
  BY <1>1, <1>2 DEF AddRan, RemoveRan
<1>4. ASSUME NEW n \in Names \ overtaken'
      PROVE  n \in roomNames' <=>
               \E s \in Opened : name[s] = n /\ AddRan(s)' /\ ~RemoveRan(s)' /\ ~LaterRan(s)'
  <2>1. CASE n = name[r]
    <3>1. ~LaterRan(r)
      BY <1>1, <1>4, <2>1
    <3>2. ASSUME NEW s \in Opened, name[s] = n, AddRan(s)', ~RemoveRan(s)', ~LaterRan(s)'
          PROVE  FALSE
      <4>1. s # r
        BY <1>3, <3>2
      <4>2. CASE s > r
        BY <1>3, <2>1, <3>1, <3>2, <4>1, <4>2 DEF LaterRan
      <4>3. CASE r > s
        BY <1>1, <1>2, <1>3, <2>1, <3>2, <4>3 DEF LaterRan
      <4> QED BY <1>2, <4>1, <4>2, <4>3
    <3> QED BY <1>1, <2>1, <3>2
  <2>2. CASE n # name[r]
    <3>1. \A s \in Opened : name[s] = n => (LaterRan(s)' <=> LaterRan(s))
      BY <1>1, <1>2, <1>3, <2>2 DEF LaterRan
    <3>2. n \notin overtaken
      BY <1>1, <1>4, <2>2
    <3>3. \A s \in Opened : name[s] = n => s # r
      BY <2>2
    <3> QED BY <1>1, <1>3, <2>2, <3>1, <3>2, <3>3 DEF ListInv
  <2> QED BY <2>1, <2>2
<1>5. ListInv'
  BY <1>1, <1>2, <1>4 DEF ListInv
<1> QED BY <1>1, <1>5, ListOnly DEF IInv, TypeOK

-------------------------------------------------------------------------------
(* The theorems.                                                             *)

\* IInv holds at the start and after every step of the server.
THEOREM Inductive == Spec => []IInv
<1>1. Init => IInv
  <2> USE ServerAssumption
  <2>1. Init => TypeOK
    BY DEF Init, TypeOK, Opened, Cached
  <2>2. Init => JoinedInv /\ LatestInv /\ ListInv
    BY DEF Init, JoinedInv, LatestInv, ListInv, Cached, Opened
  <2>3. Init => OnlyLateStay
    BY DEF Init, OnlyLateStay
  <2> QED BY <2>1, <2>2, <2>3 DEF IInv
<1>2. IInv /\ [Next]_vars => IInv'
  <2> SUFFICES ASSUME IInv, [Next]_vars PROVE IInv'
    OBVIOUS
  <2>1. CASE UNCHANGED vars
    BY <2>1 DEF vars, names, IInv, TypeOK, JoinedInv, LatestInv, ListInv, AddRan,
                RemoveRan, LaterRan, OnlyLateStay, Purged, Opened, Cached
  <2>2. ASSUME NEW c \in Clients, HandleHub(c) PROVE IInv'
    BY <2>2, HandleHubKeeps
  <2>3. ASSUME NEW c \in Clients, GetHit(c) PROVE IInv'
    BY <2>3, GetHitKeeps
  <2>4. ASSUME NEW c \in Clients, GetMiss(c) PROVE IInv'
    BY <2>4, GetMissKeeps
  <2>5. ASSUME NEW c \in Clients, AddClient(c) PROVE IInv'
    BY <2>5, AddClientKeeps
  <2>6. ASSUME NEW c \in Clients, Leave(c) PROVE IInv'
    BY <2>6, LeaveKeeps
  <2>9. ASSUME NEW c \in Clients, NEW r \in Opened, PurgeClient(c, r) PROVE IInv'
    BY <2>9, PurgeClientKeeps
  <2>7. ASSUME NEW r \in Opened, AddName(r) PROVE IInv'
    BY <2>7, AddNameKeeps
  <2>8. ASSUME NEW r \in Opened, RemoveName(r) PROVE IInv'
    BY <2>8, RemoveNameKeeps
  <2> QED BY <2>1, <2>2, <2>3, <2>4, <2>5, <2>6, <2>7, <2>8, <2>9 DEF Next
<1> QED BY <1>1, <1>2, PTL DEF Spec

\* Type correctness: in particular the cache never exceeds NUM_ROOMS.
THEOREM TypeCorrect == Spec => []TypeOK
<1>1. IInv => TypeOK
  BY DEF IInv
<1> QED BY <1>1, Inductive, PTL

\* A purge of a room (cr.Close) reaches everybody who was in it.
THEOREM OnlyLateOnesStay == Spec => []OnlyLateStay
<1>1. IInv => OnlyLateStay
  BY DEF IInv
<1> QED BY <1>1, Inductive, PTL

\* Two peers that ask for one name (handleHub's parameter) stay in one room.
THEOREM SameNameMeetsInOneRoom == Spec => []SameNameSameRoom
<1>1. IInv => SameNameSameRoom
  <2> SUFFICES ASSUME IInv, NEW c \in Clients, NEW d \in Clients,
                      at[c] = "in", at[d] = "in", want[c] = want[d],
                      \A e \in {c, d} : ~Purged(e) /\ e \notin late
               PROVE  joined[c] = joined[d]
    BY DEF SameNameSameRoom
  <2>1. joined[c] \in Cached /\ joined[d] \in Cached
    BY DEF IInv, OnlyLateStay
  <2>2. /\ joined[c] \in Opened /\ joined[d] \in Opened
        /\ name[joined[c]] = name[joined[d]]
    BY DEF IInv, JoinedInv
  <2>3. ~(joined[c] > joined[d]) /\ ~(joined[d] > joined[c])
    BY <2>1, <2>2 DEF IInv, LatestInv
  <2> QED BY <2>2, <2>3 DEF IInv, TypeOK, Opened
<1> QED BY <1>1, Inductive, PTL

\* For every name whose goroutines (OnMiss, OnPurge) have all run the list is right,
\* in whichever order they ran, unless the last one had been overtaken.
THEOREM ListIsRightUnlessOvertaken == Spec => []ListedUnlessOvertaken
<1>1. IInv => ListedUnlessOvertaken
  <2> SUFFICES ASSUME IInv, NEW n \in Names \ overtaken,
                      \A r \in adding \cup removing : name[r] # n
               PROVE  n \in roomNames <=> \E r \in Cached : name[r] = n
    BY DEF ListedUnlessOvertaken, Rooms
  <2>1. Cached \subseteq Opened /\ Opened \subseteq Nat
    BY DEF IInv, TypeOK, Cached, Opened
  <2>2. \A r \in Opened : name[r] = n =>
          AddRan(r) /\ (RemoveRan(r) <=> r \notin Cached)
    BY DEF AddRan, RemoveRan, IInv, ListInv
  <2>3. n \in roomNames <=>
          \E r \in Opened : name[r] = n /\ r \in Cached /\ ~LaterRan(r)
    BY <2>2 DEF IInv, ListInv
  <2>4. \A r \in Cached : ~LaterRan(r)
    BY <2>1 DEF LaterRan, IInv, LatestInv
  <2> QED BY <2>1, <2>3, <2>4
<1> QED BY <1>1, Inductive, PTL
===============================================================================
