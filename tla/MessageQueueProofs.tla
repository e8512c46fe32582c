-------------------------- MODULE MessageQueueProofs --------------------------
(***************************************************************************)
(* MessageQueue keeps its promises for any number of appenders, listeners  *)
(* and messages, any message lengths and any limit.                        *)
(*                                                                         *)
(* The argument: IInv (MessageQueue.tla) is inductive.  There is one lemma *)
(* per atomic operation of the code, each with one step per conjunct of    *)
(* IInv; the conjuncts an operation can disturb are argued in detail.      *)
(* From IInv follow the safety invariants, the order of trimming, and that *)
(* each step is one of BroadcastLog or a stutter.                          *)
(***************************************************************************)
EXTENDS MessageQueue, SequenceTheorems, TLAPS

-------------------------------------------------------------------------------
(* What IInv says of the entry a goroutine holds.                            *)

\* Size() of an entry is a number.
LEMMA SizeInt ==
  ASSUME TypeOK, NEW i \in Entry
  PROVE  SizeOf(i) \in Int
BY QueueAssumption DEF TypeOK, SizeOf, BodyLen

\* The entry an appender fills is in the list, prepared and not announced.
LEMMA OwnedEntry ==
  ASSUME IInv, NEW t \in Appenders, Filling(t)
  PROVE  ent[t] \in Entry /\ valid[ent[t]] = 1
<1>1. Owns(t) /\ newest \in Nat
  BY DEF IInv, OwnerInv, TypeOK
<1>2. ent[t] \in 1..newest - 1 /\ valid[ent[t]] = 1
  BY <1>1 DEF Owns
<1> QED BY <1>1, <1>2 DEF Entry

\* The entry a listener is past waiting for holds the message that is due, and
\* links to its successor or is stale: what listener() relies on after Wait().
LEMMA ReadEntry ==
  ASSUME IInv, NEW l \in Listeners, at[l] \in {"select", "advance"}
  PROVE  /\ cur[l] \in Entry /\ valid[cur[l]] = 0
         /\ cur[l] \in 1..Len(log) /\ body[cur[l]] = log[cur[l]]
         /\ log[cur[l]] \in Msg
         /\ next[cur[l]] \in {Stale, cur[l] + 1} /\ next[cur[l]] # Nil
<1>1. cur[l] \in Entry /\ valid[cur[l]] = 0
  BY DEF IInv, ListenInv, Follows
<1>2. Linked(cur[l]) /\ Len(log) = newest - 1 /\ log \in Seq(Msg) /\ newest \in Nat
  BY <1>1 DEF IInv, EntryInv, TypeOK
<1>3. /\ cur[l] < newest /\ body[cur[l]] = log[cur[l]]
      /\ next[cur[l]] \in {Stale, cur[l] + 1} /\ next[cur[l]] # Nil
  BY <1>1, <1>2 DEF Linked
<1>4. cur[l] \in 1..Len(log)
  BY <1>1, <1>2, <1>3 DEF Entry
<1>5. log[cur[l]] \in Msg
  BY <1>2, <1>4, ElementOfSeq
<1> QED BY <1>1, <1>3, <1>4, <1>5

\* Where a listener starts, and with what.
LEMMA FrontEntry ==
  ASSUME IInv, NEW l \in Listeners
  PROVE  /\ oldest \in Entry \/ oldest = Nil
         /\ oldest # Stale
         /\ got[l] \in Seq(Msg) /\ Len(got[l]) \in Nat
         /\ at[l] = "start" => Len(got[l]) = 0
<1>1. newest \in Nat /\ oldest \in Entry \cup {Nil} /\ got[l] \in Seq(Msg)
  BY DEF IInv, TypeOK
<1>2. Len(<<>>) = 0
  BY EmptySeq
<1>3. at[l] = "start" => got[l] = <<>>
  BY DEF IInv, ListenInv, Follows
<1>4. Len(got[l]) \in Nat
  BY <1>1, LenProperties
<1>5. oldest # Stale
  BY <1>1 DEF Entry, Nil, Stale
<1> QED BY <1>1, <1>2, <1>3, <1>4, <1>5

\* What Wait() returns for has a message: the nil check never fires.
LEMMA WaitEntry ==
  ASSUME IInv, NEW l \in Listeners, at[l] = "wait", valid[cur[l]] = 0
  PROVE  body[cur[l]] \in Msg
<1>1. cur[l] \in Entry
  BY DEF IInv, ListenInv, Follows
<1>2. Linked(cur[l]) /\ Len(log) = newest - 1 /\ log \in Seq(Msg) /\ newest \in Nat
  BY <1>1 DEF IInv, EntryInv, TypeOK
<1>3. cur[l] < newest /\ body[cur[l]] = log[cur[l]]
  BY <1>1, <1>2 DEF Linked
<1>4. cur[l] \in 1..Len(log)
  BY <1>1, <1>2, <1>3 DEF Entry
<1> QED BY <1>2, <1>3, <1>4, ElementOfSeq

\* A listener that starts stands at the entry its feed starts with.
LEMMA StartFollows ==
  ASSUME IInv, NEW l \in Listeners, StartListener(l)
  PROVE  ListenInv' /\ GapFree'
<1>1. /\ oldest \in Entry \/ oldest = Nil
      /\ oldest # Stale
      /\ at[l] = "start" /\ got[l] = <<>> /\ Len(got[l]) = 0
  BY FrontEntry DEF StartListener, ListenerAt
<1>2. UNCHANGED <<entries, newest, log, got>>
  BY DEF StartListener
<1>3. /\ from'[l] = oldest
      /\ oldest = Nil => at'[l] = "start"
      /\ oldest # Nil => at'[l] = "wait" /\ cur'[l] = oldest
  BY <1>1 DEF StartListener, Visit, IInv, TypeOK
<1>4. \A k \in Listeners : k # l => at'[k] = at[k] /\ cur'[k] = cur[k] /\ from'[k] = from[k]
  BY DEF StartListener, Visit, IInv, TypeOK
<1>5. ListenInv'
  <2> SUFFICES ASSUME NEW k \in Listeners PROVE Follows(k)'
    BY DEF ListenInv
  <2>1. CASE k = l /\ oldest = Nil
    BY <1>1, <1>2, <1>3, <2>1 DEF Follows, Nil
  <2>2. CASE k = l /\ oldest # Nil
    <3>1. oldest \in Entry /\ oldest = oldest + 0 - 0
      BY <1>1, <2>2 DEF Entry, IInv, TypeOK
    <3>2. oldest \in Entry' /\ Len(got'[l]) = 0
      BY <1>1, <1>2, <3>1 DEF Entry
    <3>3. /\ at'[l] = "wait"
          /\ cur'[l] \in Entry' /\ from'[l] \in Entry'
          /\ cur'[l] = from'[l] + Len(got'[l]) - 0
      BY <1>3, <2>2, <3>1, <3>2
    <3> QED BY <2>2, <3>3 DEF Follows
  <2>3. CASE k # l
    BY <1>2, <1>4, <2>3 DEF IInv, ListenInv, Follows, Entry, entries
  <2> QED BY <2>1, <2>2, <2>3
<1>6. GapFree'
  BY <1>1, <1>2, <1>4 DEF IInv, GapFree
<1> QED BY <1>5, <1>6

\* p = e.next leads to the entry after the one just sent, or closes the channel.
LEMMA AdvanceFollows ==
  ASSUME IInv, NEW l \in Listeners, Advance(l)
  PROVE  ListenInv'
<1>1. at[l] = "advance" /\ UNCHANGED <<entries, newest, from, got>>
  BY DEF Advance, ListenerAt
<1>2. cur[l] \in Entry /\ next[cur[l]] \in {Stale, cur[l] + 1} /\ newest \in Nat
  BY <1>1, ReadEntry DEF IInv, TypeOK
<1>3. next[cur[l]] # Nil
  BY <1>2 DEF Nil, Stale, Entry
<1>4. /\ at'[l] = IF next[cur[l]] = Stale THEN "closed" ELSE "wait"
      /\ cur'[l] = next[cur[l]]
  BY <1>3 DEF Advance, Visit, IInv, TypeOK
<1>5. \A k \in Listeners : k # l => at'[k] = at[k] /\ cur'[k] = cur[k]
  BY <1>3 DEF Advance, Visit, IInv, TypeOK
<1>6. Follows(l)'
  <2>1. CASE next[cur[l]] = Stale
    BY <1>4, <2>1 DEF Follows
  <2>2. CASE next[cur[l]] # Stale
    <3>1. next[cur[l]] = cur[l] + 1 /\ cur[l] + 1 \in Entry
      BY <1>2, <1>3, <2>2 DEF IInv, TypeOK, Nil
    <3>2. cur[l] = from[l] + Len(got[l]) - 1 /\ from[l] \in Entry
      BY <1>1 DEF IInv, ListenInv, Follows
    <3>3. cur[l] + 1 = from[l] + Len(got[l]) - 0
      BY <1>2, <3>2, FrontEntry DEF Entry
    <3> QED BY <1>1, <1>4, <2>2, <3>1, <3>2, <3>3 DEF Follows, Entry, entries
  <2> QED BY <2>1, <2>2
<1> QED BY <1>1, <1>5, <1>6 DEF IInv, ListenInv, Follows, Entry, entries

-------------------------------------------------------------------------------
(* IInv is inductive.                                                        *)

\* The invariant is kept by every step: a call of Append,
LEMMA CallStep ==
  ASSUME IInv, NEW t \in Appenders, NEW m \in Msg, Call(t, m)
  PROVE  IInv'
<1> USE DEF IInv, Call, At, Goto, entries, appendLocal, listenLocal, Entry, Nil, Stale
<1>1. TypeOK'
  BY QueueAssumption DEF TypeOK, AppendPcs, ListenPcs, Panics
<1>2. OwnerInv'
  BY DEF OwnerInv, Owns, Filling, TypeOK
<1>3. ExclusiveInv'
  BY DEF ExclusiveInv, Filling, TypeOK
<1>4. EntryInv'
  BY DEF EntryInv, Linked, Trimmed, TypeOK
<1>5. TrimInv'
  BY DEF TrimInv, Behind, Trimmed, TypeOK
<1>6. ListenInv'
  BY DEF ListenInv, Follows, TypeOK
<1>7. GapFree'
  BY DEF GapFree, TypeOK
<1>8. PanicInv'
  BY DEF PanicInv, NoOrderPanic
<1> QED BY <1>1, <1>2, <1>3, <1>4, <1>5, <1>6, <1>7, <1>8

\* the load of q.newest,
LEMMA LoadNewestStep ==
  ASSUME IInv, NEW t \in Appenders, LoadNewest(t)
  PROVE  IInv'
<1> USE DEF IInv, LoadNewest, At, Goto, entries, appendLocal, listenLocal, Entry, Nil, Stale
<1>1. TypeOK'
  BY QueueAssumption DEF TypeOK, AppendPcs, ListenPcs, Panics
<1>2. OwnerInv'
  BY DEF OwnerInv, Owns, Filling, TypeOK
<1>3. ExclusiveInv'
  BY DEF ExclusiveInv, Filling, TypeOK
<1>4. EntryInv'
  BY DEF EntryInv, Linked, Trimmed, TypeOK
<1>5. TrimInv'
  BY DEF TrimInv, Behind, Trimmed, TypeOK
<1>6. ListenInv'
  BY DEF ListenInv, Follows, TypeOK
<1>7. GapFree'
  BY DEF GapFree, TypeOK
<1>8. PanicInv'
  BY DEF PanicInv, NoOrderPanic
<1> QED BY <1>1, <1>2, <1>3, <1>4, <1>5, <1>6, <1>7, <1>8

\* the swap, which publishes an entry or starts over,
LEMMA CasNewestStep ==
  ASSUME IInv, NEW t \in Appenders, CasNewest(t)
  PROVE  IInv'
<1> USE DEF IInv, At, Goto, Entry, Nil, Stale
<1>1. CASE newest # ent[t]
  <2> USE <1>1 DEF CasNewest, PublishEntry, entries, listenLocal
  <2>1. TypeOK'
    BY DEF TypeOK, AppendPcs
  <2>2. OwnerInv'
    BY DEF OwnerInv, Owns, Filling, TypeOK
  <2>3. ExclusiveInv'
    BY DEF ExclusiveInv, Filling, TypeOK
  <2>4. EntryInv'
    BY DEF EntryInv, Linked, Trimmed
  <2>5. TrimInv'
    BY DEF TrimInv, Behind, Trimmed, TypeOK
  <2>6. ListenInv'
    BY DEF ListenInv, Follows
  <2>7. GapFree' /\ PanicInv'
    BY DEF GapFree, PanicInv, NoOrderPanic
  <2> QED BY <2>1, <2>2, <2>3, <2>4, <2>5, <2>6, <2>7
<1>2. CASE newest = ent[t]
  <2>0. pc[t] = "swap" /\ PublishEntry(t)
    BY <1>2 DEF CasNewest
  <2>1. msg[t] \in Msg /\ newest \in Nat \ {0} /\ Len(log) = newest - 1
    BY <2>0 DEF OwnerInv, Owns, EntryInv, TypeOK
  <2>2. /\ log' \in Seq(Msg) /\ Len(log') = newest
        /\ log'[newest] = msg[t]
        /\ \A i \in 1..Len(log) : log'[i] = log[i]
    BY <2>0, <2>1, AppendProperties DEF PublishEntry, TypeOK
  <2>3. /\ newest' = newest + 1
        /\ next' \in [1..newest + 1 -> Entry \cup {Nil, Stale}]
        /\ body' \in [1..newest + 1 -> Msg \cup {NoMsg}]
        /\ valid' \in [1..newest + 1 -> {0, 1}]
    BY <2>0, <2>1 DEF PublishEntry, WithNewEntry, TypeOK
  <2>4. /\ next'[newest + 1] = Nil /\ valid'[newest + 1] = 1
        /\ \A i \in 1..newest :
             next'[i] = next[i] /\ body'[i] = body[i] /\ valid'[i] = valid[i]
    BY <2>0, <2>1 DEF PublishEntry, WithNewEntry
  <2>5. \A u \in Appenders :
          /\ u = t => pc'[u] = "link" /\ ptr'[u] = newest + 1
          /\ u # t => pc'[u] = pc[u] /\ ptr'[u] = ptr[u]
    BY <2>0 DEF PublishEntry, TypeOK
  <2>6. UNCHANGED <<oldest, size, msg, ent, at, cur, quit, from, got, panic, overrun>>
    BY <2>0 DEF PublishEntry, listenLocal
  <2>7. valid[newest] = 1
    BY <2>1 DEF EntryInv, Linked, TypeOK
  <2>8. TypeOK'
    <3>1. bytes' \in [1..newest + 1 -> Nat]
      <4>1. bytes[newest] + Overhead + Length[msg[t]] \in Nat
        BY <2>1, QueueAssumption DEF TypeOK
      <4> QED BY <2>0, <2>1, <4>1 DEF PublishEntry, WithNewEntry, TypeOK
    <3>2. pc' \in [Appenders -> AppendPcs]
      BY <2>0 DEF PublishEntry, TypeOK, AppendPcs
    <3>3. ptr' \in [Appenders -> 1..newest + 1 \cup {Nil, Stale}]
      BY <2>0, <2>1 DEF PublishEntry, TypeOK
    <3>4. Entry \subseteq 1..newest + 1
      BY <2>1
    <3> QED BY <2>1, <2>2, <2>3, <2>6, <3>1, <3>2, <3>3, <3>4 DEF TypeOK
  <2>9. OwnerInv'
    <3> SUFFICES ASSUME NEW u \in Appenders PROVE Owns(u)'
      BY DEF OwnerInv
    <3>1. Owns(u)
      BY DEF OwnerInv
    <3>2. CASE u = t
      <4>1. pc'[t] = "link" /\ ptr'[t] = newest + 1 /\ ent'[t] = newest /\ msg'[t] = msg[t]
        BY <1>2, <2>5, <2>6
      <4>2. newest > 0 /\ newest \in 1..newest' - 1 /\ ent'[t] \in 1..newest' - 1
        BY <2>1, <2>3, <4>1
      <4>3. valid'[newest] = 1 /\ log'[newest] = msg[t]
        BY <2>2, <2>4, <2>7, <4>2
      <4> QED BY <2>1, <3>2, <4>1, <4>2, <4>3 DEF Owns, Filling
    <3>3. CASE u # t
      BY <2>1, <2>2, <2>3, <2>4, <2>5, <2>6, <3>1, <3>3 DEF Owns, Filling
    <3> QED BY <3>2, <3>3
  <2>10. ExclusiveInv'
    <3>1. \A u \in Appenders : Filling(u) => ent[u] # newest
      BY <2>1 DEF OwnerInv, Owns
    <3> QED BY <1>2, <2>5, <2>6, <3>1 DEF ExclusiveInv, Filling
  <2>11. EntryInv'
    <3> SUFFICES ASSUME NEW i \in 1..newest + 1 PROVE Linked(i)'
      BY <2>1, <2>2, <2>3 DEF EntryInv
    <3>1. CASE i = newest + 1
      BY <2>4, <3>1 DEF Linked
    <3>2. CASE i \in 1..newest
      <4>1. Linked(i) /\ next'[i] = next[i] /\ body'[i] = body[i] /\ valid'[i] = valid[i]
        BY <2>4, <3>2 DEF EntryInv
      <4>2. i # newest => log'[i] = log[i]
        BY <2>1, <2>2, <3>2
      <4> QED BY <2>1, <2>3, <2>6, <2>7, <3>2, <4>1, <4>2 DEF Linked, Trimmed
    <3> QED BY <2>1, <3>1, <3>2
  <2>12. TrimInv'
    BY <2>0, <2>1, <2>3, <2>5, <2>6 DEF TrimInv, Behind, Trimmed
  <2>13. ListenInv'
    <3> SUFFICES ASSUME NEW l \in Listeners PROVE Follows(l)'
      BY DEF ListenInv
    <3>1. Follows(l)
      BY DEF ListenInv
    <3>2. at[l] \in {"wait", "select", "advance"} =>
            cur[l] \in 1..newest /\ valid'[cur[l]] = valid[cur[l]]
      BY <2>4, <3>1 DEF Follows
    <3>3. 1..newest \subseteq 1..newest'
      BY <2>1, <2>3
    <3>4. UNCHANGED <<at[l], cur[l], from[l], got[l]>>
      BY <2>6
    <3> QED BY <3>1, <3>2, <3>3, <3>4 DEF Follows
  <2>14. GapFree'
    BY <2>1, <2>2, <2>6 DEF GapFree
  <2>15. PanicInv'
    BY <2>6 DEF PanicInv, NoOrderPanic
  <2> QED BY <2>8, <2>9, <2>10, <2>11, <2>12, <2>13, <2>14, <2>15
<1> QED BY <1>1, <1>2

\* the link to the successor: only its owner writes it before it is stale,
LEMMA StoreNextStep ==
  ASSUME IInv, NEW t \in Appenders, StoreNext(t)
  PROVE  IInv'
<1> USE DEF IInv, StoreNext, At, Goto, entries, appendLocal, listenLocal, Entry, Nil, Stale
<1>1. TypeOK'
  BY QueueAssumption DEF TypeOK, AppendPcs, ListenPcs, Panics
<1>2. OwnerInv'
  BY DEF OwnerInv, Owns, Filling, TypeOK
<1>3. ExclusiveInv'
  BY DEF ExclusiveInv, Filling, TypeOK
<1>4. EntryInv'
  <2> SUFFICES ASSUME NEW i \in Entry PROVE Linked(i)'
    BY DEF EntryInv
  <2>1. Linked(i) /\ Owns(t)
    BY DEF EntryInv, OwnerInv
  <2>2. CASE i = ent[t]
    BY <2>1, <2>2 DEF Linked, Owns, Filling, Trimmed, TypeOK
  <2>3. CASE i # ent[t]
    BY <2>1, <2>3 DEF Linked, Trimmed, TypeOK
  <2> QED BY <2>2, <2>3
<1>5. TrimInv'
  BY DEF TrimInv, Behind, Trimmed, TypeOK
<1>6. ListenInv'
  BY DEF ListenInv, Follows, TypeOK
<1>7. GapFree'
  BY DEF GapFree, TypeOK
<1>8. PanicInv'
  BY DEF PanicInv, NoOrderPanic
<1> QED BY <1>1, <1>2, <1>3, <1>4, <1>5, <1>6, <1>7, <1>8

\* the message: only its owner writes it,
LEMMA StoreMsgStep ==
  ASSUME IInv, NEW t \in Appenders, StoreMsg(t)
  PROVE  IInv'
<1> USE DEF IInv, StoreMsg, At, Goto, entries, appendLocal, listenLocal, Entry, Nil, Stale
<1>1. TypeOK'
  BY QueueAssumption DEF TypeOK, AppendPcs, ListenPcs, Panics
<1>2. OwnerInv'
  <2> SUFFICES ASSUME NEW u \in Appenders PROVE Owns(u)'
    BY DEF OwnerInv
  <2>1. Owns(u) /\ Owns(t)
    BY DEF OwnerInv
  <2>2. CASE u = t
    BY <2>1, <2>2 DEF Owns, Filling, TypeOK
  <2>3. CASE u # t
    BY <2>1, <2>3 DEF Owns, Filling, TypeOK, ExclusiveInv
  <2> QED BY <2>2, <2>3
<1>3. ExclusiveInv'
  BY DEF ExclusiveInv, Filling, TypeOK
<1>4. EntryInv'
  <2> SUFFICES ASSUME NEW i \in Entry PROVE Linked(i)'
    BY DEF EntryInv
  <2>1. Linked(i) /\ Owns(t)
    BY DEF EntryInv, OwnerInv
  <2>2. CASE i = ent[t]
    BY <2>1, <2>2 DEF Linked, Owns, Filling, Trimmed, TypeOK
  <2>3. CASE i # ent[t]
    BY <2>1, <2>3 DEF Linked, Trimmed, TypeOK
  <2> QED BY <2>2, <2>3
<1>5. TrimInv'
  BY DEF TrimInv, Behind, Trimmed, TypeOK
<1>6. ListenInv'
  BY DEF ListenInv, Follows, TypeOK
<1>7. GapFree'
  BY DEF GapFree, TypeOK
<1>8. PanicInv'
  BY DEF PanicInv, NoOrderPanic
<1> QED BY <1>1, <1>2, <1>3, <1>4, <1>5, <1>6, <1>7, <1>8

\* the count going up,
LEMMA AddSizeStep ==
  ASSUME IInv, NEW t \in Appenders, AddSize(t)
  PROVE  IInv'
<1> USE DEF IInv, AddSize, At, Goto, entries, appendLocal, listenLocal, Entry, Nil, Stale
<1>1. TypeOK'
  <2>1. ent[t] \in Entry
    BY DEF OwnerInv, Owns, Filling, TypeOK
  <2>2. size' \in Int
    BY <2>1, SizeInt DEF TypeOK
  <2> QED BY <2>2 DEF TypeOK, AppendPcs
<1>2. OwnerInv'
  <2> SUFFICES ASSUME NEW u \in Appenders PROVE Owns(u)'
    BY DEF OwnerInv
  <2>1. Owns(u) /\ Owns(t)
    BY DEF OwnerInv
  <2>2. CASE u = t
    BY <2>1, <2>2 DEF Owns, Filling, TypeOK
  <2>3. CASE u # t
    BY <2>1, <2>3 DEF Owns, Filling, TypeOK, ExclusiveInv
  <2> QED BY <2>2, <2>3
<1>3. ExclusiveInv'
  BY DEF ExclusiveInv, Filling, TypeOK
<1>4. EntryInv'
  BY DEF EntryInv, Linked, Trimmed, TypeOK
<1>5. TrimInv'
  BY DEF TrimInv, Behind, Trimmed, TypeOK
<1>6. ListenInv'
  BY DEF ListenInv, Follows, TypeOK
<1>7. GapFree'
  BY DEF GapFree, TypeOK
<1>8. PanicInv'
  BY DEF PanicInv, NoOrderPanic
<1> QED BY <1>1, <1>2, <1>3, <1>4, <1>5, <1>6, <1>7, <1>8

\* the announcement, made once because no two appenders own one entry,
LEMMA DoneStep ==
  ASSUME IInv, NEW t \in Appenders, Done(t)
  PROVE  IInv'
<1> USE DEF IInv, Done, At, Goto, entries, appendLocal, listenLocal, Entry, Nil, Stale
<1>1. TypeOK'
  <2>1. Owns(t) /\ Filling(t)
    BY DEF OwnerInv, Filling
  <2>2. ent[t] \in Entry /\ valid[ent[t]] = 1
    BY <2>1, OwnedEntry
  <2>3. valid' \in [Entry -> {0, 1}]
    BY <2>2 DEF TypeOK
  <2>4. panic' \in Panics
    BY <2>2 DEF TypeOK, Panics
  <2> QED BY <2>3, <2>4 DEF TypeOK, AppendPcs
<1>2. OwnerInv'
  <2> SUFFICES ASSUME NEW u \in Appenders PROVE Owns(u)'
    BY DEF OwnerInv
  <2>1. Owns(u) /\ Owns(t)
    BY DEF OwnerInv
  <2>2. CASE u = t
    BY <2>2 DEF Owns, Filling, TypeOK
  <2>3. CASE u # t
    <3>1. pc'[u] = pc[u] /\ msg'[u] = msg[u] /\ ent'[u] = ent[u] /\ ptr'[u] = ptr[u]
      BY <2>3 DEF TypeOK
    <3>2. Filling(u) => ent[u] # ent[t]
      BY <2>3 DEF ExclusiveInv, Filling
    <3>3. Filling(u) => ent[u] \in Entry
      BY OwnedEntry
    <3>4. Filling(u) => valid'[ent[u]] = valid[ent[u]]
      BY <3>2, <3>3 DEF TypeOK
    <3> QED BY <2>1, <3>1, <3>4 DEF Owns, Filling
  <2> QED BY <2>2, <2>3
<1>3. ExclusiveInv'
  BY DEF ExclusiveInv, Filling, TypeOK
<1>4. EntryInv'
  <2> SUFFICES ASSUME NEW i \in Entry PROVE Linked(i)'
    BY DEF EntryInv
  <2>1. Linked(i) /\ Owns(t)
    BY DEF EntryInv, OwnerInv
  <2>2. CASE i = ent[t]
    BY <2>1, <2>2 DEF Linked, Owns, Filling, Trimmed, TypeOK
  <2>3. CASE i # ent[t]
    BY <2>1, <2>3 DEF Linked, Trimmed, TypeOK
  <2> QED BY <2>2, <2>3
<1>5. TrimInv'
  BY DEF TrimInv, Behind, Trimmed, TypeOK
<1>6. ListenInv'
  <2> SUFFICES ASSUME NEW l \in Listeners PROVE Follows(l)'
    BY DEF ListenInv
  <2>1. Follows(l) /\ Owns(t)
    BY DEF ListenInv, OwnerInv
  <2>2. valid[ent[t]] = 1
    BY <2>1 DEF Owns, Filling
  <2>3. at[l] \in {"select", "advance"} => cur[l] # ent[t] /\ cur[l] \in Entry
    BY <2>2, ReadEntry
  <2>4. at[l] \in {"select", "advance"} => valid'[cur[l]] = valid[cur[l]]
    BY <2>3 DEF TypeOK
  <2> QED BY <2>1, <2>4 DEF Follows
<1>7. GapFree'
  BY DEF GapFree, TypeOK
<1>8. PanicInv'
  <2>1. valid[ent[t]] = 1
    BY DEF OwnerInv, Owns, Filling
  <2> QED BY <2>1 DEF PanicInv, NoOrderPanic
<1> QED BY <1>1, <1>2, <1>3, <1>4, <1>5, <1>6, <1>7, <1>8

\* the test of trim's loop,
LEMMA CheckSizeStep ==
  ASSUME IInv, NEW t \in Appenders, CheckSize(t)
  PROVE  IInv'
<1> USE DEF IInv, CheckSize, At, Goto, entries, appendLocal, listenLocal, Entry, Nil, Stale
<1>1. TypeOK'
  BY QueueAssumption DEF TypeOK, AppendPcs, ListenPcs, Panics
<1>2. OwnerInv'
  BY DEF OwnerInv, Owns, Filling, TypeOK
<1>3. ExclusiveInv'
  BY DEF ExclusiveInv, Filling, TypeOK
<1>4. EntryInv'
  BY DEF EntryInv, Linked, Trimmed, TypeOK
<1>5. TrimInv'
  BY DEF TrimInv, Behind, Trimmed, TypeOK
<1>6. ListenInv'
  BY DEF ListenInv, Follows, TypeOK
<1>7. GapFree'
  BY DEF GapFree, TypeOK
<1>8. PanicInv'
  BY DEF PanicInv, NoOrderPanic
<1> QED BY <1>1, <1>2, <1>3, <1>4, <1>5, <1>6, <1>7, <1>8

\* the load of q.oldest,
LEMMA LoadOldestStep ==
  ASSUME IInv, NEW t \in Appenders, LoadOldest(t)
  PROVE  IInv'
<1> USE DEF IInv, LoadOldest, At, Goto, entries, appendLocal, listenLocal, Entry, Nil, Stale
<1>1. TypeOK'
  BY QueueAssumption DEF TypeOK, AppendPcs, ListenPcs, Panics
<1>2. OwnerInv'
  BY DEF OwnerInv, Owns, Filling, TypeOK
<1>3. ExclusiveInv'
  BY DEF ExclusiveInv, Filling, TypeOK
<1>4. EntryInv'
  BY DEF EntryInv, Linked, Trimmed, TypeOK
<1>5. TrimInv'
  <2> SUFFICES ASSUME NEW u \in Appenders PROVE Behind(u)'
    BY DEF TrimInv
  <2>1. Behind(u) /\ Behind(t)
    BY DEF TrimInv
  <2>2. CASE u = t
    BY <2>1, <2>2 DEF Behind, Trimmed, TypeOK, PanicInv
  <2>3. CASE u # t
    BY <2>1, <2>3 DEF Behind, Trimmed, TypeOK, PanicInv, ExclusiveInv
  <2> QED BY <2>2, <2>3
<1>6. ListenInv'
  BY DEF ListenInv, Follows, TypeOK
<1>7. GapFree'
  BY DEF GapFree, TypeOK
<1>8. PanicInv'
  BY DEF PanicInv, NoOrderPanic
<1> QED BY <1>1, <1>2, <1>3, <1>4, <1>5, <1>6, <1>7, <1>8

\* the load of the entry's next: it may be nil already, which the swap then notes,
LEMMA LoadNextStep ==
  ASSUME IInv, NEW t \in Appenders, LoadNext(t)
  PROVE  IInv'
<1> USE DEF IInv, LoadNext, At, Goto, entries, appendLocal, listenLocal, Entry, Nil, Stale
<1>1. TypeOK'
  BY QueueAssumption DEF TypeOK, AppendPcs, ListenPcs, Panics
<1>2. OwnerInv'
  <2> SUFFICES ASSUME NEW u \in Appenders PROVE Owns(u)'
    BY DEF OwnerInv
  <2>1. Owns(u) /\ Owns(t)
    BY DEF OwnerInv
  <2>2. CASE u = t
    BY <2>1, <2>2 DEF Owns, Filling, TypeOK
  <2>3. CASE u # t
    BY <2>1, <2>3 DEF Owns, Filling, TypeOK, ExclusiveInv
  <2> QED BY <2>2, <2>3
<1>3. ExclusiveInv'
  BY DEF ExclusiveInv, Filling, TypeOK
<1>4. EntryInv'
  BY DEF EntryInv, Linked, Trimmed, TypeOK
<1>5. TrimInv'
  <2> SUFFICES ASSUME NEW u \in Appenders PROVE Behind(u)'
    BY DEF TrimInv
  <2>1. Behind(u) /\ Behind(t)
    BY DEF TrimInv
  <2>2. CASE u = t
    BY <2>1, <2>2 DEF Behind, Trimmed, TypeOK, EntryInv, Linked
  <2>3. CASE u # t
    BY <2>1, <2>3 DEF Behind, Trimmed, TypeOK, EntryInv, Linked, ExclusiveInv
  <2> QED BY <2>2, <2>3
<1>6. ListenInv'
  BY DEF ListenInv, Follows, TypeOK
<1>7. GapFree'
  BY DEF GapFree, TypeOK
<1>8. PanicInv'
  <2>1. ent[t] = Nil => overrun
    BY DEF TrimInv, Behind
  <2> QED BY <2>1 DEF PanicInv, NoOrderPanic
<1> QED BY <1>1, <1>2, <1>3, <1>4, <1>5, <1>6, <1>7, <1>8

\* the swap of q.oldest: an entry that is still the oldest was not trimmed, so
\* what was read from it is no stale mark,
LEMMA CasOldestStep ==
  ASSUME IInv, NEW t \in Appenders, CasOldest(t)
  PROVE  IInv'
<1> USE DEF IInv, CasOldest, At, Goto, entries, appendLocal, listenLocal, Entry, Nil, Stale
<1>1. TypeOK'
  <2>1. Behind(t) /\ ent[t] \in Entry
    BY DEF TrimInv, Behind
  <2>2. oldest' \in Entry \cup {Nil}
    BY <2>1 DEF Behind, Trimmed, TypeOK
  <2>3. overrun' \in BOOLEAN
    BY DEF TypeOK
  <2>4. pc' \in [Appenders -> AppendPcs]
    BY DEF TypeOK, AppendPcs
  <2>5. ent' \in [Appenders -> Entry \cup {Nil}]
    BY DEF TypeOK
  <2>6. ptr' \in [Appenders -> Entry \cup {Nil, Stale}]
    BY DEF TypeOK
  <2> QED BY <2>2, <2>3, <2>4, <2>5, <2>6 DEF TypeOK
<1>2. OwnerInv'
  <2> SUFFICES ASSUME NEW u \in Appenders PROVE Owns(u)'
    BY DEF OwnerInv
  <2>1. Owns(u) /\ Owns(t)
    BY DEF OwnerInv
  <2>2. CASE u = t
    BY <2>1, <2>2 DEF Owns, Filling, TypeOK
  <2>3. CASE u # t
    BY <2>1, <2>3 DEF Owns, Filling, TypeOK, ExclusiveInv
  <2> QED BY <2>2, <2>3
<1>3. ExclusiveInv'
  BY DEF ExclusiveInv, Filling, TypeOK
<1>4. EntryInv'
  <2> SUFFICES ASSUME NEW i \in Entry PROVE Linked(i)'
    BY DEF EntryInv
  <2>1. Linked(i) /\ Behind(t) /\ ent[t] \in Entry
    BY DEF EntryInv, TrimInv, Behind
  <2>2. CASE oldest # ent[t]
    BY <2>1, <2>2 DEF Linked, Trimmed
  <2>3. CASE oldest = ent[t]
    <3>1. oldest \in Nat \ {0} /\ oldest' = ptr[t]
      BY <2>1, <2>3 DEF TypeOK
    <3>2. ptr[t] = Nil \/ ptr[t] = oldest + 1
      BY <2>1, <2>3, <3>1 DEF Behind, Trimmed
    <3>3. Trimmed(i) => Trimmed(i)'
      BY <3>1, <3>2 DEF Trimmed
    <3> QED BY <2>1, <3>3 DEF Linked
  <2> QED BY <2>2, <2>3
<1>5. TrimInv'
  <2> SUFFICES ASSUME NEW u \in Appenders PROVE Behind(u)'
    BY DEF TrimInv
  <2>1. Behind(u) /\ Behind(t)
    BY DEF TrimInv
  <2>2. CASE u = t
    BY <2>1, <2>2 DEF Behind, Trimmed, TypeOK, PanicInv
  <2>3. CASE u # t
    BY <2>1, <2>3 DEF Behind, Trimmed, TypeOK, PanicInv, ExclusiveInv
  <2> QED BY <2>2, <2>3
<1>6. ListenInv'
  BY DEF ListenInv, Follows, TypeOK
<1>7. GapFree'
  BY DEF GapFree, TypeOK
<1>8. PanicInv'
  BY DEF PanicInv, NoOrderPanic
<1> QED BY <1>1, <1>2, <1>3, <1>4, <1>5, <1>6, <1>7, <1>8

\* the count going down,
LEMMA SubSizeStep ==
  ASSUME IInv, NEW t \in Appenders, SubSize(t)
  PROVE  IInv'
<1> USE DEF IInv, SubSize, At, Goto, entries, appendLocal, listenLocal, Entry, Nil, Stale
<1>1. TypeOK'
  <2>1. ent[t] \in Entry
    BY DEF TrimInv, Behind
  <2>2. size' \in Int
    BY <2>1, SizeInt DEF TypeOK
  <2> QED BY <2>2 DEF TypeOK, AppendPcs
<1>2. OwnerInv'
  BY DEF OwnerInv, Owns, Filling, TypeOK
<1>3. ExclusiveInv'
  BY DEF ExclusiveInv, Filling, TypeOK
<1>4. EntryInv'
  BY DEF EntryInv, Linked, Trimmed, TypeOK
<1>5. TrimInv'
  BY DEF TrimInv, Behind, Trimmed, TypeOK
<1>6. ListenInv'
  BY DEF ListenInv, Follows, TypeOK
<1>7. GapFree'
  BY DEF GapFree, TypeOK
<1>8. PanicInv'
  BY DEF PanicInv, NoOrderPanic
<1> QED BY <1>1, <1>2, <1>3, <1>4, <1>5, <1>6, <1>7, <1>8

\* the stale mark, on a trimmed entry only,
LEMMA StoreStaleStep ==
  ASSUME IInv, NEW t \in Appenders, StoreStale(t)
  PROVE  IInv'
<1> USE DEF IInv, StoreStale, At, Goto, entries, appendLocal, listenLocal, Entry, Nil, Stale
<1>1. TypeOK'
  BY QueueAssumption DEF TypeOK, AppendPcs, ListenPcs, Panics
<1>2. OwnerInv'
  BY DEF OwnerInv, Owns, Filling, TypeOK
<1>3. ExclusiveInv'
  BY DEF ExclusiveInv, Filling, TypeOK
<1>4. EntryInv'
  <2> SUFFICES ASSUME NEW i \in Entry PROVE Linked(i)'
    BY DEF EntryInv
  <2>1. Linked(i) /\ Owns(t)
    BY DEF EntryInv, OwnerInv
  <2>2. CASE i = ent[t]
    BY <2>1, <2>2 DEF Linked, Owns, Filling, Trimmed, TypeOK, TrimInv, Behind
  <2>3. CASE i # ent[t]
    BY <2>1, <2>3 DEF Linked, Trimmed, TypeOK
  <2> QED BY <2>2, <2>3
<1>5. TrimInv'
  BY DEF TrimInv, Behind, Trimmed, TypeOK
<1>6. ListenInv'
  BY DEF ListenInv, Follows, TypeOK
<1>7. GapFree'
  BY DEF GapFree, TypeOK
<1>8. PanicInv'
  BY DEF PanicInv, NoOrderPanic
<1> QED BY <1>1, <1>2, <1>3, <1>4, <1>5, <1>6, <1>7, <1>8

\* a listener's start,
LEMMA StartListenerStep ==
  ASSUME IInv, NEW l \in Listeners, StartListener(l)
  PROVE  IInv'
<1> USE DEF IInv, StartListener, ListenerAt, Visit, entries, appendLocal, listenLocal, Entry, Nil, Stale
<1>1. TypeOK'
  <2>1. cur' \in [Listeners -> Entry \cup {Nil, Stale}]
    BY DEF TypeOK
  <2>2. at' \in [Listeners -> ListenPcs]
    BY DEF TypeOK, ListenPcs
  <2>3. panic' \in Panics
    BY DEF TypeOK, Panics
  <2>4. from' \in [Listeners -> Entry \cup {Nil}]
    BY DEF TypeOK
  <2> QED BY <2>1, <2>2, <2>3, <2>4 DEF TypeOK
<1>2. OwnerInv'
  BY DEF OwnerInv, Owns, Filling, TypeOK
<1>3. ExclusiveInv'
  BY DEF ExclusiveInv, Filling, TypeOK
<1>4. EntryInv'
  BY DEF EntryInv, Linked, Trimmed, TypeOK
<1>5. TrimInv'
  BY DEF TrimInv, Behind, Trimmed, TypeOK
<1>6. ListenInv'
  BY StartFollows
<1>7. GapFree'
  BY StartFollows
<1>8. PanicInv'
  BY DEF PanicInv, NoOrderPanic
<1> QED BY <1>1, <1>2, <1>3, <1>4, <1>5, <1>6, <1>7, <1>8

\* the end of its wait,
LEMMA WaitStep ==
  ASSUME IInv, NEW l \in Listeners, Wait(l)
  PROVE  IInv'
<1> USE DEF IInv, Wait, ListenerAt, entries, appendLocal, listenLocal, Entry, Nil, Stale
<1>1. TypeOK'
  BY QueueAssumption DEF TypeOK, AppendPcs, ListenPcs, Panics
<1>2. OwnerInv'
  BY DEF OwnerInv, Owns, Filling, TypeOK
<1>3. ExclusiveInv'
  BY DEF ExclusiveInv, Filling, TypeOK
<1>4. EntryInv'
  BY DEF EntryInv, Linked, Trimmed, TypeOK
<1>5. TrimInv'
  BY DEF TrimInv, Behind, Trimmed, TypeOK
<1>6. ListenInv'
  BY DEF ListenInv, Follows, TypeOK
<1>7. GapFree'
  BY DEF GapFree, TypeOK
<1>8. PanicInv'
  <2>1. body[cur[l]] # NoMsg
    BY WaitEntry, QueueAssumption
  <2> QED BY <2>1 DEF PanicInv, NoOrderPanic
<1> QED BY <1>1, <1>2, <1>3, <1>4, <1>5, <1>6, <1>7, <1>8

\* the message it sends, the next one of the order,
LEMMA SendStep ==
  ASSUME IInv, NEW l \in Listeners, Send(l)
  PROVE  IInv'
<1> USE DEF IInv, Send, ListenerAt, entries, appendLocal, listenLocal, Entry, Nil, Stale
<1>1. TypeOK'
  <2>1. cur[l] \in Entry /\ Linked(cur[l]) /\ valid[cur[l]] = 0
    BY DEF ListenInv, Follows, EntryInv
  <2>2. body[cur[l]] = log[cur[l]] /\ cur[l] \in 1..Len(log)
    BY <2>1 DEF Linked, EntryInv, TypeOK
  <2>3. body[cur[l]] \in Msg
    BY <2>2 DEF TypeOK
  <2>4. got' \in [Listeners -> Seq(Msg)]
    BY <2>3 DEF TypeOK
  <2> QED BY <2>4 DEF TypeOK, ListenPcs
<1>2. OwnerInv'
  BY DEF OwnerInv, Owns, Filling, TypeOK
<1>3. ExclusiveInv'
  BY DEF ExclusiveInv, Filling, TypeOK
<1>4. EntryInv'
  BY DEF EntryInv, Linked, Trimmed, TypeOK
<1>5. TrimInv'
  BY DEF TrimInv, Behind, Trimmed, TypeOK
<1>6. ListenInv'
  <2> SUFFICES ASSUME NEW k \in Listeners PROVE Follows(k)'
    BY DEF ListenInv
  <2>1. Follows(k) /\ Len(got[l]) \in Nat
    BY DEF ListenInv, TypeOK
  <2>2. got'[l] = Append(got[l], body[cur[l]])
    BY DEF TypeOK
  <2>3. body[cur[l]] \in Msg \cup {NoMsg} /\ got[l] \in Seq(Msg \cup {NoMsg})
    BY DEF ListenInv, Follows, TypeOK
  <2>4. Len(got'[l]) = Len(got[l]) + 1
    BY <2>2, <2>3, AppendProperties
  <2>5. CASE k = l
    BY <2>1, <2>4, <2>5 DEF Follows, TypeOK
  <2>6. CASE k # l
    BY <2>1, <2>6 DEF Follows, TypeOK
  <2> QED BY <2>5, <2>6
<1>7. GapFree'
  <2>1. cur[l] \in Entry /\ Linked(cur[l]) /\ valid[cur[l]] = 0
    BY DEF ListenInv, Follows, EntryInv
  <2>2. cur[l] \in 1..Len(log) /\ body[cur[l]] = log[cur[l]]
    BY <2>1 DEF Linked, EntryInv, TypeOK
  <2>3. cur[l] = from[l] + Len(got[l]) /\ from[l] \in Nat /\ Len(got[l]) \in Nat
    BY DEF ListenInv, Follows, TypeOK
  <2>4. got'[l] = Append(got[l], log[cur[l]]) /\ log[cur[l]] \in Msg /\ got[l] \in Seq(Msg)
    BY <2>2 DEF TypeOK
  <2>5. /\ Len(got'[l]) = Len(got[l]) + 1
        /\ \A k \in 1..Len(got[l]) : got'[l][k] = got[l][k]
        /\ got'[l][Len(got[l]) + 1] = log[cur[l]]
    BY <2>4, AppendProperties
  <2>6. \A k \in Listeners : k # l => got'[k] = got[k]
    BY DEF TypeOK
  <2>7. \A k \in 1..Len(got'[l]) : /\ from[l] + k - 1 \in 1..Len(log)
                                  /\ got'[l][k] = log[from[l] + k - 1]
    <3> TAKE k \in 1..Len(got'[l])
    <3>1. CASE k \in 1..Len(got[l])
      BY <2>5, <3>1 DEF GapFree
    <3>2. CASE k = Len(got[l]) + 1
      BY <2>2, <2>3, <2>5, <3>2
    <3> QED BY <2>3, <2>5, <3>1, <3>2
  <2> QED BY <2>6, <2>7 DEF GapFree
<1>8. PanicInv'
  BY DEF PanicInv, NoOrderPanic
<1> QED BY <1>1, <1>2, <1>3, <1>4, <1>5, <1>6, <1>7, <1>8

\* its way out on quit,
LEMMA QuitStep ==
  ASSUME IInv, NEW l \in Listeners, Quit(l)
  PROVE  IInv'
<1> USE DEF IInv, Quit, ListenerAt, entries, appendLocal, listenLocal, Entry, Nil, Stale
<1>1. TypeOK'
  BY QueueAssumption DEF TypeOK, AppendPcs, ListenPcs, Panics
<1>2. OwnerInv'
  BY DEF OwnerInv, Owns, Filling, TypeOK
<1>3. ExclusiveInv'
  BY DEF ExclusiveInv, Filling, TypeOK
<1>4. EntryInv'
  BY DEF EntryInv, Linked, Trimmed, TypeOK
<1>5. TrimInv'
  BY DEF TrimInv, Behind, Trimmed, TypeOK
<1>6. ListenInv'
  BY DEF ListenInv, Follows, TypeOK
<1>7. GapFree'
  BY DEF GapFree, TypeOK
<1>8. PanicInv'
  BY DEF PanicInv, NoOrderPanic
<1> QED BY <1>1, <1>2, <1>3, <1>4, <1>5, <1>6, <1>7, <1>8

\* its move to the successor,
LEMMA AdvanceStep ==
  ASSUME IInv, NEW l \in Listeners, Advance(l)
  PROVE  IInv'
<1> USE DEF IInv, Advance, ListenerAt, Visit, entries, appendLocal, listenLocal, Entry, Nil, Stale
<1>1. TypeOK'
  <2>1. next[cur[l]] \in Entry \cup {Nil, Stale}
    BY DEF ListenInv, Follows, TypeOK
  <2>2. cur' \in [Listeners -> Entry \cup {Nil, Stale}]
    BY <2>1 DEF TypeOK
  <2>3. at' \in [Listeners -> ListenPcs]
    BY DEF TypeOK, ListenPcs
  <2>4. panic' \in Panics
    BY DEF TypeOK, Panics
  <2> QED BY <2>2, <2>3, <2>4 DEF TypeOK
<1>2. OwnerInv'
  BY DEF OwnerInv, Owns, Filling, TypeOK
<1>3. ExclusiveInv'
  BY DEF ExclusiveInv, Filling, TypeOK
<1>4. EntryInv'
  BY DEF EntryInv, Linked, Trimmed, TypeOK
<1>5. TrimInv'
  BY DEF TrimInv, Behind, Trimmed, TypeOK
<1>6. ListenInv'
  BY AdvanceFollows
<1>7. GapFree'
  BY DEF GapFree, TypeOK
<1>8. PanicInv'
  <2>1. next[cur[l]] # Nil
    BY ReadEntry
  <2> QED BY <2>1 DEF PanicInv, NoOrderPanic
<1> QED BY <1>1, <1>2, <1>3, <1>4, <1>5, <1>6, <1>7, <1>8

\* the close of its quit channel,
LEMMA CloseQuitStep ==
  ASSUME IInv, NEW l \in Listeners, CloseQuit(l)
  PROVE  IInv'
<1> USE DEF IInv, CloseQuit, ListenerAt, entries, appendLocal, listenLocal, Entry, Nil, Stale
<1>1. TypeOK'
  BY QueueAssumption DEF TypeOK, AppendPcs, ListenPcs, Panics
<1>2. OwnerInv'
  BY DEF OwnerInv, Owns, Filling, TypeOK
<1>3. ExclusiveInv'
  BY DEF ExclusiveInv, Filling, TypeOK
<1>4. EntryInv'
  BY DEF EntryInv, Linked, Trimmed, TypeOK
<1>5. TrimInv'
  BY DEF TrimInv, Behind, Trimmed, TypeOK
<1>6. ListenInv'
  BY DEF ListenInv, Follows, TypeOK
<1>7. GapFree'
  BY DEF GapFree, TypeOK
<1>8. PanicInv'
  BY DEF PanicInv, NoOrderPanic
<1> QED BY <1>1, <1>2, <1>3, <1>4, <1>5, <1>6, <1>7, <1>8

\* and a step of somebody else.
LEMMA StutterStep ==
  ASSUME IInv, UNCHANGED vars
  PROVE  IInv'
<1> USE DEF IInv, vars, entries, appendLocal, listenLocal, Entry
<1>1. TypeOK'
  BY DEF TypeOK
<1>2. OwnerInv' /\ ExclusiveInv'
  BY DEF OwnerInv, ExclusiveInv, Owns, Filling
<1>3. EntryInv' /\ TrimInv'
  BY DEF EntryInv, Linked, TrimInv, Behind, Trimmed
<1>4. ListenInv' /\ GapFree' /\ PanicInv'
  BY DEF ListenInv, Follows, GapFree, PanicInv, NoOrderPanic
<1> QED BY <1>1, <1>2, <1>3, <1>4

\* newQueue makes the invariant true.
LEMMA InitInv == Init => IInv
<1> SUFFICES ASSUME Init PROVE IInv
  OBVIOUS
<1> USE DEF Init, Nil, Entry
<1>1. <<>> \in Seq(Msg) /\ Len(<<>>) = 0
  BY EmptySeq
<1>2. TypeOK
  <2>1. newest = 1 /\ 1 \in Nat \ {0} /\ 1 \in 1..1
    OBVIOUS
  <2>2. /\ next \in [1..1 -> 1..1 \cup {0, Stale}]
        /\ body \in [1..1 -> Msg \cup {NoMsg}]
        /\ valid \in [1..1 -> {0, 1}] /\ bytes \in [1..1 -> Nat]
    OBVIOUS
  <2>3. /\ pc \in [Appenders -> AppendPcs]
        /\ msg \in [Appenders -> Msg \cup {NoMsg}]
        /\ ent \in [Appenders -> 1..1 \cup {0}]
        /\ ptr \in [Appenders -> 1..1 \cup {0, Stale}]
    BY DEF AppendPcs
  <2>4. /\ at \in [Listeners -> ListenPcs]
        /\ cur \in [Listeners -> 1..1 \cup {0, Stale}]
        /\ quit \in [Listeners -> BOOLEAN]
        /\ from \in [Listeners -> 1..1 \cup {0}]
        /\ got \in [Listeners -> Seq(Msg)]
    BY <1>1 DEF ListenPcs
  <2>5. oldest \in 1..1 /\ size \in Int /\ log \in Seq(Msg)
    BY <1>1
  <2>6. panic \in Panics /\ overrun \in BOOLEAN
    BY Zenon DEF Panics
  <2> QED BY <2>1, <2>2, <2>3, <2>4, <2>5, <2>6 DEF TypeOK
<1>3. OwnerInv /\ ExclusiveInv
  BY DEF OwnerInv, ExclusiveInv, Owns, Filling
<1>4. EntryInv
  <2>1. Len(log) = newest - 1 /\ \A i \in Entry : i = 1
    BY <1>1
  <2>2. next[1] = 0 /\ valid[1] = 1
    OBVIOUS
  <2>3. Linked(1)
    BY <2>2 DEF Linked, Stale
  <2> QED BY <2>1, <2>3 DEF EntryInv
<1>5. TrimInv
  BY DEF TrimInv, Behind
<1>6. ListenInv
  BY DEF ListenInv, Follows
<1>7. GapFree
  BY <1>1 DEF GapFree
<1>8. PanicInv
  BY DEF PanicInv, NoOrderPanic
<1> QED BY <1>2, <1>3, <1>4, <1>5, <1>6, <1>7, <1>8 DEF IInv

\* Every step keeps the invariant.
LEMMA NextInv == IInv /\ [Next]_vars => IInv'
<1> SUFFICES ASSUME IInv, [Next]_vars PROVE IInv'
  OBVIOUS
<1>1. CASE UNCHANGED vars
  BY <1>1, StutterStep
<1>2. ASSUME NEW t \in Appenders, NEW m \in Msg, Call(t, m) PROVE IInv'
  BY <1>2, CallStep
<1>3. ASSUME NEW t \in Appenders, Appending(t) PROVE IInv'
  BY <1>3, LoadNewestStep, CasNewestStep, StoreNextStep, StoreMsgStep,
     AddSizeStep, DoneStep DEF Appending
<1>4. ASSUME NEW t \in Appenders, Trimming(t) PROVE IInv'
  BY <1>4, CheckSizeStep, LoadOldestStep, LoadNextStep, CasOldestStep,
     SubSizeStep, StoreStaleStep DEF Trimming
<1>5. ASSUME NEW l \in Listeners, Listening(l) PROVE IInv'
  BY <1>5, StartListenerStep, WaitStep, SendStep, QuitStep, AdvanceStep
     DEF Listening
<1>6. ASSUME NEW l \in Listeners, CloseQuit(l) PROVE IInv'
  BY <1>6, CloseQuitStep
<1> QED BY <1>1, <1>2, <1>3, <1>4, <1>5, <1>6 DEF Next

-------------------------------------------------------------------------------
(* What follows.                                                             *)

\* The inductive invariant holds in every reachable state, for any number of
\* appenders, listeners and messages, any message length and any limit.
THEOREM Inductive == Spec => []IInv
BY InitInv, NextInv, PTL DEF Spec

\* Every variable keeps its type: entries are never lost or numbered with holes.
THEOREM TypeCorrect == Spec => []TypeOK
<1>1. IInv => TypeOK
  BY DEF IInv
<1> QED BY <1>1, Inductive, PTL

\* What a listener sent is always a run of the room's messages, in their order,
\* without a gap or a repetition (listener's walk along e.next).
THEOREM FeedsHaveNoGaps == Spec => []GapFree
<1>1. IInv => GapFree
  BY DEF IInv
<1> QED BY <1>1, Inductive, PTL

\* listener's "nil message in queue" and a second Done never happen.
THEOREM AnnouncedOnceAndFilled == Spec => []NoOrderPanic
<1>1. IInv => NoOrderPanic
  BY DEF IInv, PanicInv
<1> QED BY <1>1, Inductive, PTL

\* The process dies in the queue only after trim overran an unfinished entry.
THEOREM OnlyOverrunsKill == Spec => []OnlyOverrunPanics
<1>1. IInv => OnlyOverrunPanics
  BY DEF IInv, PanicInv, OnlyOverrunPanics
<1> QED BY <1>1, Inductive, PTL

\* One step moves q.oldest to its successor, or not at all, or overruns.
LEMMA FrontStep ==
  ASSUME IInv, [Next]_vars
  PROVE  oldest' \in {oldest, oldest + 1} \/ overrun'
<1>1. ASSUME NEW t \in Appenders, CasOldest(t)
      PROVE  oldest' \in {oldest, oldest + 1} \/ overrun'
  <2>1. Behind(t)
    BY DEF IInv, TrimInv
  <2>2. CASE oldest # ent[t]
    BY <1>1, <2>2 DEF CasOldest
  <2>3. CASE oldest = ent[t]
    <3>1. /\ pc[t] = "drop" /\ oldest' = ptr[t]
          /\ overrun' = (overrun \/ ptr[t] = Nil \/ valid[ent[t]] # 0)
      BY <1>1, <2>3 DEF CasOldest, At
    <3>2. ent[t] \in Entry /\ newest \in Nat /\ ptr[t] \in {Nil, Stale, ent[t] + 1}
      BY <2>1, <3>1 DEF Behind, IInv, TypeOK
    <3>3. ptr[t] # Stale
      BY <2>1, <2>3, <3>1, <3>2 DEF Behind, Trimmed, Entry, Nil, Stale
    <3> QED BY <2>3, <3>1, <3>2, <3>3
  <2> QED BY <2>2, <2>3
<1>2. ASSUME NEW t \in Appenders, Appending(t) PROVE oldest' = oldest
  BY <1>2 DEF Appending, LoadNewest, CasNewest, PublishEntry, StoreNext,
     StoreMsg, AddSize, Done
<1>3. ASSUME NEW t \in Appenders, Trimming(t), ~CasOldest(t)
      PROVE  oldest' = oldest
  BY <1>3 DEF Trimming, CheckSize, LoadOldest, LoadNext, SubSize, StoreStale
<1>4. ASSUME NEW l \in Listeners, Listening(l) \/ CloseQuit(l)
      PROVE  oldest' = oldest
  BY <1>4 DEF Listening, StartListener, Wait, Send, Quit, Advance, CloseQuit
<1> QED BY <1>1, <1>2, <1>3, <1>4 DEF Next, Call, vars

\* Entries are trimmed one by one in the order of the list, except in an overrun.
THEOREM TrimsAreInOrder == Spec => TrimsInOrder
<1>1. IInv /\ [Next]_vars => [oldest' \in {oldest, oldest + 1} \/ overrun']_vars
  BY FrontStep
<1> QED BY <1>1, Inductive, PTL DEF Spec, TrimsInOrder

\* A new queue is a BroadcastLog nobody has written to or listens to.
LEMMA FeedInit == Init => Feed!AbsInit
BY DEF Init, Feed!AbsInit, FeedState

\* Each step of the queue is a step of BroadcastLog or none: the swap publishes,
\* the first load of q.oldest opens a feed, c <- e.msg hands a message over, and
\* the stale mark or quit cuts the feed.
LEMMA FeedStep ==
  ASSUME IInv, [Next]_vars
  PROVE  [Feed!AbsNext]_(Feed!absVars)
<1> USE DEF Feed!absVars
<1>1. ASSUME NEW t \in Appenders, PublishEntry(t), At(t, "swap")
      PROVE  Feed!AbsNext
  <2>1. msg[t] \in Msg
    BY <1>1 DEF At, IInv, OwnerInv, Owns
  <2>2. Feed!Publish(msg[t])
    BY <1>1 DEF PublishEntry, listenLocal, Feed!Publish, FeedState
  <2> QED BY <2>1, <2>2 DEF Feed!AbsNext
<1>2. ASSUME UNCHANGED <<log, listenLocal>> PROVE UNCHANGED Feed!absVars
  BY <1>2 DEF listenLocal, FeedState
<1>3. ASSUME NEW l \in Listeners, StartListener(l)
      PROVE  [Feed!AbsNext]_(Feed!absVars)
  <2>1. /\ at[l] = "start" /\ from[l] = 0 /\ newest \in Nat /\ Len(log) = newest - 1
        /\ from \in [Listeners -> Entry \cup {Nil}] /\ at \in [Listeners -> ListenPcs]
    BY <1>3 DEF StartListener, ListenerAt, IInv, ListenInv, Follows, EntryInv, TypeOK
  <2>2. UNCHANGED <<log, got>> /\ from' = [from EXCEPT ![l] = oldest]
    BY <1>3 DEF StartListener
  <2>3. CASE oldest = Nil
    <3>1. at' = at
      BY <1>3, <2>3 DEF StartListener, Visit
    <3>2. from' = from
      BY <2>1, <2>2, <2>3 DEF Nil
    <3> QED BY <2>2, <3>1, <3>2 DEF FeedState
  <2>4. CASE oldest # Nil
    <3>1. oldest \in 1..Len(log) + 1
      BY <2>1, <2>4, FrontEntry DEF Entry
    <3>2. at' = [at EXCEPT ![l] = "wait"]
      BY <1>3, <2>4, FrontEntry DEF StartListener, Visit
    <3>3. FeedState' = [FeedState EXCEPT ![l] = "open"]
      BY <2>1, <3>2 DEF FeedState
    <3>4. FeedState[l] = "new"
      BY <2>1 DEF FeedState
    <3> QED BY <2>2, <3>1, <3>3, <3>4 DEF Feed!Open, Feed!AbsNext
  <2> QED BY <2>3, <2>4
<1>4. ASSUME NEW l \in Listeners, Wait(l) PROVE UNCHANGED Feed!absVars
  <2>1. at[l] = "wait" /\ at' = [at EXCEPT ![l] = "select"] /\ UNCHANGED <<log, from, got>>
    BY <1>4 DEF Wait, ListenerAt
  <2> QED BY <2>1 DEF FeedState, IInv, TypeOK
<1>5. ASSUME NEW l \in Listeners, Send(l) PROVE Feed!AbsNext
  <2>1. /\ at[l] = "select" /\ at' = [at EXCEPT ![l] = "advance"]
        /\ got' = [got EXCEPT ![l] = Append(@, body[cur[l]])]
        /\ UNCHANGED <<log, from>>
    BY <1>5 DEF Send, ListenerAt
  <2>2. cur[l] \in 1..Len(log) /\ body[cur[l]] = log[cur[l]]
    BY <2>1, ReadEntry
  <2>3. cur[l] = from[l] + Len(got[l])
    <3>1. cur[l] = from[l] + Len(got[l]) - 0 /\ from[l] \in Entry
      BY <2>1 DEF IInv, ListenInv, Follows
    <3> QED BY <3>1, FrontEntry DEF Entry
  <2>4. FeedState' = FeedState /\ FeedState[l] = "open"
    BY <2>1 DEF FeedState, IInv, TypeOK
  <2> QED BY <2>1, <2>2, <2>3, <2>4 DEF Feed!Hand, Feed!AbsNext
<1>6. ASSUME NEW l \in Listeners, Quit(l) PROVE Feed!AbsNext
  <2>1. at[l] = "select" /\ at' = [at EXCEPT ![l] = "quit"] /\ UNCHANGED <<log, from, got>>
    BY <1>6 DEF Quit, ListenerAt
  <2>2. FeedState[l] = "open" /\ FeedState' = [FeedState EXCEPT ![l] = "cut"]
    BY <2>1 DEF FeedState, IInv, TypeOK
  <2> QED BY <2>1, <2>2 DEF Feed!Cut, Feed!AbsNext
<1>7. ASSUME NEW l \in Listeners, Advance(l)
      PROVE  [Feed!AbsNext]_(Feed!absVars)
  <2>1. at[l] = "advance" /\ UNCHANGED <<log, from, got>>
    BY <1>7 DEF Advance, ListenerAt
  <2>2. next[cur[l]] # Nil
    BY <2>1, ReadEntry
  <2>3. at' = [at EXCEPT ![l] = IF next[cur[l]] = Stale THEN "closed" ELSE "wait"]
    BY <1>7, <2>2 DEF Advance, Visit
  <2>4. CASE next[cur[l]] = Stale
    <3>1. FeedState[l] = "open" /\ FeedState' = [FeedState EXCEPT ![l] = "cut"]
      BY <2>1, <2>3, <2>4 DEF FeedState, IInv, TypeOK
    <3> QED BY <2>1, <3>1 DEF Feed!Cut, Feed!AbsNext
  <2>5. CASE next[cur[l]] # Stale
    <3>1. FeedState' = FeedState
      BY <2>1, <2>3, <2>5 DEF FeedState, IInv, TypeOK
    <3> QED BY <2>1, <3>1
  <2> QED BY <2>4, <2>5
<1>8. ASSUME NEW l \in Listeners, CloseQuit(l) PROVE UNCHANGED Feed!absVars
  BY <1>8 DEF CloseQuit, FeedState
<1>9. ASSUME NEW t \in Appenders, Appending(t)
      PROVE  [Feed!AbsNext]_(Feed!absVars)
  <2>1. CASE CasNewest(t) /\ PublishEntry(t)
    BY <1>1, <2>1 DEF CasNewest
  <2>2. CASE ~(CasNewest(t) /\ PublishEntry(t))
    <3>1. UNCHANGED <<log, listenLocal>>
      BY <1>9, <2>2 DEF Appending, LoadNewest, CasNewest, StoreNext, StoreMsg,
         AddSize, Done
    <3> QED BY <1>2, <3>1
  <2> QED BY <2>1, <2>2
<1>10. ASSUME NEW t \in Appenders, Trimming(t) PROVE UNCHANGED Feed!absVars
  <2>1. UNCHANGED <<log, listenLocal>>
    BY <1>10 DEF Trimming, CheckSize, LoadOldest, LoadNext, CasOldest, SubSize,
       StoreStale
  <2> QED BY <1>2, <2>1
<1>11. ASSUME NEW t \in Appenders, NEW m \in Msg, Call(t, m)
       PROVE  UNCHANGED Feed!absVars
  BY <1>2, <1>11 DEF Call
<1>12. CASE UNCHANGED vars
  BY <1>2, <1>12 DEF vars, listenLocal
<1> QED BY <1>3, <1>4, <1>5, <1>6, <1>7, <1>8, <1>9, <1>10, <1>11, <1>12
        DEF Next, Listening

\* messagequeue.go implements BroadcastLog: whatever the interleaving, listeners see
\* one order of messages, each from some point of it on and without a gap.
THEOREM QueueImplementsFeed == Spec => ImplementsFeed
<1>1. IInv /\ [Next]_vars => [Feed!AbsNext]_(Feed!absVars)
  BY FeedStep
<1> QED BY <1>1, FeedInit, Inductive, PTL DEF Spec, ImplementsFeed, Feed!AbsSpec

================================================================================
