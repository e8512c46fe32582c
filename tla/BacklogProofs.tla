----------------------------- MODULE BacklogProofs -----------------------------
(***************************************************************************)
(* What trimming leaves and what is counted, for any number of appenders   *)
(* that race each other, any messages and any limit; and what an Append    *)
(* that is alone finds.                                                    *)
(*                                                                         *)
(* The argument: on top of IInv of the queue (MessageQueueProofs) there is *)
(* one inductive invariant for each question.  TidyInv follows a trimmed   *)
(* entry until it is stale, LimitInv the appenders that will still look at *)
(* the byte count, AccountInv the bytes that are not where they are        *)
(* counted.  A sum over appenders is a cardinality here: every byte on its *)
(* way is an element of a set, marked with its appender, and a step of     *)
(* that one puts all of its bytes into the set or takes all of them out.   *)
(* AloneInv has no sums: a single appender has one entry on its way.       *)
(***************************************************************************)
EXTENDS SoloQueue, MessageQueueProofs, FiniteSetTheorems

-------------------------------------------------------------------------------
(* Trimmed entries.                                                          *)

\* As long as nothing was overrun there is a front, and it is in the list.
LEMMA FrontInList ==
  ASSUME IInv, ~overrun
  PROVE  oldest \in Entry /\ newest \in Nat \ {0}
BY DEF IInv, TypeOK, PanicInv

\* Steps that write none of the fields concerned and let no trimmer go.
LEMMA TidyQuiet ==
  ASSUME TidyInv, UNCHANGED <<next, valid, oldest, overrun>>,
         \A u \in Appenders : pc[u] \in {"sub", "stale"} =>
           pc'[u] \in {"sub", "stale"} /\ ent'[u] = ent[u]
  PROVE  TidyInv'
BY DEF TidyInv, Tidy

LEMMA TidyKept ==
  ASSUME IInv, TidyInv, [Next]_vars
  PROVE  TidyInv'
<1> USE DEF entries, appendLocal, At, Goto
<1>0. pc \in [Appenders -> AppendPcs] /\ ent \in [Appenders -> Entry \cup {Nil}]
      /\ oldest \in Entry \cup {Nil} /\ newest \in Nat \ {0}
      /\ next \in [Entry -> Entry \cup {Nil, Stale}] /\ valid \in [Entry -> {0, 1}]
  BY DEF IInv, TypeOK
<1>1. ASSUME NEW t \in Appenders, CasNewest(t)
      PROVE  TidyInv'
  <2>1. CASE newest # ent[t]
    BY <1>0, <1>1, <2>1, TidyQuiet DEF CasNewest, PublishEntry
  <2>2. CASE newest = ent[t]
    <3>1. /\ \A i \in 1..newest : next'[i] = next[i] /\ valid'[i] = valid[i]
          /\ UNCHANGED <<oldest, overrun, ent>>
      BY <1>0, <1>1, <2>2 DEF CasNewest, PublishEntry, WithNewEntry
    <3>2. \A u \in Appenders : pc[u] \in {"sub", "stale"} => pc'[u] = pc[u]
      BY <1>0, <1>1, <2>2 DEF CasNewest, PublishEntry
    <3> QED BY <1>0, <3>1, <3>2, FrontInList DEF TidyInv, Tidy, Entry
  <2> QED BY <2>1, <2>2
<1>2. ASSUME NEW t \in Appenders, StoreNext(t)
      PROVE  TidyInv'
  <2>1. ent[t] \in Entry /\ valid[ent[t]] = 1
    BY <1>2, OwnedEntry DEF StoreNext, Filling
  <2>2. \A i \in Entry : i # ent[t] => next'[i] = next[i]
    BY <1>0, <1>2 DEF StoreNext
  <2>3. UNCHANGED <<valid, oldest, overrun, ent>>
    BY <1>2 DEF StoreNext
  <2>4. \A u \in Appenders : pc[u] \in {"sub", "stale"} => pc'[u] = pc[u]
    BY <1>0, <1>2 DEF StoreNext
  <2> QED BY <1>0, <2>1, <2>2, <2>3, <2>4, FrontInList DEF TidyInv, Tidy, Entry
<1>3. ASSUME NEW t \in Appenders, Done(t)
      PROVE  TidyInv'
  <2>1. ent[t] \in Entry /\ valid[ent[t]] = 1
    BY <1>3, OwnedEntry DEF Done, Filling
  <2>2. \A i \in Entry : valid'[i] = IF i = ent[t] THEN 0 ELSE valid[i]
    BY <1>0, <1>3, <2>1 DEF Done
  <2>3. UNCHANGED <<next, oldest, overrun>>
    BY <1>3 DEF Done
  <2>4. \A u \in Appenders : pc[u] \in {"sub", "stale"} => pc'[u] = pc[u] /\ ent'[u] = ent[u]
    BY <1>0, <1>3 DEF Done
  <2> QED BY <1>0, <2>1, <2>2, <2>3, <2>4, FrontInList DEF TidyInv, Tidy, Entry
<1>4. ASSUME NEW t \in Appenders, CasOldest(t)
      PROVE  TidyInv'
  <2>1. CASE oldest # ent[t]
    BY <1>0, <1>4, <2>1, TidyQuiet DEF CasOldest
  <2>2. CASE oldest = ent[t] /\ ~overrun'
    <3>1. ~overrun /\ ptr[t] # Nil /\ valid[oldest] = 0 /\ oldest' = ptr[t] /\ pc[t] = "drop"
      BY <1>4, <2>2 DEF CasOldest
    <3>2. oldest' = oldest + 1
      BY <1>0, <1>4, <2>2, <3>1, FrontStep, FrontInList DEF IInv, TrimInv, Behind, Trimmed, Nil, Entry
    <3>3. pc'[t] = "sub" /\ UNCHANGED <<next, valid, ent>>
      BY <1>0, <1>4, <2>2 DEF CasOldest
    <3>4. \A u \in Appenders : pc[u] \in {"sub", "stale"} => pc'[u] = pc[u]
      BY <1>0, <1>4, <2>2 DEF CasOldest
    <3>5. ASSUME NEW i \in 1..oldest
          PROVE  Tidy(i)'
      <4>1. CASE i = oldest
        BY <2>2, <3>1, <3>3, <4>1 DEF Tidy
      <4>2. CASE i # oldest
        <5>1. i \in 1..oldest - 1
          BY <1>0, <4>2 DEF Entry, Nil
        <5> QED BY <3>1, <3>3, <3>4, <5>1 DEF TidyInv, Tidy
      <4> QED BY <4>1, <4>2
    <3>6. oldest' - 1 = oldest
      BY <3>1, <3>2, FrontInList DEF Entry
    <3> QED BY <3>5, <3>6 DEF TidyInv
  <2>3. CASE overrun'
    BY <2>3 DEF TidyInv
  <2> QED BY <2>1, <2>2, <2>3
<1>5. ASSUME NEW t \in Appenders, StoreStale(t)
      PROVE  TidyInv'
  <2>1. ent[t] \in Entry
    BY <1>5 DEF IInv, TrimInv, Behind, StoreStale
  <2>2. \A i \in Entry : next'[i] = IF i = ent[t] THEN Stale ELSE next[i]
    BY <1>0, <1>5, <2>1 DEF StoreStale
  <2>3. UNCHANGED <<valid, oldest, overrun>>
    BY <1>5 DEF StoreStale
  <2>4. \A u \in Appenders : u # t => pc'[u] = pc[u] /\ ent'[u] = ent[u]
    BY <1>0, <1>5 DEF StoreStale
  <2>5. ASSUME ~overrun, NEW i \in 1..oldest - 1
        PROVE  Tidy(i)'
    <3>1. i \in Entry /\ Tidy(i)
      BY <1>0, <2>5, FrontInList DEF TidyInv, Entry
    <3>2. CASE i = ent[t]
      BY <2>2, <2>3, <3>1, <3>2 DEF Tidy
    <3>3. CASE i # ent[t]
      BY <2>2, <2>3, <2>4, <3>1, <3>3 DEF Tidy
    <3> QED BY <3>2, <3>3
  <2> QED BY <2>3, <2>5 DEF TidyInv
<1>6. ASSUME NEW t \in Appenders,
             \/ LoadNewest(t) \/ StoreMsg(t) \/ AddSize(t)
             \/ CheckSize(t) \/ LoadOldest(t) \/ LoadNext(t) \/ SubSize(t)
             \/ \E m \in Msg : Call(t, m)
      PROVE  TidyInv'
  <2>1. UNCHANGED <<next, valid, oldest, overrun>>
    BY <1>6 DEF LoadNewest, StoreMsg, AddSize, CheckSize, LoadOldest, LoadNext, SubSize, Call
  <2>2. \A u \in Appenders : pc[u] \in {"sub", "stale"} =>
           pc'[u] \in {"sub", "stale"} /\ ent'[u] = ent[u]
    BY <1>0, <1>6 DEF LoadNewest, StoreMsg, AddSize, CheckSize, LoadOldest, LoadNext, SubSize, Call
  <2> QED BY <2>1, <2>2, TidyQuiet
<1>7. ASSUME NEW l \in Listeners, Listening(l) \/ CloseQuit(l)
      PROVE  TidyInv'
  <2>1. UNCHANGED <<next, valid, oldest, overrun, pc, ent>>
    BY <1>7 DEF Listening, StartListener, Wait, Send, Quit, Advance, CloseQuit
  <2> QED BY <2>1, TidyQuiet
<1>8. CASE UNCHANGED vars
  BY <1>8, TidyQuiet DEF vars
<1> QED BY <1>1, <1>2, <1>3, <1>4, <1>5, <1>6, <1>7, <1>8 DEF Next, Appending, Trimming

\* Once no Append runs, trim has marked every entry that it took off the list, so
\* that a slow listener's entry keeps no chain of others alive.
THEOREM TrimmedIsMarked == Spec => []Reclaimed
<1>1. Init => TidyInv
  BY DEF Init, TidyInv
<1>2. IInv /\ TidyInv /\ [Next]_vars => TidyInv'
  BY TidyKept
<1>3. TidyInv => Reclaimed
  BY DEF TidyInv, Tidy, Reclaimed
<1> QED BY <1>1, <1>2, <1>3, Inductive, PTL DEF Spec

-------------------------------------------------------------------------------
(* The limit.                                                                *)

\* Whoever loses the swap of q.oldest may return ("Let him do the rest"): the winner
\* is still in trim.
LEMMA LimitKept ==
  ASSUME IInv, LimitInv, [Next]_vars
  PROVE  LimitInv'
<1> USE DEF entries, appendLocal, At, Goto
<1>0. pc \in [Appenders -> AppendPcs] /\ ent \in [Appenders -> Entry \cup {Nil}]
      /\ size \in Int /\ MaxSize \in Int
  BY QueueAssumption DEF IInv, TypeOK
<1>1. ASSUME NEW t \in Appenders, Appending(t) \/ \E m \in Msg : Call(t, m), ~AddSize(t)
      PROVE  LimitInv'
  <2>1. UNCHANGED <<size, oldest>>
    BY <1>1 DEF Appending, LoadNewest, CasNewest, PublishEntry, StoreNext, StoreMsg, Done, Call
  <2>2. \A u \in Appenders : WillLook(u) => WillLook(u)'
    <3>1. \A u \in Appenders : u # t => pc'[u] = pc[u] /\ ent'[u] = ent[u]
      BY <1>0, <1>1 DEF Appending, LoadNewest, CasNewest, PublishEntry, StoreNext, StoreMsg, Done, Call
    <3>2. WillLook(t) => pc[t] = "done" /\ Done(t)
      BY <1>1 DEF Appending, LoadNewest, CasNewest, PublishEntry, StoreNext, StoreMsg, Done, Call, WillLook
    <3>3. Done(t) => pc'[t] = "check"
      BY <1>0 DEF Done
    <3> QED BY <2>1, <3>1, <3>2, <3>3 DEF WillLook
  <2> QED BY <2>1, <2>2 DEF LimitInv
<1>2. ASSUME NEW t \in Appenders, AddSize(t) \/ SubSize(t) \/ StoreStale(t)
      PROVE  LimitInv'
  <2>1. pc'[t] \in {"done", "stale", "check"}
    BY <1>0, <1>2 DEF AddSize, SubSize, StoreStale
  <2> QED BY <2>1 DEF LimitInv, WillLook
<1>3. ASSUME NEW t \in Appenders, CheckSize(t)
      PROVE  LimitInv'
  <2>1. size > MaxSize => pc'[t] = "oldest"
    BY <1>0, <1>3 DEF CheckSize
  <2>2. size' = size
    BY <1>3 DEF CheckSize
  <2> QED BY <2>1, <2>2 DEF LimitInv, WillLook
<1>4. ASSUME NEW t \in Appenders, LoadOldest(t) \/ LoadNext(t)
      PROVE  LimitInv'
  <2>1. UNCHANGED <<size, oldest>> /\ \A u \in Appenders : u # t => pc'[u] = pc[u] /\ ent'[u] = ent[u]
    BY <1>0, <1>4 DEF LoadOldest, LoadNext
  <2>2. WillLook(t) => WillLook(t)'
    BY <1>0, <1>4 DEF LoadOldest, LoadNext, WillLook
  <2> QED BY <2>1, <2>2 DEF LimitInv, WillLook
<1>5. ASSUME NEW t \in Appenders, CasOldest(t)
      PROVE  LimitInv'
  <2>1. CASE oldest = ent[t]
    <3>1. pc'[t] = "sub"
      BY <1>0, <1>5, <2>1 DEF CasOldest
    <3> QED BY <3>1 DEF LimitInv, WillLook
  <2>2. CASE oldest # ent[t]
    <3>1. UNCHANGED <<size, oldest>> /\ \A u \in Appenders : u # t => pc'[u] = pc[u] /\ ent'[u] = ent[u]
      BY <1>0, <1>5, <2>2 DEF CasOldest
    <3>2. ~WillLook(t)
      BY <1>5, <2>2 DEF CasOldest, WillLook
    <3> QED BY <3>1, <3>2 DEF LimitInv, WillLook
  <2> QED BY <2>1, <2>2
<1>6. ASSUME NEW l \in Listeners, Listening(l) \/ CloseQuit(l)
      PROVE  LimitInv'
  <2>1. UNCHANGED <<size, oldest, pc, ent>>
    BY <1>6 DEF Listening, StartListener, Wait, Send, Quit, Advance, CloseQuit
  <2> QED BY <2>1 DEF LimitInv, WillLook
<1>7. CASE UNCHANGED vars
  BY <1>7 DEF vars, LimitInv, WillLook
<1> QED BY <1>1, <1>2, <1>3, <1>4, <1>5, <1>6, <1>7 DEF Next, Appending, Trimming

\* However many calls of Append overlap, and whichever of them give up in trim: when
\* the last has returned, the backlog is within its limit.  With a limit below zero,
\* an empty backlog is above it already.
THEOREM BacklogWithinLimit ==
  ASSUME MaxSize >= 0
  PROVE  Spec => []BelowLimit
<1>1. Init => LimitInv
  BY QueueAssumption DEF Init, LimitInv
<1>2. IInv /\ LimitInv /\ [Next]_vars => LimitInv'
  BY LimitKept
<1>3. IInv /\ LimitInv => BelowLimit
  BY QueueAssumption DEF IInv, TypeOK, LimitInv, WillLook, BelowLimit
<1> QED BY <1>1, <1>2, <1>3, Inductive, PTL DEF Spec

-------------------------------------------------------------------------------
(* The byte count.                                                           *)

\* The history variable bytes holds the sums of the sizes along the list.
LEMMA BytesKept ==
  ASSUME IInv, BytesInv, [Next]_vars
  PROVE  BytesInv'
<1>0. /\ newest \in Nat \ {0} /\ Len(log) = newest - 1 /\ log \in Seq(Msg)
      /\ bytes \in [1..newest -> Nat]
  BY DEF IInv, TypeOK, EntryInv, Entry
<1>1. ASSUME NEW t \in Appenders, CasNewest(t), newest = ent[t]
      PROVE  BytesInv'
  <2>1. msg[t] \in Msg /\ PublishEntry(t)
    BY <1>1 DEF CasNewest, At, IInv, OwnerInv, Owns
  <2>2. /\ newest' = newest + 1 /\ log' = Append(log, msg[t])
        /\ \A i \in 1..newest : bytes'[i] = bytes[i]
        /\ bytes'[newest + 1] = bytes[newest] + Overhead + Length[msg[t]]
    BY <1>0, <2>1 DEF PublishEntry, WithNewEntry
  <2>3. log'[newest] = msg[t] /\ \A i \in 1..newest - 1 : log'[i] = log[i]
    BY <1>0, <2>1, <2>2, AppendProperties
  <2>4. ASSUME NEW i \in 1..newest
        PROVE  bytes'[i + 1] = bytes'[i] + Overhead + Length[log'[i]]
    <3>1. CASE i = newest
      BY <1>0, <2>2, <2>3, <3>1
    <3>2. CASE i # newest
      <4>1. i \in 1..newest - 1 /\ i + 1 \in 1..newest
        BY <1>0, <3>2
      <4> QED BY <2>2, <2>3, <4>1 DEF BytesInv
    <3> QED BY <3>1, <3>2
  <2> QED BY <1>0, <2>2, <2>4 DEF BytesInv
<1>2. CASE UNCHANGED <<newest, log, bytes>>
  BY <1>2 DEF BytesInv
<1>3. ASSUME NEW t \in Appenders, Appending(t) \/ Trimming(t), ~(CasNewest(t) /\ newest = ent[t])
      PROVE  UNCHANGED <<newest, log, bytes>>
  BY <1>3 DEF Appending, Trimming, LoadNewest, CasNewest, StoreNext, StoreMsg, AddSize, Done,
              CheckSize, LoadOldest, LoadNext, CasOldest, SubSize, StoreStale
<1>4. ASSUME NEW l \in Listeners, Listening(l) \/ CloseQuit(l)
      PROVE  UNCHANGED <<newest, log, bytes>>
  BY <1>4 DEF Listening, StartListener, Wait, Send, Quit, Advance, CloseQuit
<1> QED BY <1>1, <1>2, <1>3, <1>4 DEF Next, vars, Call

\* What one entry takes: nothing is left out of the sums, and nothing is free.
LEMMA EntryBytes ==
  ASSUME IInv, BytesInv, NEW i \in 1..newest - 1
  PROVE  /\ bytes[i] \in Nat /\ bytes[i + 1] \in Nat /\ bytes[i + 1] > bytes[i]
         /\ bytes[i + 1] = bytes[i] + Overhead + Length[log[i]]
         /\ body[i] = log[i] => bytes[i + 1] = bytes[i] + SizeOf(i)
<1>1. /\ newest \in Nat \ {0} /\ Len(log) = newest - 1 /\ log \in Seq(Msg)
      /\ bytes \in [1..newest -> Nat]
  BY DEF IInv, TypeOK, EntryInv, Entry
<1>2. log[i] \in Msg /\ Length[log[i]] \in Nat /\ log[i] # NoMsg
  BY <1>1, ElementOfSeq, QueueAssumption
<1>3. bytes[i + 1] = bytes[i] + Overhead + Length[log[i]]
  BY DEF BytesInv
<1> QED BY <1>1, <1>2, <1>3, QueueAssumption DEF SizeOf, BodyLen

\* Counting marked bytes: those of t come to a set that has none of t's,
LEMMA BytesAdded ==
  ASSUME NEW S, IsFiniteSet(S), NEW t, NEW n \in Nat, S \cap BytesOf(t, n) = {}
  PROVE  /\ IsFiniteSet(S \cup BytesOf(t, n))
         /\ Cardinality(S \cup BytesOf(t, n)) = Cardinality(S) + n
<1>1. IsFiniteSet(BytesOf(t, n)) /\ Cardinality(BytesOf(t, n)) = n
  <2>1. IsFiniteSet({t}) /\ Cardinality({t}) = 1
    BY FS_Singleton
  <2>2. IsFiniteSet(1..n) /\ Cardinality(1..n) = n
    BY FS_Interval
  <2>3. 1 * n = n
    OBVIOUS
  <2>4. IsFiniteSet(BytesOf(t, n)) /\ Cardinality(BytesOf(t, n)) = Cardinality({t}) * Cardinality(1..n)
    BY <2>1, <2>2, FS_Product DEF BytesOf
  <2> QED BY <2>1, <2>2, <2>3, <2>4
<1>2. Cardinality(S) \in Nat /\ Cardinality({}) = 0
  BY FS_CardinalityType, FS_EmptySet
<1> QED BY <1>1, <1>2, FS_Union

\* or leave one that has them all.
LEMMA BytesTaken ==
  ASSUME NEW S, IsFiniteSet(S), NEW t, NEW n \in Nat, BytesOf(t, n) \subseteq S
  PROVE  /\ IsFiniteSet(S \ BytesOf(t, n))
         /\ Cardinality(S \ BytesOf(t, n)) = Cardinality(S) - n
<1> DEFINE R == S \ BytesOf(t, n)
<1>1. IsFiniteSet(R)
  BY FS_Difference
<1>2. R \cap BytesOf(t, n) = {} /\ R \cup BytesOf(t, n) = S
  OBVIOUS
<1>3. Cardinality(S) = Cardinality(R) + n
  BY <1>1, <1>2, BytesAdded
<1> QED BY <1>1, <1>3, FS_CardinalityType

\* No byte has two marks.
LEMMA BytesApart ==
  ASSUME NEW t, NEW u, t # u, NEW m, NEW n
  PROVE  BytesOf(t, m) \cap BytesOf(u, n) = {}
BY DEF BytesOf

LEMMA SizeNat ==
  ASSUME IInv, NEW i \in Entry
  PROVE  SizeOf(i) \in Nat
BY QueueAssumption DEF IInv, TypeOK, SizeOf, BodyLen

Adding(t) == pc[t] \in {"link", "fill", "add"}

\* Which bytes are on their way.
LEMMA WhichBytes ==
  /\ \A b : b \in NotAdded <=>
       \E u \in Appenders : Adding(u) /\ b \in BytesOf(u, Overhead + Length[msg[u]])
  /\ \A b : b \in NotSubtracted <=>
       \E u \in Appenders : pc[u] = "sub" /\ b \in BytesOf(u, SizeOf(ent[u]))
  /\ \A b : b \in NotAdded' <=>
       \E u \in Appenders : Adding(u)' /\ b \in BytesOf(u, Overhead + Length[msg'[u]])
  /\ \A b : b \in NotSubtracted' <=>
       \E u \in Appenders : pc'[u] = "sub" /\ b \in BytesOf(u, SizeOf(ent[u])')
BY DEF NotAdded, NotSubtracted, Adding, BytesOf

\* Most steps put nothing on its way and take nothing from it.
LEMMA BytesStay ==
  ASSUME \A u \in Appenders : Adding(u)' <=> Adding(u),
         \A u \in Appenders : Adding(u) => msg'[u] = msg[u]
  PROVE  NotAdded' = NotAdded
BY WhichBytes

LEMMA SubtractionsStay ==
  ASSUME \A u \in Appenders : pc'[u] = "sub" <=> pc[u] = "sub",
         \A u \in Appenders : pc[u] = "sub" => SizeOf(ent[u])' = SizeOf(ent[u])
  PROVE  NotSubtracted' = NotSubtracted
BY WhichBytes

\* An overrun is not forgotten.
LEMMA OverrunStays ==
  ASSUME IInv, [Next]_vars, overrun
  PROVE  overrun'
<1>1. overrun \in BOOLEAN
  BY DEF IInv, TypeOK
<1> QED BY <1>1 DEF Next, vars, Call, Appending, Trimming, Listening, LoadNewest, CasNewest, PublishEntry,
       StoreNext, StoreMsg, AddSize, Done, CheckSize, LoadOldest, LoadNext, CasOldest, SubSize,
       StoreStale, StartListener, Wait, Send, Quit, Advance, CloseQuit

LEMMA AccountKept ==
  ASSUME IInv, TidyInv, BytesInv, AccountInv, [Next]_vars, ~overrun, ~overrun'
  PROVE  AccountInv'
<1> USE DEF entries, appendLocal, At, Goto
<1>0. /\ pc \in [Appenders -> AppendPcs] /\ ent \in [Appenders -> Entry \cup {Nil}]
      /\ msg \in [Appenders -> Msg \cup {NoMsg}]
      /\ body \in [Entry -> Msg \cup {NoMsg}] /\ size \in Int
      /\ newest \in Nat \ {0} /\ bytes \in [1..newest -> Nat] /\ oldest \in 1..newest
  BY FrontInList DEF IInv, TypeOK, Entry
<1>1. /\ IsFiniteSet(NotAdded) /\ IsFiniteSet(NotSubtracted)
      /\ Cardinality(NotAdded) \in Nat /\ Cardinality(NotSubtracted) \in Nat
      /\ size = bytes[newest] - bytes[oldest] - Cardinality(NotAdded) + Cardinality(NotSubtracted)
  BY FS_CardinalityType DEF AccountInv, Accounted
<1>2. CASE UNCHANGED <<size, newest, oldest, bytes, NotAdded, NotSubtracted>>
  BY <1>1, <1>2 DEF AccountInv, Accounted
<1>3. ASSUME NEW t \in Appenders, CasNewest(t), newest = ent[t]
      PROVE  AccountInv'
  <2> DEFINE n == Overhead + Length[msg[t]]
  <2>1. msg[t] \in Msg /\ PublishEntry(t) /\ pc[t] = "swap"
    BY <1>3 DEF CasNewest, IInv, OwnerInv, Owns
  <2>2. n \in Nat
    BY <2>1, QueueAssumption
  <2>3. /\ newest' = newest + 1 /\ bytes'[newest + 1] = bytes[newest] + n
        /\ bytes'[oldest] = bytes[oldest] /\ UNCHANGED <<size, oldest, msg, ent>>
        /\ \A i \in Entry : body'[i] = body[i]
        /\ pc' = [pc EXCEPT ![t] = "link"]
    <3>1. bytes'[newest + 1] = bytes[newest] + Overhead + Length[msg[t]] /\ newest' = newest + 1
      BY <1>0, <2>1 DEF PublishEntry, WithNewEntry
    <3>2. bytes'[newest + 1] = bytes[newest] + n
      BY <1>0, <2>1, <3>1, QueueAssumption
    <3>3. bytes'[oldest] = bytes[oldest] /\ \A i \in Entry : body'[i] = body[i]
      BY <1>0, <2>1 DEF PublishEntry, WithNewEntry, Entry
    <3> QED BY <2>1, <3>1, <3>2, <3>3 DEF PublishEntry
  <2>4. \A u \in Appenders : pc[u] = "sub" => ent[u] \in Entry
    BY DEF IInv, TrimInv, Behind
  <2>5. NotSubtracted' = NotSubtracted
    BY <1>0, <2>1, <2>3, <2>4, SubtractionsStay DEF SizeOf
  <2>6. NotAdded' = NotAdded \cup BytesOf(t, n) /\ NotAdded \cap BytesOf(t, n) = {}
    <3>1. Adding(t)' /\ ~Adding(t) /\ \A u \in Appenders : u # t => (Adding(u)' <=> Adding(u))
      BY <1>0, <2>1, <2>3 DEF Adding
    <3>2. msg' = msg
      BY <2>3
    <3>3. NotAdded' = NotAdded \cup BytesOf(t, n)
      BY <3>1, <3>2, WhichBytes
    <3>4. NotAdded \cap BytesOf(t, n) = {}
      BY <3>1, WhichBytes, BytesApart
    <3> QED BY <3>3, <3>4
  <2>7. IsFiniteSet(NotAdded') /\ Cardinality(NotAdded') = Cardinality(NotAdded) + n
    BY <1>1, <2>2, <2>6, BytesAdded
  <2> QED BY <1>0, <1>1, <2>2, <2>3, <2>5, <2>7 DEF AccountInv, Accounted
<1>4. ASSUME NEW t \in Appenders, AddSize(t)
      PROVE  AccountInv'
  <2> DEFINE n == Overhead + Length[msg[t]]
  <2>1. /\ pc[t] = "add" /\ pc' = [pc EXCEPT ![t] = "done"] /\ size' = size + SizeOf(ent[t])
        /\ UNCHANGED <<newest, oldest, bytes, body, msg, ent>>
    BY <1>4 DEF AddSize
  <2>2. msg[t] \in Msg /\ body[ent[t]] = msg[t]
    BY <2>1 DEF IInv, OwnerInv, Owns, Filling
  <2>3. n \in Nat /\ SizeOf(ent[t]) = n
    BY <2>2, QueueAssumption DEF SizeOf, BodyLen
  <2>4. NotSubtracted' = NotSubtracted
    BY <1>0, <2>1, SubtractionsStay DEF SizeOf
  <2>5. NotAdded' = NotAdded \ BytesOf(t, n) /\ BytesOf(t, n) \subseteq NotAdded
    <3>1. Adding(t) /\ ~Adding(t)' /\ \A u \in Appenders : u # t => (Adding(u)' <=> Adding(u))
      BY <1>0, <2>1 DEF Adding
    <3>2. msg' = msg
      BY <2>1
    <3>3. \A u \in Appenders : u # t => BytesOf(u, Overhead + Length[msg[u]]) \cap BytesOf(t, n) = {}
      BY BytesApart
    <3> QED BY <3>1, <3>2, <3>3, WhichBytes
  <2>6. IsFiniteSet(NotAdded') /\ Cardinality(NotAdded') = Cardinality(NotAdded) - n
    BY <1>1, <2>3, <2>5, BytesTaken
  <2> QED BY <1>0, <1>1, <2>1, <2>3, <2>4, <2>6 DEF AccountInv, Accounted
<1>5. ASSUME NEW t \in Appenders, CasOldest(t), oldest = ent[t]
      PROVE  AccountInv'
  <2> DEFINE n == SizeOf(oldest)
  <2>1. /\ pc[t] = "drop" /\ pc' = [pc EXCEPT ![t] = "sub"] /\ valid[oldest] = 0
        /\ oldest' = ptr[t] /\ ptr[t] # Nil
        /\ UNCHANGED <<newest, size, bytes, body, msg, ent>>
    BY <1>0, <1>5 DEF CasOldest
  <2>2. oldest' = oldest + 1
    BY <1>0, <1>5, <2>1, FrontStep DEF IInv, TrimInv, Behind, Trimmed, Nil, Entry
  <2>3. oldest \in Entry /\ Linked(oldest)
    BY <1>0 DEF IInv, EntryInv, Entry
  <2>4. oldest \in 1..newest - 1 /\ body[oldest] = log[oldest]
    BY <1>0, <2>1, <2>3 DEF Linked, Entry
  <2>5. n \in Nat /\ bytes[oldest + 1] = bytes[oldest] + n
    BY <2>3, <2>4, SizeNat, EntryBytes
  <2>6. NotAdded' = NotAdded
    BY <1>0, <2>1, BytesStay DEF Adding
  <2>7. NotSubtracted' = NotSubtracted \cup BytesOf(t, n) /\ NotSubtracted \cap BytesOf(t, n) = {}
    <3>1. \A u \in Appenders : /\ u # t => (pc'[u] = "sub" <=> pc[u] = "sub")
                               /\ SizeOf(ent[u])' = SizeOf(ent[u])
      BY <1>0, <2>1 DEF SizeOf
    <3>2. pc'[t] = "sub" /\ pc[t] # "sub" /\ SizeOf(ent[t]) = n
      BY <1>0, <1>5, <2>1
    <3>3. NotSubtracted' = NotSubtracted \cup BytesOf(t, n)
      BY <3>1, <3>2, WhichBytes
    <3>4. NotSubtracted \cap BytesOf(t, n) = {}
      BY <3>2, WhichBytes, BytesApart
    <3> QED BY <3>3, <3>4
  <2>8. IsFiniteSet(NotSubtracted') /\ Cardinality(NotSubtracted') = Cardinality(NotSubtracted) + n
    BY <1>1, <2>5, <2>7, BytesAdded
  <2>9. bytes'[oldest'] = bytes[oldest] + n /\ bytes'[newest'] = bytes[newest] /\ size' = size
    BY <2>1, <2>2, <2>5
  <2> HIDE DEF n
  <2>10. size' = bytes'[newest'] - bytes'[oldest'] - Cardinality(NotAdded') + Cardinality(NotSubtracted')
    BY <1>0, <1>1, <2>5, <2>6, <2>8, <2>9
  <2> QED BY <1>1, <2>6, <2>8, <2>10 DEF AccountInv, Accounted
<1>6. ASSUME NEW t \in Appenders, SubSize(t)
      PROVE  AccountInv'
  <2> DEFINE n == SizeOf(ent[t])
  <2>1. /\ pc[t] = "sub" /\ pc' = [pc EXCEPT ![t] = "stale"] /\ size' = size - n
        /\ UNCHANGED <<newest, oldest, bytes, body, msg, ent>>
    BY <1>6 DEF SubSize
  <2>2. n \in Nat
    BY <2>1, SizeNat DEF IInv, TrimInv, Behind
  <2>3. NotAdded' = NotAdded
    BY <1>0, <2>1, BytesStay DEF Adding
  <2>4. NotSubtracted' = NotSubtracted \ BytesOf(t, n) /\ BytesOf(t, n) \subseteq NotSubtracted
    <3>1. \A u \in Appenders : /\ u # t => (pc'[u] = "sub" <=> pc[u] = "sub")
                               /\ SizeOf(ent[u])' = SizeOf(ent[u])
      BY <1>0, <2>1 DEF SizeOf
    <3>2. pc[t] = "sub" /\ pc'[t] # "sub"
      BY <1>0, <2>1
    <3>3. \A u \in Appenders : u # t => BytesOf(u, SizeOf(ent[u])) \cap BytesOf(t, n) = {}
      BY BytesApart
    <3> QED BY <3>1, <3>2, <3>3, WhichBytes
  <2>5. IsFiniteSet(NotSubtracted') /\ Cardinality(NotSubtracted') = Cardinality(NotSubtracted) - n
    BY <1>1, <2>2, <2>4, BytesTaken
  <2> QED BY <1>0, <1>1, <2>1, <2>2, <2>3, <2>5 DEF AccountInv, Accounted
<1>7. ASSUME NEW t \in Appenders, StoreMsg(t)
      PROVE  AccountInv'
  <2>1. /\ pc[t] = "fill" /\ pc' = [pc EXCEPT ![t] = "add"] /\ body' = [body EXCEPT ![ent[t]] = msg[t]]
        /\ UNCHANGED <<newest, size, oldest, bytes, msg, ent>>
    BY <1>7 DEF StoreMsg
  <2>2. NotAdded' = NotAdded
    BY <1>0, <2>1, BytesStay DEF Adding
  <2>3. valid[ent[t]] = 1
    BY <2>1, OwnedEntry DEF Filling
  <2>4. ASSUME NEW u \in Appenders, pc[u] = "sub"
        PROVE  SizeOf(ent[u])' = SizeOf(ent[u])
    <3>1. ent[u] \in Entry /\ ent[u] \in 1..oldest - 1
      BY <1>0, <2>4 DEF IInv, TrimInv, Behind, Trimmed, Entry, Nil
    <3>2. ent[u] # ent[t]
      BY <2>3, <3>1 DEF TidyInv, Tidy
    <3> QED BY <1>0, <2>1, <3>1, <3>2 DEF SizeOf
  <2>5. NotSubtracted' = NotSubtracted
    BY <1>0, <2>1, <2>4, SubtractionsStay
  <2> QED BY <1>2, <2>1, <2>2, <2>5
<1>8. ASSUME NEW t \in Appenders,
             \/ LoadNewest(t) \/ StoreNext(t) \/ Done(t) \/ CheckSize(t) \/ LoadOldest(t)
             \/ LoadNext(t) \/ StoreStale(t) \/ (CasNewest(t) /\ newest # ent[t])
             \/ (CasOldest(t) /\ oldest # ent[t]) \/ \E m \in Msg : Call(t, m)
      PROVE  AccountInv'
  <2>1. UNCHANGED <<size, newest, oldest, bytes, body>>
    BY <1>8 DEF LoadNewest, StoreNext, Done, CheckSize, LoadOldest, LoadNext, StoreStale, CasNewest,
          PublishEntry, CasOldest, Call
  <2>2. \A u \in Appenders : Adding(u)' <=> Adding(u)
    BY <1>0, <1>8 DEF Adding, LoadNewest, StoreNext, Done, CheckSize, LoadOldest, LoadNext, StoreStale,
          CasNewest, PublishEntry, CasOldest, Call
  <2>3. \A u \in Appenders : Adding(u) => msg'[u] = msg[u]
    BY <1>0, <1>8 DEF Adding, LoadNewest, StoreNext, Done, CheckSize, LoadOldest, LoadNext, StoreStale,
          CasNewest, PublishEntry, CasOldest, Call
  <2>4. \A u \in Appenders : pc'[u] = "sub" <=> pc[u] = "sub"
    BY <1>0, <1>8 DEF LoadNewest, StoreNext, Done, CheckSize, LoadOldest, LoadNext, StoreStale,
          CasNewest, PublishEntry, CasOldest, Call
  <2>5. \A u \in Appenders : pc[u] = "sub" => ent'[u] = ent[u]
    BY <1>0, <1>8 DEF LoadNewest, StoreNext, Done, CheckSize, LoadOldest, LoadNext, StoreStale,
          CasNewest, PublishEntry, CasOldest, Call
  <2> QED BY <1>2, <2>1, <2>2, <2>3, <2>4, <2>5, BytesStay, SubtractionsStay DEF SizeOf
<1>9. ASSUME NEW l \in Listeners, Listening(l) \/ CloseQuit(l)
      PROVE  AccountInv'
  <2>1. UNCHANGED <<size, newest, oldest, bytes, body, pc, msg, ent>>
    BY <1>9 DEF Listening, StartListener, Wait, Send, Quit, Advance, CloseQuit
  <2> QED BY <1>2, <2>1, BytesStay, SubtractionsStay DEF SizeOf, Adding
<1>10. CASE UNCHANGED vars
  BY <1>2, <1>10, BytesStay, SubtractionsStay DEF vars, SizeOf, Adding
<1> QED BY <1>3, <1>4, <1>5, <1>6, <1>7, <1>8, <1>9, <1>10
        DEF Next, Appending, Trimming, CasNewest, CasOldest

\* With any number of appenders, each anywhere in Append: the count is what the list
\* holds, but for what was swapped in and not added and what was trimmed and not
\* subtracted, unless an unfinished entry was trimmed.
THEOREM CountIsAccounted == Spec => []Accounted
<1> DEFINE Inv == IInv /\ TidyInv /\ BytesInv /\ AccountInv
<1>1. Init => Inv
  <2> SUFFICES ASSUME Init PROVE Inv
    OBVIOUS
  <2>1. NotAdded = {} /\ NotSubtracted = {}
    BY DEF Init, NotAdded, NotSubtracted
  <2>2. IsFiniteSet({}) /\ Cardinality({}) = 0
    BY FS_EmptySet
  <2>3. AccountInv
    BY <2>1, <2>2 DEF Init, AccountInv, Accounted
  <2> QED BY <2>3, InitInv DEF Init, TidyInv, BytesInv
<1>2. Inv /\ [Next]_vars => Inv'
  <2> SUFFICES ASSUME Inv, [Next]_vars PROVE Inv'
    OBVIOUS
  <2>1. overrun => overrun'
    BY OverrunStays
  <2> QED BY <2>1, NextInv, TidyKept, BytesKept, AccountKept DEF AccountInv
<1>3. Inv => Accounted
  BY DEF AccountInv, Accounted
<1> QED BY <1>1, <1>2, <1>3, PTL DEF Spec

-------------------------------------------------------------------------------
(* One Append at a time.                                                     *)

\* One appender's step, as far as the others and it are concerned.
SoloStep(t) == Appending(t) \/ Trimming(t) \/ \E m \in Msg : Call(t, m)

\* The parts of AloneInv when nobody but t is in a call.
FillsWith(t) ==
  /\ Filling(t) => ent[t] = newest - 1
  /\ \A i \in 1..newest - 1 : valid[i] = 0 \/ (Filling(t) /\ ent[t] = i)

TrimsWith(t) ==
  /\ pc[t] \in {"oldest", "next", "drop"} => size > MaxSize
  /\ pc[t] \in {"next", "drop"} => ent[t] = oldest
  /\ pc[t] = "drop" => ptr[t] = oldest + 1
  /\ pc[t] = "sub" => oldest > 1 /\ ent[t] = oldest - 1

CountsWith(t) ==
  /\ pc[t] \notin {"link", "fill", "add", "sub"} => size = bytes[newest] - bytes[oldest]
  /\ pc[t] \in {"link", "fill", "add"} => size = bytes[newest - 1] - bytes[oldest]
  /\ pc[t] = "sub" => size = bytes[newest] - bytes[oldest - 1]

AloneWith(t) == ~overrun /\ FillsWith(t) /\ TrimsWith(t) /\ CountsWith(t) /\ AloneFull
AloneParts == ~overrun /\ AloneFills /\ AloneTrims /\ AloneCounts /\ AloneFull

OthersIdle(t) == \A u \in Appenders : u # t => pc[u] = "idle"
SameParts == \A t \in Appenders : OthersIdle(t) => (AloneWith(t) <=> AloneParts)

LEMMA AloneSplits == SameParts
<1> SUFFICES ASSUME NEW t \in Appenders, OthersIdle(t)
             PROVE  AloneWith(t) <=> AloneParts
  BY DEF SameParts
<1> USE DEF OthersIdle
<1>1. \A u \in Appenders : Filling(u) => u = t
  BY DEF Filling
<1>2. AloneFills <=> FillsWith(t)
  BY <1>1 DEF AloneFills, FillsWith
<1>3. AloneTrims <=> TrimsWith(t)
  BY DEF AloneTrims, TrimsWith
<1>4. AloneCounts <=> CountsWith(t)
  BY DEF AloneCounts, CountsWith
<1> QED BY <1>2, <1>3, <1>4 DEF AloneWith, AloneParts

\* With bytes to trim the front is an announced entry, so it links to the next one.
LEMMA AloneFront ==
  ASSUME MaxSize >= 0, IInv, BytesInv, NEW t \in Appenders, AloneWith(t),
         pc[t] \in {"next", "drop"}
  PROVE  /\ oldest \in 1..newest - 1 /\ valid[oldest] = 0
         /\ next[oldest] = oldest + 1
<1>1. /\ oldest \in Entry /\ newest \in Nat \ {0} /\ bytes \in [Entry -> Nat] /\ ~overrun
      /\ size > MaxSize /\ size = bytes[newest] - bytes[oldest]
  BY FrontInList DEF AloneWith, FillsWith, TrimsWith, CountsWith, IInv, TypeOK
<1>2. oldest # newest
  BY <1>1, QueueAssumption DEF Entry
<1>3. oldest \in 1..newest - 1 /\ valid[oldest] = 0
  BY <1>1, <1>2 DEF AloneWith, FillsWith, TrimsWith, CountsWith, Filling, Entry
<1>4. Linked(oldest)
  BY <1>1 DEF IInv, EntryInv
<1> QED BY <1>1, <1>3, <1>4 DEF Linked, Trimmed, Entry, Nil, Stale

\* An appender whose calls never overlapped another one's finds all as it left it.
LEMMA AloneWithKept ==
  ASSUME MaxSize >= 0, IInv, BytesInv, NEW t \in Appenders, AloneWith(t), SoloStep(t)
  PROVE  AloneWith(t)'
<1> USE DEF entries, appendLocal, At, Goto, AloneWith, FillsWith, TrimsWith, CountsWith
<1>0. /\ pc \in [Appenders -> AppendPcs] /\ ent \in [Appenders -> Entry \cup {Nil}]
      /\ ptr \in [Appenders -> Entry \cup {Nil, Stale}]
      /\ size \in Int /\ MaxSize \in Int
      /\ next \in [Entry -> Entry \cup {Nil, Stale}] /\ valid \in [Entry -> {0, 1}]
      /\ newest \in Nat \ {0} /\ bytes \in [1..newest -> Nat]
      /\ oldest \in 1..newest
  BY QueueAssumption, FrontInList DEF IInv, TypeOK, Entry
<1>1. CASE LoadNewest(t) \/ StoreNext(t) \/ StoreMsg(t) \/ (CasNewest(t) /\ newest # ent[t])
           \/ CheckSize(t) \/ LoadOldest(t) \/ StoreStale(t) \/ (\E m \in Msg : Call(t, m))
  <2>1. UNCHANGED <<valid, newest, oldest, size, bytes, overrun>>
    BY <1>1 DEF LoadNewest, StoreNext, StoreMsg, CasNewest, PublishEntry, CheckSize, LoadOldest,
                StoreStale, Call
  <2>2. /\ Filling(t)' <=> Filling(t)
        /\ Filling(t) => ent'[t] = ent[t]
        /\ pc'[t] \in {"link", "fill", "add"} <=> pc[t] \in {"link", "fill", "add"}
        /\ pc[t] # "sub" /\ pc'[t] # "sub" /\ pc'[t] # "drop"
        /\ pc'[t] = "oldest" => size > MaxSize
        /\ pc'[t] = "next" => pc[t] = "oldest" /\ ent'[t] = oldest
    BY <1>0, <1>1 DEF LoadNewest, StoreNext, StoreMsg, CasNewest, PublishEntry, CheckSize,
                LoadOldest, StoreStale, Call, Filling
  <2> QED BY <2>1, <2>2 DEF AloneFull
<1>2. CASE CasNewest(t) /\ newest = ent[t]
  <2>1. msg[t] \in Msg /\ PublishEntry(t) /\ pc[t] = "swap"
    BY <1>2 DEF CasNewest, IInv, OwnerInv, Owns
  <2>2. /\ newest' = newest + 1 /\ UNCHANGED <<oldest, size, ent, overrun>> /\ pc'[t] = "link"
        /\ \A i \in 1..newest : bytes'[i] = bytes[i] /\ valid'[i] = valid[i]
        /\ bytes'[newest + 1] = bytes[newest] + Overhead + Length[msg[t]]
    BY <1>0, <2>1 DEF PublishEntry, WithNewEntry
  <2>3. bytes'[newest + 1] > bytes[newest] /\ bytes'[newest + 1] \in Nat
    BY <1>0, <2>1, <2>2, QueueAssumption
  <2>4. ASSUME NEW i \in 1..newest
        PROVE  valid'[i] = 0 \/ ent'[t] = i
    <3>1. CASE i = newest
      BY <1>2, <2>2, <3>1
    <3>2. CASE i # newest
      <4>1. i \in 1..newest - 1
        BY <1>0, <3>2
      <4> QED BY <2>1, <2>2, <4>1 DEF Filling
    <3> QED BY <3>1, <3>2
  <2>5. AloneFull'
    <3>1. oldest > 1 => oldest - 1 \in 1..newest /\ bytes[oldest - 1] \in Nat
      BY <1>0
    <3>2. oldest > 1 => bytes'[newest + 1] - bytes'[oldest - 1] > MaxSize
      BY <1>0, <2>2, <2>3, <3>1 DEF AloneFull
    <3> QED BY <2>2, <3>2 DEF AloneFull
  <2>6. size = bytes'[newest] - bytes'[oldest]
    BY <1>0, <2>1, <2>2
  <2> QED BY <1>0, <1>2, <2>2, <2>4, <2>5, <2>6 DEF Filling
<1>3. CASE AddSize(t)
  <2>1. /\ pc[t] = "add" /\ pc'[t] = "done" /\ size' = size + SizeOf(ent[t])
        /\ UNCHANGED <<valid, newest, oldest, bytes, ent, overrun>>
    BY <1>0, <1>3 DEF AddSize
  <2>2. ent[t] = newest - 1 /\ ent[t] \in 1..newest - 1 /\ body[ent[t]] = log[ent[t]]
    BY <2>1 DEF Filling, IInv, OwnerInv, Owns
  <2>3. bytes[newest] = bytes[newest - 1] + SizeOf(ent[t]) /\ SizeOf(ent[t]) \in Int
    BY <1>0, <2>2, EntryBytes, SizeInt DEF IInv, Entry
  <2>4. size = bytes[newest - 1] - bytes[oldest]
    BY <2>1
  <2>5. size' = bytes[newest] - bytes[oldest]
    BY <1>0, <2>1, <2>2, <2>3, <2>4
  <2> QED BY <2>1, <2>5 DEF AloneFull, Filling
<1>4. CASE Done(t)
  <2>1. ent[t] \in Entry /\ valid[ent[t]] = 1
    BY <1>4, OwnedEntry DEF Done, Filling
  <2>2. /\ pc[t] = "done" /\ pc'[t] = "check" /\ UNCHANGED <<newest, oldest, size, bytes, overrun>>
        /\ \A i \in Entry : valid'[i] = IF i = ent[t] THEN 0 ELSE valid[i]
    BY <1>0, <1>4, <2>1 DEF Done
  <2>3. \A i \in 1..newest - 1 : valid'[i] = 0
    BY <1>0, <2>2 DEF Entry
  <2> QED BY <2>2, <2>3 DEF AloneFull, Filling
<1>5. CASE LoadNext(t)
  <2>1. pc[t] = "next" /\ ent[t] = oldest /\ next[oldest] = oldest + 1
    BY <1>5, AloneFront DEF LoadNext
  <2>2. ent[t] # Nil
    BY <1>0, <2>1 DEF Nil
  <2>3. /\ pc'[t] = "drop" /\ ptr'[t] = next[ent[t]]
        /\ UNCHANGED <<valid, newest, oldest, size, bytes, ent, overrun>>
    BY <1>0, <1>5, <2>2 DEF LoadNext
  <2> QED BY <2>1, <2>3 DEF AloneFull, Filling
<1>6. CASE CasOldest(t)
  <2>1. /\ pc[t] = "drop" /\ ent[t] = oldest /\ ptr[t] = oldest + 1
        /\ oldest \in 1..newest - 1 /\ valid[oldest] = 0
    BY <1>6, AloneFront DEF CasOldest
  <2>2. /\ pc'[t] = "sub" /\ oldest' = oldest + 1 /\ ~overrun'
        /\ UNCHANGED <<valid, newest, size, bytes, ent>>
    <3>1. ptr[t] # Nil /\ ~overrun
      BY <1>0, <2>1 DEF Nil
    <3> QED BY <1>0, <1>6, <2>1, <3>1 DEF CasOldest
  <2>3. size > MaxSize /\ size = bytes[newest] - bytes[oldest] /\ oldest' - 1 = oldest /\ oldest' > 1
    BY <1>0, <2>1, <2>2
  <2> QED BY <2>1, <2>2, <2>3 DEF AloneFull, Filling
<1>7. CASE SubSize(t)
  <2>1. /\ pc[t] = "sub" /\ pc'[t] = "stale" /\ size' = size - SizeOf(ent[t])
        /\ UNCHANGED <<valid, newest, oldest, bytes, ent, overrun>>
    BY <1>0, <1>7 DEF SubSize
  <2>2. /\ oldest > 1 /\ ent[t] = oldest - 1 /\ ent[t] \in 1..newest - 1 /\ ent[t] \in Entry
        /\ size = bytes[newest] - bytes[oldest - 1]
    BY <1>0, <2>1 DEF Entry
  <2>3. valid[ent[t]] = 0
    BY <2>1, <2>2 DEF Filling
  <2>4. body[ent[t]] = log[ent[t]]
    BY <2>2, <2>3 DEF IInv, EntryInv, Linked
  <2>5. bytes[ent[t] + 1] = bytes[ent[t]] + SizeOf(ent[t]) /\ SizeOf(ent[t]) \in Int
    BY <2>2, <2>4, EntryBytes, SizeInt DEF IInv
  <2>6. ent[t] + 1 = oldest
    BY <1>0, <2>2
  <2>7. size' = bytes[newest] - bytes[oldest]
    BY <1>0, <2>1, <2>2, <2>5, <2>6
  <2> QED BY <2>1, <2>7 DEF AloneFull, Filling
<1> QED BY <1>1, <1>2, <1>3, <1>4, <1>5, <1>6, <1>7 DEF SoloStep, Appending, Trimming

\* A step of a listener, or none.
LEMMA AloneQuiet ==
  ASSUME AloneInv, UNCHANGED <<entries, oldest, newest, size, appendLocal, bytes, overrun>>,
         alone' = (alone /\ OneBusy')
  PROVE  AloneInv'
BY DEF entries, appendLocal, AloneInv, AloneFills, AloneTrims, AloneCounts, AloneFull, OneBusy,
       Busy, Filling

LEMMA AloneKept ==
  ASSUME MaxSize >= 0, IInv, BytesInv, AloneInv, [SoloNext]_soloVars
  PROVE  AloneInv'
<1>1. ASSUME NEW t \in Appenders, SoloStep(t), alone, alone', alone' = (alone /\ OneBusy')
      PROVE  AloneInv'
  <2>0. pc \in [Appenders -> AppendPcs]
    BY DEF IInv, TypeOK
  <2>1. pc[t] # "idle" \/ pc'[t] # "idle"
    BY <1>1, <2>0 DEF SoloStep, Appending, Trimming, At, Goto, LoadNewest, CasNewest, StoreNext,
          StoreMsg, AddSize, Done, CheckSize, LoadOldest, LoadNext, CasOldest, SubSize,
          StoreStale, Call
  <2>2. \A u \in Appenders : u # t => pc'[u] = pc[u]
    BY <1>1, <2>0 DEF SoloStep, Appending, Trimming, At, Goto, LoadNewest, CasNewest, PublishEntry,
          StoreNext, StoreMsg, AddSize, Done, CheckSize, LoadOldest, LoadNext, CasOldest,
          SubSize, StoreStale, Call
  <2>3. OneBusy /\ OneBusy'
    BY <1>1 DEF AloneInv
  <2>4. OthersIdle(t) /\ OthersIdle(t)'
    BY <2>1, <2>2, <2>3 DEF OneBusy, Busy, OthersIdle
  <2>5. AloneWith(t)
    BY <1>1, <2>4, AloneSplits DEF AloneInv, AloneParts, SameParts
  <2>6. AloneWith(t)'
    BY <1>1, <2>5, AloneWithKept
  <2>7. SameParts'
    BY AloneSplits, PTL
  <2>8. AloneParts'
    BY <2>4, <2>6, <2>7 DEF SameParts
  <2> QED BY <2>3, <2>8 DEF AloneInv, AloneParts
<1>2. ASSUME NEW l \in Listeners, Listening(l) \/ CloseQuit(l)
      PROVE  UNCHANGED <<entries, oldest, newest, size, appendLocal, bytes, overrun>>
  BY <1>2 DEF Listening, StartListener, Wait, Send, Quit, Advance, CloseQuit
<1>3. CASE UNCHANGED soloVars
  BY <1>3, AloneQuiet DEF soloVars, vars, AloneInv, AloneFills, AloneTrims, AloneCounts,
     AloneFull, OneBusy, Busy, Filling, entries, appendLocal
<1>4. CASE SoloNext /\ ~alone'
  BY <1>4 DEF AloneInv
<1> QED BY <1>1, <1>2, <1>3, <1>4, AloneQuiet DEF SoloNext, Next, SoloStep

\* A new queue is empty and nobody is in it.
LEMMA AloneStarts == SoloInit => IInv /\ BytesInv /\ AloneInv
<1> SUFFICES ASSUME SoloInit PROVE IInv /\ BytesInv /\ AloneInv
  OBVIOUS
<1>1. IInv
  BY InitInv DEF SoloInit
<1>2. BytesInv
  BY DEF SoloInit, Init, BytesInv
<1>3. AloneInv
  BY DEF SoloInit, Init, AloneInv, AloneFills, AloneTrims, AloneCounts, AloneFull, OneBusy, Busy,
         Filling
<1> QED BY <1>1, <1>2, <1>3

LEMMA AloneInvariant ==
  ASSUME MaxSize >= 0
  PROVE  SoloSpec => [](IInv /\ AloneInv)
<1>1. IInv /\ BytesInv /\ AloneInv /\ [SoloNext]_soloVars => (IInv /\ BytesInv /\ AloneInv)'
  <2> SUFFICES ASSUME IInv, BytesInv, AloneInv, [SoloNext]_soloVars
               PROVE  (IInv /\ BytesInv /\ AloneInv)'
    OBVIOUS
  <2>1. [Next]_vars
    BY DEF SoloNext, soloVars
  <2> QED BY <2>1, NextInv, BytesKept, AloneKept
<1> QED BY <1>1, AloneStarts, PTL DEF SoloSpec

\* While calls of Append do not overlap, neither trim nor a listener ever follows a nil
\* entry: what the sequential tests rely on.
THEOREM NothingPanicsAlone ==
  ASSUME MaxSize >= 0
  PROVE  SoloSpec => []NoPanicAlone
<1>1. IInv /\ AloneInv => NoPanicAlone
  BY DEF IInv, PanicInv, AloneInv, NoPanicAlone, NoPanic
<1> QED BY <1>1, AloneInvariant, PTL

\* TestBacklog for any messages and any limit: the backlog holds exactly the latest
\* messages that fit, and the byte count is theirs.
THEOREM BacklogIsFullAlone ==
  ASSUME MaxSize >= 0
  PROVE  SoloSpec => []FullBacklogAlone
<1>1. IInv /\ AloneInv => FullBacklogAlone
  BY DEF AloneInv, AloneCounts, AloneFull, FullBacklogAlone, FullBacklog
<1> QED BY <1>1, AloneInvariant, PTL

================================================================================
