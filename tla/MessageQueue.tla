----------------------------- MODULE MessageQueue -----------------------------
(***************************************************************************)
(* The lock-free backlog of a chat room: hub/messagequeue.go over the      *)
(* atomics of hub/safevals.go.                                             *)
(*                                                                         *)
(* The queue is a linked list.  Its last entry (newest) is an empty        *)
(* container prepared for the message to come: Append puts a fresh         *)
(* container behind it by compare-and-swap, and only then links, fills and *)
(* announces the one it replaced.  After that it trims entries off the     *)
(* front (oldest) until the byte count is within the limit.  Listeners     *)
(* walk the list from the oldest entry without any lock.                   *)
(*                                                                         *)
(* Every load, store, add and compare-and-swap on shared memory is a step  *)
(* of its own.  An entry becomes visible to others when the swap publishes *)
(* it, so entries are numbered in that order: 1..newest.  The number is an *)
(* address; which entry is linked behind which is decided by next alone.   *)
(***************************************************************************)
EXTENDS Integers, Sequences, FiniteSets

CONSTANTS
  Appenders,   \* the goroutines that call Append, one per connected client
  Listeners,   \* the goroutines started by Listen, one per connected client
  Msg,         \* the messages: one element for each call of Append
  NoMsg,       \* the nil body of an entry that has not been filled
  Length,      \* Length[m]: the length of m in bytes
  Overhead,    \* QUEUE_ENTRY_OVERHEAD
  MaxSize      \* the byte limit of the backlog, maxsize

ASSUME QueueAssumption ==
  /\ NoMsg \notin Msg
  /\ Length \in [Msg -> Nat]
  /\ Overhead \in Nat \ {0}
  /\ MaxSize \in Int

Nil   == 0     \* the nil pointer
Stale == -1    \* &staleEntry, the mark of a trimmed entry

VARIABLES
  next, body, valid,  \* the fields of the entries: next, msg, and the count of
                      \* the wait group valid
  oldest, newest,     \* the two ends of the list
  size,               \* the byte count
  pc, msg,            \* per appender: where it is, and Append's argument
  ent, ptr,           \* per appender: the locals e and newp / newoldest
  at, cur,            \* per listener: where it is, and its entry e
  quit,               \* per listener: is its quit channel closed?
  panic,              \* the panic that ended the process, or "none"
  log,                \* history: the messages in the order of their swaps
  bytes,              \* history: bytes[i] is what the entries before i take
  from, got,          \* history, per listener: its first entry, and what it sent
  overrun             \* history: was an entry trimmed before it was valid?

entries     == <<next, body, valid>>
appendLocal == <<pc, msg, ent, ptr>>
listenLocal == <<at, cur, quit, from, got>>
vars == <<entries, oldest, newest, size, appendLocal, listenLocal, panic, log,
          bytes, overrun>>

\* Size(): what an entry counts for, once filled and before.
BodyLen(b)  == IF b = NoMsg THEN 0 ELSE Length[b]
SizeOf(i)   == Overhead + BodyLen(body[i])

\* newQueueEntry() for the entry that the next successful swap publishes.
WithNewEntry(field, value) ==
  [i \in 1..newest + 1 |-> IF i = newest + 1 THEN value ELSE field[i]]

\* newQueue(maxsize), with nobody in any call yet.
Init ==
  /\ next = [i \in 1..1 |-> Nil]
  /\ body = [i \in 1..1 |-> NoMsg]
  /\ valid = [i \in 1..1 |-> 1]
  /\ oldest = 1 /\ newest = 1 /\ size = 0
  /\ pc = [t \in Appenders |-> "idle"]
  /\ msg = [t \in Appenders |-> NoMsg]
  /\ ent = [t \in Appenders |-> Nil]
  /\ ptr = [t \in Appenders |-> Nil]
  /\ at = [l \in Listeners |-> "start"]
  /\ cur = [l \in Listeners |-> Nil]
  /\ quit = [l \in Listeners |-> FALSE]
  /\ panic = "none"
  /\ log = <<>>
  /\ bytes = [i \in 1..1 |-> 0]
  /\ from = [l \in Listeners |-> 0]
  /\ got = [l \in Listeners |-> <<>>]
  /\ overrun = FALSE

-------------------------------------------------------------------------------
(* Append(msg): each appender appends one message after the other.          *)

At(t, here) == panic = "none" /\ pc[t] = here
Goto(t, there) == pc' = [pc EXCEPT ![t] = there]

\* A client's reader calls Append with the message it just read.
Call(t, m) ==
  /\ At(t, "idle")
  /\ \A u \in Appenders : msg[u] # m
  /\ \A i \in 1..Len(log) : log[i] # m
  /\ msg' = [msg EXCEPT ![t] = m]
  /\ Goto(t, "load")
  /\ UNCHANGED <<entries, oldest, newest, size, ent, ptr, listenLocal, panic,
                 log, bytes, overrun>>

\* oldnewest = q.newest.load()
LoadNewest(t) ==
  /\ At(t, "load")
  /\ ent' = [ent EXCEPT ![t] = newest]
  /\ Goto(t, "swap")
  /\ UNCHANGED <<entries, oldest, newest, size, msg, ptr, listenLocal, panic,
                 log, bytes, overrun>>

\* The swap went through: the prepared entry is the new end of the list.
PublishEntry(t) ==
  /\ next' = WithNewEntry(next, Nil)
  /\ body' = WithNewEntry(body, NoMsg)
  /\ valid' = WithNewEntry(valid, 1)
  /\ bytes' = WithNewEntry(bytes, bytes[newest] + Overhead + Length[msg[t]])
  /\ newest' = newest + 1
  /\ ptr' = [ptr EXCEPT ![t] = newest + 1]
  /\ log' = Append(log, msg[t])
  /\ Goto(t, "link")
  /\ UNCHANGED <<oldest, size, msg, ent, listenLocal, panic, overrun>>

\* Mutant: a plain store instead of the compare-and-swap.
CasNewestBlind(t) == At(t, "swap") /\ PublishEntry(t)

\* Mutant: the failed swap is retried without loading q.newest again.
CasNewestNoReload(t) ==
  /\ At(t, "swap")
  /\ \/ newest = ent[t] /\ PublishEntry(t)
     \/ newest # ent[t] /\ UNCHANGED vars

\* q.newest.cas(oldnewest, newp), retried from the load when it fails.
CasNewest(t) ==
  /\ At(t, "swap")
  /\ \/ newest = ent[t] /\ PublishEntry(t)
     \/ /\ newest # ent[t]
        /\ ent' = [ent EXCEPT ![t] = Nil]
        /\ Goto(t, "load")
        /\ UNCHANGED <<entries, oldest, newest, size, msg, ptr, listenLocal,
                       panic, log, bytes, overrun>>

\* Mutant: e.msg = msg is forgotten.
StoreNextOnly(t) ==
  /\ At(t, "link")
  /\ next' = [next EXCEPT ![ent[t]] = ptr[t]]
  /\ Goto(t, "add")
  /\ UNCHANGED <<body, valid, oldest, newest, size, msg, ent, ptr, listenLocal,
                 panic, log, bytes, overrun>>

\* e.next.store(newp)
StoreNext(t) ==
  /\ At(t, "link")
  /\ next' = [next EXCEPT ![ent[t]] = ptr[t]]
  /\ Goto(t, "fill")
  /\ UNCHANGED <<body, valid, oldest, newest, size, msg, ent, ptr, listenLocal,
                 panic, log, bytes, overrun>>

\* e.msg = msg
StoreMsg(t) ==
  /\ At(t, "fill")
  /\ body' = [body EXCEPT ![ent[t]] = msg[t]]
  /\ Goto(t, "add")
  /\ UNCHANGED <<next, valid, oldest, newest, size, msg, ent, ptr, listenLocal,
                 panic, log, bytes, overrun>>

\* q.size.add(e.Size())
AddSize(t) ==
  /\ At(t, "add")
  /\ size' = size + SizeOf(ent[t])
  /\ Goto(t, "done")
  /\ UNCHANGED <<entries, oldest, newest, msg, ent, ptr, listenLocal, panic,
                 log, bytes, overrun>>

\* Mutant: e.valid.Done() is forgotten.
DoneForgotten(t) ==
  /\ At(t, "done")
  /\ msg' = [msg EXCEPT ![t] = NoMsg]
  /\ ent' = [ent EXCEPT ![t] = Nil]
  /\ ptr' = [ptr EXCEPT ![t] = Nil]
  /\ Goto(t, "check")
  /\ UNCHANGED <<entries, oldest, newest, size, listenLocal, panic, log, bytes,
                 overrun>>

\* e.valid.Done(): the entry is ready.  A count below zero panics.
Done(t) ==
  /\ At(t, "done")
  /\ valid' = [valid EXCEPT ![ent[t]] = @ - 1]
  /\ panic' = IF valid[ent[t]] = 0 THEN "negative wait group" ELSE panic
  /\ msg' = [msg EXCEPT ![t] = NoMsg]
  /\ ent' = [ent EXCEPT ![t] = Nil]
  /\ ptr' = [ptr EXCEPT ![t] = Nil]
  /\ Goto(t, "check")
  /\ UNCHANGED <<next, body, oldest, newest, size, listenLocal, log, bytes,
                 overrun>>

-------------------------------------------------------------------------------
(* trim(), the tail of Append, run by every appender for itself.             *)

\* Mutant: the limit itself counts as too much.
CheckSizeAtLimit(t) ==
  /\ At(t, "check")
  /\ Goto(t, IF size >= MaxSize THEN "oldest" ELSE "idle")
  /\ UNCHANGED <<entries, oldest, newest, size, msg, ent, ptr, listenLocal,
                 panic, log, bytes, overrun>>

\* for q.size.load() > q.maxsize
CheckSize(t) ==
  /\ At(t, "check")
  /\ Goto(t, IF size > MaxSize THEN "oldest" ELSE "idle")
  /\ UNCHANGED <<entries, oldest, newest, size, msg, ent, ptr, listenLocal,
                 panic, log, bytes, overrun>>

\* oldoldest = q.oldest.load()
LoadOldest(t) ==
  /\ At(t, "oldest")
  /\ ent' = [ent EXCEPT ![t] = oldest]
  /\ Goto(t, "next")
  /\ UNCHANGED <<entries, oldest, newest, size, msg, ptr, listenLocal, panic,
                 log, bytes, overrun>>

\* newoldest = e.next.load(), which faults when e is nil.
LoadNext(t) ==
  /\ At(t, "next")
  /\ \/ /\ ent[t] = Nil
        /\ panic' = "trim of a nil entry"
        /\ UNCHANGED <<pc, ptr>>
     \/ /\ ent[t] # Nil
        /\ ptr' = [ptr EXCEPT ![t] = next[ent[t]]]
        /\ Goto(t, "drop")
        /\ UNCHANGED panic
  /\ UNCHANGED <<entries, oldest, newest, size, msg, ent, listenLocal, log,
                 bytes, overrun>>

\* Mutant: a plain store instead of the compare-and-swap.
CasOldestBlind(t) ==
  /\ At(t, "drop")
  /\ oldest' = ptr[t]
  /\ overrun' = (overrun \/ ptr[t] = Nil \/ valid[ent[t]] # 0)
  /\ Goto(t, "sub")
  /\ UNCHANGED <<entries, newest, size, msg, ent, ptr, listenLocal, panic, log,
                 bytes>>

\* q.oldest.cas(oldoldest, newoldest): only the winner goes on.
CasOldest(t) ==
  /\ At(t, "drop")
  /\ \/ /\ oldest = ent[t]
        /\ oldest' = ptr[t]
        /\ overrun' = (overrun \/ ptr[t] = Nil \/ valid[ent[t]] # 0)
        /\ Goto(t, "sub")
        /\ UNCHANGED <<ent, ptr>>
     \/ /\ oldest # ent[t]
        /\ ent' = [ent EXCEPT ![t] = Nil]
        /\ ptr' = [ptr EXCEPT ![t] = Nil]
        /\ Goto(t, "idle")
        /\ UNCHANGED <<oldest, overrun>>
  /\ UNCHANGED <<entries, newest, size, msg, listenLocal, panic, log, bytes>>

\* Mutant: the size of the new oldest entry is subtracted.
SubSizeOfNext(t) ==
  /\ At(t, "sub")
  /\ size' = size - (IF ptr[t] = Nil THEN 0 ELSE SizeOf(ptr[t]))
  /\ Goto(t, "stale")
  /\ UNCHANGED <<entries, oldest, newest, msg, ent, ptr, listenLocal, panic,
                 log, bytes, overrun>>

\* Mutant: the subtraction is forgotten.
SubSizeForgotten(t) ==
  /\ At(t, "sub")
  /\ Goto(t, "stale")
  /\ UNCHANGED <<entries, oldest, newest, size, msg, ent, ptr, listenLocal,
                 panic, log, bytes, overrun>>

\* q.size.sub(e.Size())
SubSize(t) ==
  /\ At(t, "sub")
  /\ size' = size - SizeOf(ent[t])
  /\ Goto(t, "stale")
  /\ UNCHANGED <<entries, oldest, newest, msg, ent, ptr, listenLocal, panic,
                 log, bytes, overrun>>

\* Mutant: trim drops one entry, "if" for "for".
StoreStaleOnce(t) ==
  /\ At(t, "stale")
  /\ next' = [next EXCEPT ![ent[t]] = Stale]
  /\ ent' = [ent EXCEPT ![t] = Nil]
  /\ ptr' = [ptr EXCEPT ![t] = Nil]
  /\ Goto(t, "idle")
  /\ UNCHANGED <<body, valid, oldest, newest, size, msg, listenLocal, panic,
                 log, bytes, overrun>>

\* Mutant: the stale mark is forgotten.
StoreStaleForgotten(t) ==
  /\ At(t, "stale")
  /\ ent' = [ent EXCEPT ![t] = Nil]
  /\ ptr' = [ptr EXCEPT ![t] = Nil]
  /\ Goto(t, "check")
  /\ UNCHANGED <<entries, oldest, newest, size, msg, listenLocal, panic, log,
                 bytes, overrun>>

\* e.next.store(&staleEntry)
StoreStale(t) ==
  /\ At(t, "stale")
  /\ next' = [next EXCEPT ![ent[t]] = Stale]
  /\ ent' = [ent EXCEPT ![t] = Nil]
  /\ ptr' = [ptr EXCEPT ![t] = Nil]
  /\ Goto(t, "check")
  /\ UNCHANGED <<body, valid, oldest, newest, size, msg, listenLocal, panic,
                 log, bytes, overrun>>

Appending(t) ==
  \/ LoadNewest(t) \/ CasNewest(t) \/ StoreNext(t) \/ StoreMsg(t)
  \/ AddSize(t) \/ Done(t)

Trimming(t) ==
  \/ CheckSize(t) \/ LoadOldest(t) \/ LoadNext(t) \/ CasOldest(t)
  \/ SubSize(t) \/ StoreStale(t)

-------------------------------------------------------------------------------
(* listener(q, c, quit)                                                      *)

ListenerAt(l, here) == panic = "none" /\ at[l] = here

\* The top of the loop with p.load() = p: a stale entry closes the channel, a
\* nil one faults in e.valid.Wait(), any other is waited for.
Visit(l, p) ==
  \/ /\ p = Nil
     /\ panic' = "listener at a nil entry"
     /\ UNCHANGED <<at, cur>>
  \/ /\ p # Nil
     /\ cur' = [cur EXCEPT ![l] = p]
     /\ at' = [at EXCEPT ![l] = IF p = Stale THEN "closed" ELSE "wait"]
     /\ UNCHANGED panic

\* p = q.oldest, whenever the new goroutine gets to run.
StartListener(l) ==
  /\ ListenerAt(l, "start")
  /\ Visit(l, oldest)
  /\ from' = [from EXCEPT ![l] = oldest]
  /\ UNCHANGED <<entries, oldest, newest, size, appendLocal, quit, log, bytes,
                 got, overrun>>

\* Mutant: the entry is read without waiting for it.
WaitNot(l) ==
  /\ ListenerAt(l, "wait")
  /\ at' = [at EXCEPT ![l] = "select"]
  /\ panic' = IF body[cur[l]] = NoMsg THEN "nil message in queue" ELSE panic
  /\ UNCHANGED <<entries, oldest, newest, size, appendLocal, cur, quit, log,
                 bytes, from, got, overrun>>

\* e.valid.Wait(), then the check for a nil message.
Wait(l) ==
  /\ ListenerAt(l, "wait")
  /\ valid[cur[l]] = 0
  /\ at' = [at EXCEPT ![l] = "select"]
  /\ panic' = IF body[cur[l]] = NoMsg THEN "nil message in queue" ELSE panic
  /\ UNCHANGED <<entries, oldest, newest, size, appendLocal, cur, quit, log,
                 bytes, from, got, overrun>>

\* case c <- e.msg
Send(l) ==
  /\ ListenerAt(l, "select")
  /\ got' = [got EXCEPT ![l] = Append(@, body[cur[l]])]
  /\ at' = [at EXCEPT ![l] = "advance"]
  /\ UNCHANGED <<entries, oldest, newest, size, appendLocal, cur, quit, panic,
                 log, bytes, from, overrun>>

\* case <-quit: the channel c is left open.
Quit(l) ==
  /\ ListenerAt(l, "select")
  /\ quit[l]
  /\ at' = [at EXCEPT ![l] = "quit"]
  /\ UNCHANGED <<entries, oldest, newest, size, appendLocal, cur, quit, panic,
                 log, bytes, from, got, overrun>>

\* Mutant: a listener at a stale entry goes on from the oldest one.
AdvanceResync(l) ==
  /\ ListenerAt(l, "advance")
  /\ Visit(l, IF next[cur[l]] = Stale THEN oldest ELSE next[cur[l]])
  /\ UNCHANGED <<entries, oldest, newest, size, appendLocal, quit, log, bytes,
                 from, got, overrun>>

\* p = e.next
Advance(l) ==
  /\ ListenerAt(l, "advance")
  /\ Visit(l, next[cur[l]])
  /\ UNCHANGED <<entries, oldest, newest, size, appendLocal, quit, log, bytes,
                 from, got, overrun>>

\* The room closes l's quit channel (close(quit) in l_addClient).
CloseQuit(l) ==
  /\ panic = "none" /\ ~quit[l]
  /\ quit' = [quit EXCEPT ![l] = TRUE]
  /\ UNCHANGED <<entries, oldest, newest, size, appendLocal, at, cur, panic,
                 log, bytes, from, got, overrun>>

Listening(l) == StartListener(l) \/ Wait(l) \/ Send(l) \/ Quit(l) \/ Advance(l)

-------------------------------------------------------------------------------
Next ==
  \/ \E t \in Appenders, m \in Msg : Call(t, m)
  \/ \E t \in Appenders : Appending(t) \/ Trimming(t)
  \/ \E l \in Listeners : Listening(l) \/ CloseQuit(l)

Spec == Init /\ [][Next]_vars

\* Goroutines that can run do run: the Go scheduler preempts and is fair, and a
\* write to a client that takes nothing fails at its deadline (then quit closes).
\* New messages and disconnections are the environment's: no fairness.
Fairness ==
  /\ \A t \in Appenders : WF_vars(Appending(t) \/ Trimming(t))
  /\ \A l \in Listeners : WF_vars(Listening(l))

FairSpec == Spec /\ Fairness
-------------------------------------------------------------------------------
(* What the queue must guarantee.                                            *)

AppendPcs == {"idle", "load", "swap", "link", "fill", "add", "done", "check",
              "oldest", "next", "drop", "sub", "stale"}
ListenPcs == {"start", "wait", "select", "advance", "closed", "quit"}
Panics == {"none", "negative wait group", "trim of a nil entry",
           "listener at a nil entry", "nil message in queue"}
Entry == 1..newest

\* Every variable has the type of the code's: oldest may be nil (see overrun),
\* the byte count is a signed number, entries are numbered without holes.
TypeOK ==
  /\ newest \in Nat \ {0}
  /\ next \in [Entry -> Entry \cup {Nil, Stale}]
  /\ body \in [Entry -> Msg \cup {NoMsg}]
  /\ valid \in [Entry -> {0, 1}]
  /\ bytes \in [Entry -> Nat]
  /\ oldest \in Entry \cup {Nil}
  /\ size \in Int
  /\ pc \in [Appenders -> AppendPcs]
  /\ msg \in [Appenders -> Msg \cup {NoMsg}]
  /\ ent \in [Appenders -> Entry \cup {Nil}]
  /\ ptr \in [Appenders -> Entry \cup {Nil, Stale}]
  /\ at \in [Listeners -> ListenPcs]
  /\ cur \in [Listeners -> Entry \cup {Nil, Stale}]
  /\ quit \in [Listeners -> BOOLEAN]
  /\ panic \in Panics
  /\ log \in Seq(Msg)
  /\ from \in [Listeners -> Entry \cup {Nil}]
  /\ got \in [Listeners -> Seq(Msg)]
  /\ overrun \in BOOLEAN

\* Whatever appenders and trimmers do meanwhile, what a listener sent is a run
\* of the room's messages without a gap, a repetition or a swap (listener's
\* walk from q.oldest along e.next).
GapFree ==
  \A l \in Listeners : \A k \in 1..Len(got[l]) :
    /\ from[l] + k - 1 \in 1..Len(log)
    /\ got[l][k] = log[from[l] + k - 1]

\* The panic that listener() guards against, "nil message in queue", and a
\* second Done on an entry never happen: an entry is announced once, by the
\* appender whose swap took it, and after its message was stored.
NoOrderPanic == panic \notin {"nil message in queue", "negative wait group"}

\* The process dies in a queue only after an entry was trimmed that its
\* appender was still filling: trim lacks the check that oldest is valid, and
\* that is the only thing it lacks.
OnlyOverrunPanics == panic # "none" => overrun

\* trim's early return ("Let him do the rest") never leaves the backlog above
\* its limit: once every Append has returned, the count is within maxsize.
BelowLimit ==
  (panic = "none" /\ \A t \in Appenders : pc[t] = "idle") => size <= MaxSize

\* trim's last store: once no Append is running, every trimmed entry holds the
\* stale mark, so that a slow listener keeps no chain of old messages alive.
Reclaimed ==
  (~overrun /\ \A t \in Appenders : pc[t] = "idle") =>
    \A i \in 1..oldest - 1 : next[i] = Stale

\* The bytes of entries that t has swapped in and not counted yet, or trimmed and
\* not uncounted yet: n of them, marked as t's.
BytesOf(t, n) == {t} \X (1..n)

NotAdded ==
  UNION {BytesOf(t, Overhead + Length[msg[t]]) :
           t \in {u \in Appenders : pc[u] \in {"link", "fill", "add"}}}
NotSubtracted ==
  UNION {BytesOf(t, SizeOf(ent[t])) : t \in {u \in Appenders : pc[u] = "sub"}}

\* The byte count at every step, by appenders in any phase: what the list holds,
\* less what was swapped in and is not counted yet, plus what was trimmed and is
\* not uncounted yet (size.add and size.sub around the swaps).
Accounted ==
  ~overrun =>
    size = bytes[newest] - bytes[oldest]
           - Cardinality(NotAdded) + Cardinality(NotSubtracted)

\* The front of the list moves to the successor of the entry it was at, never
\* back and never over one (q.oldest.cas with a loaded e.next), except when an
\* unfinished entry is trimmed.
TrimsInOrder == [][oldest' \in {oldest, oldest + 1} \/ overrun']_vars

\* What TestBacklog asks of one appender at a time: the backlog holds as many of
\* the latest messages as fit, no fewer, and the byte count is exactly theirs.
FullBacklog ==
  (\A t \in Appenders : pc[t] = "idle") =>
    /\ size = bytes[newest] - bytes[oldest]
    /\ oldest > 1 => bytes[newest] - bytes[oldest - 1] > MaxSize

\* Nothing in the queue panics.
NoPanic == panic = "none"

\* Every listener ends up cut off or with every message appended since it
\* started (or the process died): no interleaving strands it on an entry whose
\* successor is there.
CaughtUp ==
  \A l \in Listeners :
    <>[](\/ panic # "none"
         \/ at[l] \in {"closed", "quit"}
         \/ at[l] = "wait" /\ from[l] + Len(got[l]) = Len(log) + 1)

\* Append returns: neither the retry of the swap nor the loop of trim goes on
\* forever (unless the process dies).
AppendReturns ==
  \A t \in Appenders : pc[t] # "idle" ~> (pc[t] = "idle" \/ panic # "none")

-------------------------------------------------------------------------------
(* The inductive invariant behind GapFree, NoOrderPanic, OnlyOverrunPanics    *)
(* and the refinement: it says which entry each thread holds, and what can    *)
(* be relied on about the fields of an entry.                                 *)

\* t has swapped its entry in and has not announced the one before it.
Filling(t) == pc[t] \in {"link", "fill", "add", "done"}

\* The entry i is behind the front of the list: a trimmer's swap went past it.
Trimmed(i) == oldest = Nil \/ i < oldest

\* A filling appender owns the entry its message goes to, and the entry it
\* published is that one's successor.
Owns(t) ==
  /\ pc[t] \in {"load", "swap"} => msg[t] \in Msg
  /\ pc[t] = "swap" => ent[t] \in Entry
  /\ Filling(t) =>
       /\ ent[t] \in 1..newest - 1
       /\ ptr[t] = ent[t] + 1
       /\ msg[t] \in Msg
       /\ msg[t] = log[ent[t]]
       /\ valid[ent[t]] = 1
  /\ pc[t] \in {"fill", "add", "done"} => next[ent[t]] # Nil
  /\ pc[t] \in {"add", "done"} => body[ent[t]] = msg[t]

OwnerInv == \A t \in Appenders : Owns(t)

\* No two of them own the same entry.
ExclusiveInv ==
  \A t, u \in Appenders :
    t # u /\ Filling(t) /\ Filling(u) => ent[t] # ent[u]

\* An entry links to its successor or to nothing, carries the stale mark only
\* when trimmed, and is announced only when linked and filled.
Linked(i) ==
  /\ next[i] \in {Nil, Stale, i + 1}
  /\ next[i] = Stale => Trimmed(i)
  /\ valid[i] = 0 => i < newest /\ next[i] # Nil /\ body[i] = log[i]

EntryInv == Len(log) = newest - 1 /\ \A i \in Entry : Linked(i)

\* A trimmer's entry is never ahead of the front, and what it read from a
\* trimmed entry cannot be swapped in.
Behind(t) ==
  /\ pc[t] \in {"next", "drop"} =>
       ent[t] = Nil \/ oldest = Nil \/ ent[t] <= oldest
  /\ pc[t] = "next" /\ ent[t] = Nil => overrun
  /\ pc[t] \in {"drop", "sub", "stale"} => ent[t] \in Entry
  /\ pc[t] = "drop" => /\ ptr[t] \in {Nil, Stale, ent[t] + 1}
                       /\ ptr[t] = Stale => Trimmed(ent[t])
  /\ pc[t] \in {"sub", "stale"} => Trimmed(ent[t])

TrimInv == \A t \in Appenders : Behind(t)

\* A listener's entry is the one after what it sent, and was announced if the
\* listener is past its wait.
Follows(l) ==
  /\ at[l] = "start" => from[l] = 0 /\ got[l] = <<>>
  /\ at[l] \in {"wait", "select", "advance"} =>
       /\ cur[l] \in Entry
       /\ from[l] \in Entry
       /\ cur[l] = from[l] + Len(got[l]) - (IF at[l] = "advance" THEN 1 ELSE 0)
  /\ at[l] \in {"select", "advance"} => valid[cur[l]] = 0

ListenInv == \A l \in Listeners : Follows(l)

PanicInv ==
  /\ NoOrderPanic
  /\ panic # "none" => overrun
  /\ oldest = Nil => overrun

IInv ==
  /\ TypeOK /\ OwnerInv /\ ExclusiveInv /\ EntryInv
  /\ TrimInv /\ ListenInv /\ GapFree /\ PanicInv

-------------------------------------------------------------------------------
(* The inductive invariants behind Reclaimed and BelowLimit, and what the     *)
(* history variable bytes holds.                                             *)

\* As long as nothing was overrun, a trimmed entry was announced, so nobody links
\* it any more, and it is stale or in the hands of the trimmer that makes it so.
Tidy(i) ==
  /\ valid[i] = 0
  /\ \/ next[i] = Stale
     \/ \E t \in Appenders : pc[t] \in {"sub", "stale"} /\ ent[t] = i

TidyInv == ~overrun => \A i \in 1..oldest - 1 : Tidy(i)

\* t will look at the byte count again, or win the swap that leads there unless
\* somebody else does.
WillLook(t) ==
  \/ pc[t] \in {"done", "check", "oldest", "sub", "stale"}
  \/ pc[t] \in {"next", "drop"} /\ ent[t] = oldest

LimitInv == size > MaxSize => \E t \in Appenders : WillLook(t)

BytesInv ==
  /\ bytes[1] = 0
  /\ \A i \in 1..newest - 1 : bytes[i + 1] = bytes[i] + Overhead + Length[log[i]]

\* At no time are infinitely many bytes on their way.
AccountInv ==
  ~overrun => IsFiniteSet(NotAdded) /\ IsFiniteSet(NotSubtracted) /\ Accounted

-------------------------------------------------------------------------------
\* The queue as its listeners see it: BroadcastLog with the order of the swaps.
FeedState ==
  [l \in Listeners |-> CASE at[l] = "start" -> "new"
                         [] at[l] \in {"closed", "quit"} -> "cut"
                         [] OTHER -> "open"]

Feed == INSTANCE BroadcastLog WITH state <- FeedState

\* Listeners see one order of the messages, each from some point of it on and
\* without a gap, until they are cut off: the queue implements BroadcastLog as
\* long as it does not fault.
ImplementsFeed == Feed!AbsSpec

================================================================================
