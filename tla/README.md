# websockethub in TLA+

Websockethub is a chat hub: a Go server (`src/hub`) to which browsers connect by
websocket, each naming a room, and which echoes every text message to everybody
in that room, the latest ones also to those who come later. A JavaScript widget
(`src/static`) puts a chat room in a page, `src/www` is the site, and
`src/stresstest` a load generator.

The project specifies the hub from its atomic operations up to its list of
rooms, and the widget's event handlers; checks them with TLC on small instances;
and proves every safety property it checks of them for all instances with TLAPS.

To check a run: `tlc -config <run>.cfg <module>`; to check the proofs:
`tlapm <module>` for `MessageQueueProofs.tla`, `BacklogProofs.tla`,
`SafeValsProofs.tla`, `ChatRoomProofs.tla`, `ServerProofs.tla`, `WidgetProofs.tla`
and `PanelProofs.tla`.

## The system

| part | state | operations | hard because |
|---|---|---|---|
| message queue (`messagequeue.go`) | a linked list with an oldest and a newest end, a byte count | `Append`, `trim`, `Listen`/`listener` | lock-free: any number of appenders, trimmers and listeners meet at single loads, stores and swaps |
| atomic values (`safevals.go`) | one machine word each | load, store, add, sub, inc, dec, cas | subtraction is an addition of the complement |
| chat room (`chatroom.go`) | a map of clients under a lock, two counters, the queue | `l_addClient`, `l_delClient`, `l_sendToClient`, `handleNewMsg`, `Close` | four goroutines for each connection, and those of a purge, may each end it |
| client (`client.go`) | the websocket, a channel `closed` | `Close`, `WaitUntilClosed`, `readMessage`, `writeMessage` | closed from several goroutines; write deadline |
| server (`groupchatserver.go`) | an LRU cache of rooms, a set of room names | `handleHub`, `handleWebsocket`, `handleRooms`, `OnPurge` | rooms are purged while peers are on their way in; names change in goroutines of their own |
| widget, connection (`chatroomwidget.js`) | connection state, input, countdowns, title | event handlers and timers of a page | events of websocket, user, timers and page visibility come in any order |
| widget, handling (`chatroomwidget.js`) | size, forms, focus, wrappers of the click handler, nickname | clicks, drags, commands, script loading | click handlers are wrapped while in use; the storage of the nickname outlives the page, is shared by tabs and may refuse |
| bookmarklet (`chatroombookmarklet.js`) | the stored nickname | `setDefaultName`, loading the widget | runs in pages of others |
| page, stress test | none that matters here | | |

How they interact. `handleHub` upgrades a request and starts a goroutine, the
*reader*, which gets a room from the cache (opening it on a miss, which may purge
another one), enters it with `l_addClient`, and reads until the websocket fails.
`l_addClient` starts a *watcher* (closes `quit` once the client is closed) and a
*sender* (writes what comes over the channel `msgs`), and `Listen` starts a
*listener* (walks the queue and feeds `msgs`). A message read goes to
`handleNewMsg`, which appends it to the queue, and from there through every
listener and sender to every websocket. A reader that fails closes the client and
removes it from the room; a sender that fails removes it, which closes the
websocket, and closes the client; a purge removes every member. In all three
cases the other goroutines find out one by one.

What makes each part correct:

* queue: all listeners agree on one order and see a run of it without a gap; the
  byte count is right; the backlog is within its limit; nothing panics; nobody
  waits for ever;
* room: what is written to a websocket is a gap-free run of the room's messages;
  map, count and websockets agree; a connection that ends anywhere ends
  everywhere; a healthy one gets everything;
* server: the same name leads to the same room; a purge leaves nobody behind; the
  list shows the open rooms; no more rooms are open than allowed;
* widget, connection: the state shown is the connection's; no text is lost
  unseen; `/quit` quits; the page gets its title back;
* widget, handling: a click changes the size and the end of a drag does not, the
  right edge stays; who maximizes it can type; nobody talks without a name by
  accident; the name chosen last comes back.

## The modules

| module | models | state and actions |
|---|---|---|
| `BroadcastLog` | what a queue promises its listeners, and a room its clients | one `log`, and a feed per listener that opens, follows it, and may be cut |
| `MessageQueue` | `messagequeue.go` on `safevals.go` | entries numbered in the order in which they are published; one action per load, store, add, or swap |
| `SoloQueue` | the queue as its sequential tests use it | EXTENDS `MessageQueue`; a history variable telling if calls of `Append` ever overlapped |
| `MCMessageQueue`, `MCSoloQueue` | instances | message lengths |
| `MessageQueueProofs` | theorems on `MessageQueue`: order and refinement | |
| `BacklogProofs` | theorems on `MessageQueue` and `SoloQueue`: trimming and counting | |
| `SafeVals` | the counters of `safevals.go` | words that wrap around; no state |
| `SafeValsProofs` | theorems on `SafeVals` | |
| `ChatRoom` | `chatroom.go`, `client.go`, the reader loop | EXTENDS `BroadcastLog` for its queue and `SafeVals` for its counters; one action per step of reader, sender, watcher, listener, purge |
| `MCChatRoom` | instances | |
| `ChatRoomProofs` | theorems on `ChatRoom` | |
| `Server` | rooms and names of `groupchatserver.go` | cache, members, and the goroutines of openings and purges, however late |
| `MCServer` | instances | |
| `ServerProofs` | theorems on `Server` | |
| `Widget` | connection, input, `/quit` and title of `chatroomwidget.js` | one action per handler call |
| `MCWidget` | instances | |
| `WidgetProofs` | theorems on `Widget` | |
| `Nickname` | names and storage of the widget and the bookmarklet | operations on the stored name, the name in use, and the name form |
| `Panel` | size, forms, focus and dragging of `chatroomwidget.js` | EXTENDS `Nickname`; one action per handler call |
| `MCPanel` | instances | |
| `PanelProofs` | theorems on `Panel` | |

`MessageQueue` implements `BroadcastLog` (checked and proved), and `ChatRoom`
uses `BroadcastLog` in the place of the queue. So the room is checked with
atomic queue operations, and the queue justifies that they may be taken as such.
And the room in its turn, with `wire` for what its clients got, implements
`BroadcastLog` again (`WiresFollowLog`, checked and proved): from the swap of
`q.newest` to the websocket nothing is lost, repeated or swapped.
`Server` in turn takes a room to be a set of members and leaves the goroutines in
it to `ChatRoom`. `Widget` and `Panel` are two halves of one program that share
next to nothing: the connection's handlers do not look at size, forms or nickname
(a message is sent as one text, whoever it is from), and those of the widget's
handling do not look at the connection. What they share, the message input, is
its text in `Widget` and its keyboard focus in `Panel`.

### MessageQueue

An entry is a number, given when the swap of `q.newest` makes it visible; this
hides nothing, since an entry not yet swapped in is known to its appender alone.
The number is an address only: which entry comes after which is what `next` says.
`next`, `body`, `valid` are an entry's fields, `valid` being the count of its wait
group. `Nil` is the nil pointer and `Stale` the address of `staleEntry`.
Each appender has a program counter named for what it does next, and the locals
`ent` (`oldnewest`, then `oldoldest`) and `ptr` (`newp`, then `newoldest`); each
listener has one too, and its entry `cur`. The plain reads `p = q.oldest` and
`p = e.next` are modelled as one load at that moment, which is what the build
does on a machine whose words are read at once. Following a nil pointer, a nil
message and a wait group below zero are panics, after which the process takes no
step. `log`, `bytes`, `from`, `got` and `overrun` are history: the order of the
swaps, the bytes before each entry, each feed's start and contents, and whether
an entry was ever trimmed that was not finished.

### ChatRoom

The limit in bytes is a number of messages (`Backlog`): the queue keeps the latest
`Backlog` messages, as it does when no two calls overlap (`FullBacklogAlone`). That
is an idealisation of when a listener falls behind, and no property depends on it:
they hold, or fail, for any backlog. Websockets are external
(gorilla/websocket): `raw` is the hub's end, `peer` the state of the other, which
may leave, take no more bytes (until the write deadline), or send a frame that is
not text. `client.Close` is two steps, the look and the close, as in the code.
What happens under the room's lock is one step. The hub is in verbose mode, which
is where it counts its members, as `TestClientCount` does.

### Server

Cache and set (`hraban/lrucache`, `deckarep/golang-set`) are external. The cache
serves one call at a time, and `OnMiss`, the insertion and the purge of another
room are one step of it. The goroutines that add and remove a name and those that
remove the members of a purged room are steps of their own, in any order and as
late as may be. Each element of `purge` is such a goroutine, bound to a client and
its room as in `cr.Close`; the peer may have left meanwhile, and be in another room
or on its way, and then the goroutine does nothing (`PurgeClient`).

`overtaken` is history: the names for which the goroutine that ran last, adding or
removing, ran after one that was started later (`AddRan`, `RemoveRan`, `LaterRan`
say which have run). Nothing but that can make the list wrong, which is what
`ListedUnlessOvertaken` says of any number of openings and purges of a name, and an
error lasts until a goroutine runs for the name that was not overtaken.

A request without a room name is answered with an error and goes on; the empty
name is among the `Names`. Two peers' websockets from one browser are two peers.

### Widget

The browser's websocket is external (`sock`): it opens or fails, is closed by the
hub or the page, an error is followed by a close, and one closed while still
connecting ends in an error. A text is an atom; what the handlers do with it
(send, refuse, drop) is modelled. The title is a number: how often it starts with
"new messages - ". `/quit` with an argument that never gets to zero exactly is the
argument 0. The message about the connection has a text, which the handlers set,
and is shown by the style sheet unless the widget's state is connected
(`ConnMsgShown`). `QuitCloses` is about arguments above 0, and about no others: those
that never get to zero exactly count on for ever, and no text says what they should
do.

### Nickname and Panel

`myname`, the cached name and the text of the name form are those of the code.
The storage is external: it lets a page in or throws, outlives the page (`Leave`
keeps it), and other tabs use it too (`ElsewhereNamed`, `ElsewhereBookmarklet`).
Nothing locks it across tabs, so that each access is a step: the bookmarklet's
`setDefaultName` reads (`GetDefault`) and writes (`StoreDefault`), and between the two
`fetched` holds what it has read. In this tab nothing comes between, since it runs one
script at a time (`script` is "naming"), in other tabs anything may. All of the other
tabs are one, which is about to store one name at a time. `chosen` and `raced` are
history: the name that a tab was given last, and whether a bookmarklet had read
another one by then and not yet stored it.

`win` is what the handlers change in the document: the class that makes the
widget small, the config screen (with the name form only until the first OK), the
inputs that carry `focusMeOnMaximize`, and where the browser has the keyboard.
Which input can be reached follows from the style sheet (`FormShown`,
`AdvancedShown`, `InputShown`); the config screen covers the message input, which
keeps a pointer away from it and the Tab key not.

jQuery UI's dragging is external: while the user moves the widget it tells every
wrapper that was there when the drag began, and a click follows if the button is
let go over the minifier. `flags` is the variable `dragged` of each wrapper that
`makeDraggable` put around the click handler, in the order in which they were
made; `left` is the style property in a unit of 100 px; `held` and `strayed` say
whether a drag is on or ended elsewhere. A page has a jQuery UI of its own or has
not (`pageUI`), which is decided anew when the user comes to another page of the
site. `BuildFails` is `chatroomwidget_main` catching an error of
`chatroomwidget_main_aux` and cleaning up.

Two properties have a condition, for without it the code does not keep them (see
"What was found"). `ClickToggles` is about pages that have no jQuery UI of their own;
of the first click after a drag that ended elsewhere it says that it is lost, and
changes nothing. `NameReturns` excepts a name given while a bookmarklet was about to
store another one (`raced`); every other order of the accesses is in it.

### SafeVals

`Sub` adds `Complement` of the predecessor, as `sub` in `safevals.go` does with
`^`, modulo the size of a word. `ChatRoom`'s `Counted` rests on it: the count of
clients is kept by `Inc` and `Dec`.

## The runs

| run | shows | bounds |
|---|---|---|
| `mq_concurrent` | types; gap-free feeds; the panics the code guards against do not happen; the only way to die is an overrun; the byte count at every step; the limit and the stale marks when at rest; trimming in order; exact backlog and no panic while calls do not overlap; the queue implements `BroadcastLog` | 3 appenders, 1 listener, 3 messages of 0, 1 and 3 bytes, overhead 2, limit 5 |
| `mq_live` | `Append` returns; no listener is stranded | 2 appenders, 1 listener, 3 messages, limit 4 |
| `mq_trim_unsafe` | a violation: trim follows nil | as before |
| `room_safe` | what is written to the websockets implements `BroadcastLog`; map, count and websockets agree; a handler that returned left nothing behind | 2 connections, 2 messages, a backlog of 1, peers that leave, purge |
| `room_live` | every failure takes the connection down completely | 1 connection, 3 messages |
| `room_echo` | everything is delivered to who stays and keeps up | 2 connections, 2 messages, purges |
| `room_double_close` | a violation: `closed` is closed twice | 1 connection, 2 messages |
| `room_deaf` | a violation: a member that fell behind never hears anything again | 1 connection, 2 messages |
| `server_safe` | same name, same room; a purge leaves nobody behind who was there; the list is right about a name unless its last goroutine was overtaken | 2 peers, 3 names, 2 rooms, 4 openings |
| `server_too_many` | a violation: more rooms than allowed | 3 peers, 3 names, 2 rooms, 4 openings |
| `widget` | the state shown is true and errors stay; typed texts are accounted for; title; countdowns end; drops are told | 3 texts, one of them an unknown command; 2 countdowns from 0, 1, 2 |
| `panel` | a click toggles and a drag does not, whenever it became draggable; the keyboard is where one can type; the last name comes back but for a lost race; nobody is nameless but by the Tab key | 2 nicknames, 1 other tab, 1 place to drag to, 2 scripts that each may report more than once |

Why the bounds are enough. Queue: three appenders let one be stuck in the middle
of its entry while two others race to trim it; the messages' sizes differ, so that
a wrong amount shows, and sums meet the limit exactly (2 + 3) as well as exceed it
by one entry and by two. One listener suffices for safety, since listeners write
nothing that anybody else reads. Room: two connections are the least where one's
end could disturb the other; a backlog of 1 makes falling behind a matter of two
messages. Where only safety is asked, a peer that is gone stands for the other
failures: reading and writing may fail, need not, and none of the others allows
more. Liveness of the teardown concerns one connection and its goroutines; 3
messages let it fall behind before it fails. Server: the third name purges a room,
the fourth opening brings a purged name back while the goroutines of its first time
may still be on their way; two peers suffice, one in a room while the other opens and
purges, or both on their way to one name, and three peers, one more than places, are
needed for `server_too_many` only.
Widget: a second countdown finishes before or after the first. Panel: nothing
is bounded but what the user can choose from; two names tell the last from the
one before, and one place, left of where the widget starts, tells whether it was
moved (the distance is never compared but with itself a step before). `left` has
finitely many values because both wrappers undo what they add.

Deadlock checking is on in `panel`, where the user can always go on. It is off in
all other runs: hub and page stop when no message, peer or key is left, and the
models do when the bounded supply of messages, openings or texts is used up. `AppendReturns`, `CaughtUp`, `TornDown` and `Delivered` are what
says that nobody is stuck.

The bounds themselves: each element of `Msg` is one call of `Append`
(`MessageQueue`, `ChatRoom`); `MaxOpened` in `Server`; each element of `Texts`
once and `MaxQuits` in `Widget`; `Modulus` (`SafeVals`) stands for 2^32. That a
room sees fewer connections than that is the assumption `NumbersSuffice` of
`ChatRoom`: a client number taken a second time would put one client over another
in the map.

### Fairness

`MessageQueue` and `ChatRoom`: weak fairness of each goroutine, for Go's scheduler
runs every goroutine that can run. Nothing is assumed of peers, of the arrival of
messages or of purges. That a blocked write ends is the write deadline of
`client.writeMessage`; in `MessageQueue` a send on the channel is always possible
for the same reason (the other end takes it, or closes `quit`). Weak fairness of
the retry loop is enough for `AppendReturns`, because every failed swap means that
another appender's swap succeeded and there are finitely many messages in the
model; with an endless stream of messages an appender could lose for ever.
`Widget`: timers fire, and a websocket that is ending reports its end.

## What is proved

### The queue

`MessageQueueProofs` and `BacklogProofs` prove, for any number of appenders,
listeners and messages, any lengths, any overhead above zero and any limit
(`QueueAssumption`, the only assumption), everything that `mq_concurrent` checks;
three of the theorems are for limits that are not negative.

`MessageQueueProofs`, on order:

* `TypeCorrect`, `FeedsHaveNoGaps`, `AnnouncedOnceAndFilled`, `OnlyOverrunsKill`:
  the invariants `TypeOK`, `GapFree`, `NoOrderPanic`, `OnlyOverrunPanics`;
* `TrimsAreInOrder`: the action property `TrimsInOrder`;
* `QueueImplementsFeed`: `ImplementsFeed`, the refinement of `BroadcastLog`.

The argument. None of these is inductive: that a feed has no gaps rests on what an
entry's `next` can be, and that on who may write it. `IInv` adds

* `OwnerInv`: an appender between its swap and `Done` holds the entry that its
  message belongs to, not yet announced, and the next one is its successor;
* `ExclusiveInv`: no two of them hold the same one, so nobody's entry is changed
  under his hands and `Done` comes once;
* `EntryInv`: there is one entry for each message in the order, and one empty one;
  an entry links to its successor or nothing, is stale only when trimmed, and is
  announced only when linked and filled with the message of its place;
* `TrimInv`: a trimmer's entry is never ahead of the front, and a successor read
  from a trimmed entry loses the swap;
* `ListenInv`: a listener's entry is the one after what it has sent, and is
  announced once the listener is past its wait;
* `PanicInv`: a panic, or a front that is nil, means an overrun.

There is a lemma for each atomic operation, which shows that it keeps every part of
`IInv`, and one that it is a step of `BroadcastLog` or none. The swap of
`q.newest` is `Publish`; the first load of `q.oldest` is `Open`; the send is
`Hand`; the step onto a stale entry and the return on `quit` are `Cut`. The proof
needs no assumption that trimming is safe: after an overrun the feeds are still
right as far as they got, which is more than could be hoped from the code.

`BacklogProofs`, on trimming and counting:

* `TrimmedIsMarked` (`Reclaimed`), by `TidyInv`: as long as nothing was overrun, a
  trimmed entry was announced, so that no appender stores a link over its stale
  mark; it has the mark or is held by the trimmer that is about to give it;
* `BacklogWithinLimit` (`BelowLimit`), by `LimitInv`: while the count is over the
  limit somebody will look at it again. A trimmer that gives up because another won
  the swap is not needed, since that other one will subtract and look; one whose
  entry is still the front wins unless somebody else does;
* `CountIsAccounted` (`Accounted`), by `AccountInv`. The count is off by what the
  appenders have swapped in or trimmed and not counted yet, a sum over appenders
  of which the proof knows no number. It is stated as the size of a set: each byte
  on its way is an element, marked with its appender. An appender's step adds all
  its bytes to the set or takes them all out of it (`Cardinality` of a disjoint
  union), and the two sets are finite at every step, though there may be infinitely
  many appenders that have not begun;
* `BacklogIsFullAlone` (`FullBacklogAlone`) and `NothingPanicsAlone`
  (`NoPanicAlone`), by `AloneInv`: an `Append` that is alone finds all entries
  announced but the last, the front where it left it, and a count that is off by
  its own entry at most. So it trims only while the list holds more than the limit,
  which an empty list does not, and never follows a nil link.

`BacklogWithinLimit` and the last two have the hypothesis that the limit is not
negative: with a negative `-backlog`, which the code takes, `BelowLimit` is false
of the empty queue and `NoPanicAlone` at the first or the second message.

### The chat room

`ChatRoomProofs` proves everything that `room_safe` checks, for any connections,
messages and backlog (`RoomAssumption`, `WordAssumption`).

Messages: `TypeCorrect` (`TypeOK`) and `WiresFollow` (`WiresFollowLog`). `FeedInv`
says of every feed that it is a run of the log, `SpawnInv` that a sender runs from
the moment its reader has started it, and `WireInv` that the sender has written
what the listener handed over, but for the one message it may hold. A step that
writes is `Hand`, `FallBehind` and the end of a sender are `Cut` or no step at all,
depending on who is first.

The map: `ClosedWithRemoval` (`ClosedIffRemoved`) and `GoneForGood` (`GoneIsGone`),
which rest on `NumbersSuffice` too. `NumberInv` says that everybody has a number of
his own, `SlotInv` that a client in the map is there under it, so that
`l_delClient`, which removes by number, never removes another; `StageInv` that
nobody is purged or closed before being in the map; `ExitInv` what a reader on its
way out has done. Without the first two, `ClosedIffRemoved` is not inductive.

The count: `MembersAreCounted` (`Counted`). Each step that changes the map adds or
removes one element of `Members`, each step of `l_addClient` one of `Uncounted`, and
`Inc` and `Dec` follow modulo the word (`IncIs`, `DecIs` of `SafeValsProofs`). That
the difference may be negative, where a client is removed before it was counted, is
why the statement is one modulo the word and not about natural numbers.

### The rooms and their names

`ServerProofs` proves, for any number of peers, names and rooms
(`ServerAssumption`, the only assumption), all four invariants of `server_safe`:
`TypeCorrect` (`TypeOK`, with the cache's limit in it), `SameNameMeetsInOneRoom`
(`SameNameSameRoom`), `OnlyLateOnesStay` (`OnlyLateStay`) and
`ListIsRightUnlessOvertaken` (`ListedUnlessOvertaken`).

The argument. Two lemmas say what the cache does: a hit permutes it
(`RefreshKeeps`), a miss adds one room and takes out at most one, whose members are
then in `purge` (`OpenRoomCache`). Around them `IInv` (in `Server`) is inductive:

* `JoinedInv`: a peer past the cache was given a room of the name it asked for;
* `LatestInv`: a room in the cache is the last that was opened with its name, so
  that no two have one name. With `JoinedInv` and `OnlyLateStay` this gives
  `SameNameSameRoom`: whoever is neither late nor about to be purged is in a room of
  the cache, and of that name there is only one;
* `ListInv`: no room in the cache waits for its name to be removed; and a name that
  is not overtaken is on the list exactly if there is a room of that name for which
  the adding goroutine ran, the removing one did not, and none for a later room did.
  The list is thus what the latest goroutine that ran has made of it, at every step
  and not only when all have run. When they have, that room is the last one opened
  with the name, and it is in the cache, since otherwise its removal would be done
  or waiting; that is `ListedUnlessOvertaken`.

### The counters

`SafeValsProofs` proves, for words of any size (`WordAssumption`: more than one
word), that `sub` subtracts (`SubSubtracts`), zero included, where the predecessor
itself wraps around, and that `inc` and `dec` undo each other in either order
(`DecUndoesInc`), so that members who come and go at once leave the right count.
`ComplementOfPred` is the step between: the complement of the predecessor is what
is missing to the next multiple of the modulus.

### The widget's connection

`WidgetProofs` proves, for any texts, any number of countdowns and any arguments of
`/quit` (`WidgetAssumption`), all invariants of `widget` and its action property:
`TypeCorrect` (`TypeOK`), `StateShownIsTrue` (`StateIsTrue`), `ErrorsStick`
(`ErrorSticks`), `GoneKeepsNoConnection` (`GoneIsClosed`), `TextsAreKept`
(`TextInOnePlace`), `TitleComesBack` (`TitleRestored`) and `NewsIsTold`
(`NewsBlinks`).

The argument. `IInv` (in `Widget`) is inductive, in three parts that hardly touch:

* `SockInv` gives for each state of the websocket what the node may show.
  `StateIsTrue` leaves out the states in which a call of `close` is not yet
  reported, and is not inductive without them; `ErrorSticks` needs that an open
  websocket is never one that had an error;
* `TypedInv`: what was sent, dropped or is in the input was typed, so that a text
  typed anew is in none of these places yet;
* `BlinkInv`: only the interval changes the title, it runs only while the page is
  hidden, and the title it will put back is the page's own. The last is what a
  second start of the blinking could break.

### The widget in the user's hands

`PanelProofs` proves, for any nicknames and any places (`NicknameAssumption`,
`PanelAssumption`), everything that `panel` checks: `TypeCorrect` (`PanelTypeOK`),
`NamelessTakesTab` (`NamelessOnlyByTab`), `ChosenNameReturns` (`NameReturns`),
`MaximizedCanType` (`MaximizeFocuses`), `DraggingKeepsSize` (`DragKeepsSize`) and
`ClicksToggle` (`ClickToggles`).

The argument. `IInv` (in `Panel`) is inductive; each part has its lemma:

* `NothingYet`: before it is built the widget is as a new one will be, so building
  starts from a known state whatever the widget before it was like;
* `FocusInv`: exactly one input is the one to focus, the one of the form that was
  not yet answered, and the message input is not reached before a name is chosen;
* `StorageInv`: a storage that works holds the name chosen last, and no bookmarklet is
  about to store another one, as long as none was when that name was given. The second
  half is what makes it inductive: a bookmarklet that reads the storage later gets the
  name chosen last itself;
* `WrapInv`: as many wrappers as times the widget was made draggable, at most
  two, which rests on script events counting once;
* `FlagInv`: a wrapper that is in a drag has its flag set, and a lone one has it
  set from a drag to the next click and at no other time. The first part gives
  `DragKeepsSize` for two wrappers too; the second gives `ClickToggles`, where there is
  but one: the click after a stray drag finds the flag set and is lost, any other
  finds it clear and toggles.

### Only model-checked

Liveness, which is out of the prover's reach: `CaughtUp` and `AppendReturns` of the
queue, `TornDown` and `Delivered` of the room, `QuitCloses` and `DropIsTold` of the
widget.

## What was found

* `trim` (messagequeue.go:59) is not "safe for concurrent calls": with two
  appenders over the limit one trims the entry the other is filling, `q.oldest`
  becomes nil, and the next round dereferences it (`mq_trim_unsafe`). It is
  the only fault: `OnlyOverrunPanics` is proved.
* `client.Close` (client.go:51) can close its channel twice and take the hub down
  (`room_double_close`). Model-checking goes on beyond: `panic` ends the
  behaviour, and all else is shown of behaviours where the race is not lost.
* A member that fell behind stays a member, is read, and hears nothing
  (`room_deaf`). In the run's one connection the message it misses is its own; the
  queue makes no difference between its own and those of others.
* A peer given a room that is purged before it enters lives on in it, outside the
  cache and beyond the maximum (`server_too_many`).

Seen while modelling, with no run. In the hub:

* an open room can be missing from the list when its name was purged and opened
  again, and a closed one can stay on it, each until the next goroutine for that name;
  groupchatserver.go:51 calls the set "best-effort", and `ListedUnlessOvertaken` says
  when it is right;
* a busy room is purged before a silent one whose members came later, since only
  connecting counts as use in the cache (groupchatserver.go:64);
* a listener that returns on `quit` leaves its sender waiting for ever
  (messagequeue.go:113);
* the flags `-timeout` and `-gomaxprocs` have no effect (groupchatserver.go:133,
  152-154);
* with a negative `-backlog` the first message empties the list of the queue and stores
  the nil link of its last entry as the oldest; this call follows it if the limit is
  below the negative of an entry's overhead, and otherwise that of the second message
  does (messagequeue.go:55);
* a request without a room is answered 400 and goes on (groupchatserver.go:93).

In the bookmarklet (chatroombookmarklet.js:22-24):

* a name that is given in another tab between `getItem` and `setItem` is overwritten
  by the one stored before (`NameReturns` excepts this case, and no other).

In the widget (`chatroomwidget.js`):

* where the page has a jQuery UI of its own, the button "make draggable" wraps the
  click handler a second time (line 302): the click that ends a drag resets one of
  two flags, the next one is swallowed by the other, and every change of size
  moves the right edge twice;
* after a drag that ends elsewhere than over the minifier, the next click on it is
  taken for the end of the drag;
* the name form keeps the text it had: OK after `/config` undoes an earlier `/nick`;
* after `/config`, maximizing the widget focuses the message input, which the
  config screen covers; and before a name is chosen the Tab key leads there, and
  what is sent then starts with "undefined: ";
* `/quit 0` never quits, and no `/quit` does when the websocket could not be
  constructed (lines 494, 718);
* a nickname that is not a regular expression hides the messages of others
  (line 681);
* whether the widget is minimized is also asked at line 667 by a comparison with
  the whole class name, which is never equal, for `cleanslate` is part of it;
* the comment at line 747 names the setting `roomname`, the code reads `room`;
* with an AMD loader in the page the script only defines a module, so that the
  bookmarklet shows nothing; a widget that could not be built leaves its style
  node; `urlify` puts a second "http://" before "HTTP://".

## What is not modelled

* `main`, flag parsing and `passwordProtect`: no state.
* Wrapping of the client numbers: a room would have to be joined 2^32 times
  (`NumbersSuffice`). That the counters wrap right is proved, see `SafeValsProofs`.
* HTTP: static files, the upgrade's handshake, `handleRooms`' JSON (its set of
  names is `Rooms`).
* Of the widget what keeps no state that a handler reads: the style sheet beyond
  what it hides, scrolling, `urlify` and the markup of messages, the address of
  hub and room as put together from the settings, the notes for developers, and
  `makeResizable`, which returns at once. Two widgets in one page: they would
  share the ids of their elements.
* A page that changes its own title while the widget makes it blink.
* The page `src/www`: static text, and `base.js`, which folds its sections.
* The stress test: a dispatcher and workers that send and hang up.

## Plan

1. A hub of several rooms: `Server` with `ChatRoom`'s teardown in place of its
   atomic `DelClient`, and a proof that what `Server` says of rooms survives it.
2. The stress test's exit code.
