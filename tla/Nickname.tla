------------------------------- MODULE Nickname -------------------------------
(***************************************************************************)
(* The nickname and where it is kept: the functions for names and storage  *)
(* of static/chatroomwidget.js, and static/chatroombookmarklet.js, which   *)
(* stores a default name before it loads the widget.                       *)
(*                                                                         *)
(* The browser's storage outlives the page and is shared by all tabs of    *)
(* the site; it may also refuse every access, which throws.  Each access   *)
(* is a step of its own, since nothing locks the storage across tabs.      *)
(* Operations here are called by the handlers of Panel.tla.                *)
(***************************************************************************)
CONSTANTS
  Nicks,       \* nicknames, those the widget may suggest included
  NoName,      \* the empty name, and that of a storage that holds none
  Unset        \* myname before one was chosen; JavaScript's undefined

ASSUME NicknameAssumption ==
  /\ Nicks # {}
  /\ NoName \notin Nicks /\ Unset \notin Nicks /\ NoName # Unset

VARIABLES
  storageOk,   \* does the browser let the page use its storage?
  cached,      \* what is stored under LOCALSTORAGE_KEY_NAME
  fetched,     \* per tab: the name setDefaultName has got and not yet stored
  myname,      \* the nickname in use
  formName,    \* the text in the input of the name form
  chosen,      \* history: the last name that a tab of this site was given
  raced        \* history: was that while a tab was about to store another one?

Tabs == {"here", "elsewhere"}   \* the tab of this page, and the other tabs

stored == <<storageOk, cached, fetched, chosen, raced>>
names  == <<stored, myname, formName>>

InitNames ==
  /\ storageOk \in BOOLEAN
  /\ cached = NoName /\ chosen = NoName
  /\ fetched = [t \in Tabs |-> Unset] /\ raced = FALSE
  /\ myname = Unset /\ formName = NoName

NamesTypeOK ==
  /\ storageOk \in BOOLEAN /\ raced \in BOOLEAN
  /\ cached \in Nicks \cup {NoName} /\ chosen \in Nicks \cup {NoName}
  /\ fetched \in [Tabs -> Nicks \cup {NoName, Unset}]
  /\ myname \in Nicks \cup {NoName, Unset}
  /\ formName \in Nicks \cup {NoName}

\* History: a tab was given the name n.
RecordChoice(n) ==
  /\ chosen' = n
  /\ raced' = \E t \in Tabs : fetched[t] \notin {Unset, NoName, n}

\* setCachedNameSafe: a storage that throws is ignored.
SetCachedNameSafe(n) == cached' = IF storageOk THEN n ELSE cached

\* setName: for this page at once, for later ones if it can be stored.
SetName(n) ==
  /\ myname' = n
  /\ SetCachedNameSafe(n)
  /\ RecordChoice(n)
  /\ UNCHANGED <<storageOk, fetched, formName>>

\* Another tab of the site stores a name.
SetNameElsewhere(n) ==
  /\ storageOk
  /\ cached' = n
  /\ RecordChoice(n)
  /\ UNCHANGED <<storageOk, fetched, myname, formName>>

\* What the name form of a new widget starts with: getCachedNameSafe() or, for
\* want of one, suggestName().
Proposed == IF storageOk /\ cached # NoName THEN {cached} ELSE Nicks

\* Mutant: name || getItem(...), the site's name first.
GetDefaultSiteFirst(tab, site) ==
  /\ storageOk /\ fetched[tab] = Unset
  /\ fetched' = [fetched EXCEPT ![tab] = IF site # NoName THEN site ELSE cached]
  /\ UNCHANGED <<storageOk, cached, chosen, raced, myname, formName>>

\* The bookmarklet's setDefaultName reads the storage, getItem(...) || name, where
\* name is that of the user's account on this site, or NoName.
GetDefault(tab, site) ==
  /\ storageOk /\ fetched[tab] = Unset
  /\ fetched' = [fetched EXCEPT ![tab] = IF cached # NoName THEN cached ELSE site]
  /\ UNCHANGED <<storageOk, cached, chosen, raced, myname, formName>>

\* ... and writes what it got back, if that is a name.
StoreDefault(tab) ==
  /\ fetched[tab] # Unset
  /\ cached' = IF fetched[tab] # NoName THEN fetched[tab] ELSE cached
  /\ fetched' = [fetched EXCEPT ![tab] = Unset]
  /\ UNCHANGED <<storageOk, chosen, raced, myname, formName>>

===============================================================================
