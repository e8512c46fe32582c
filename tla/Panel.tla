--------------------------------- MODULE Panel ---------------------------------
(***************************************************************************)
(* The widget as the user handles it: static/chatroomwidget.js from the    *)
(* moment its script is loaded.  It is built minimized, with the name form *)
(* over the messages; a click on the minifier changes its size, and where  *)
(* jQuery UI is there it can be dragged by the minifier.                   *)
(*                                                                         *)
(* Dragging is added to a widget by wrapping the click handler: once when  *)
(* it is built, if the page has jQuery UI, and once more when the user     *)
(* asks for it, as soon as two scripts have been loaded.  Every wrapper    *)
(* has a flag of its own that tells a click from the end of a drag.        *)
(*                                                                         *)
(* What goes through the websocket is Widget.tla.                          *)
(***************************************************************************)
EXTENDS Nickname, Integers, Sequences

CONSTANT Spots   \* where the user drags the widget: distances from the left

ASSUME PanelAssumption == Spots \subseteq Int

VARIABLES
  script,      \* "none" in the page, "naming" while the bookmarklet sets the
               \* default name, "loading", or the widget is "built"
  pageUI,      \* does the page have jQuery UI when the widget is built?
  win,         \* mini: is it minimized?  config: the config screen, "init" with
               \* the name form only, "open", or "closed"; focusMe: the inputs
               \* with class focusMeOnMaximize; focus: where the keyboard is
  flags,       \* "dragged" of every wrapper, the outermost last
  left,        \* the widget's distance from the left
  held,        \* how many wrappers are in a drag now
  strayed,     \* history: did a drag end elsewhere than over the minifier since
               \* the last click?
  load,        \* asked: the scripts asked for; done: those that called back
  talk         \* history; tabbed: did the Tab key lead to the input below the
               \* config screen?  nameless: was a message sent without a name?

drag == <<flags, left, held, strayed>>
vars == <<names, script, pageUI, win, drag, load, talk>>

Width(mini) == IF mini THEN 1 ELSE 3      \* 100px and 300px
RightEdge == 6                            \* where the style sheet puts it

\* The style sheet: a minimized widget shows no form, and one with the config
\* screen has it over everything else; at first that is the name form only.
FormShown     == script = "built" /\ ~win.mini /\ win.config # "closed"
AdvancedShown == FormShown /\ win.config = "open"
InputShown    == script = "built" /\ ~win.mini /\ win.config = "closed"

\* createWidget and createConfigScreen
NewWin  == [mini |-> TRUE, config |-> "init", focusMe |-> {"name"}, focus |-> "none"]
NewDrag == flags = <<>> /\ left = RightEdge - Width(TRUE) /\ held = 0 /\ strayed = FALSE
NewLoad == [asked |-> {}, done |-> {}]
NewTalk == [tabbed |-> FALSE, nameless |-> FALSE]

Init ==
  /\ InitNames
  /\ script = "none" /\ pageUI \in BOOLEAN
  /\ win = NewWin /\ NewDrag /\ load = NewLoad /\ talk = NewTalk

-------------------------------------------------------------------------------
(* The widget comes and goes.                                                *)

\* The page includes the script; or the user clicks the bookmarklet on a site it
\* does not know, or where it must not use the storage: the error is ignored.
LoadScript ==
  /\ script = "none" /\ script' = "loading"
  /\ UNCHANGED <<names, pageUI, win, drag, load, talk>>

\* The user clicks the bookmarklet, and it looks for a name to store.
Bookmarklet ==
  /\ script = "none" /\ script' = "naming"
  /\ \E site \in Nicks \cup {NoName} : GetDefault("here", site)
  /\ UNCHANGED <<pageUI, win, drag, load, talk>>

\* It stores the name and loads the script; nothing in this tab comes between.
BookmarkletLoads ==
  /\ script = "naming" /\ script' = "loading"
  /\ StoreDefault("here")
  /\ UNCHANGED <<pageUI, win, drag, load, talk>>

\* tryMakeDraggable: a wrapper if the page has jQuery UI.
TryMakeDraggable == IF pageUI THEN <<FALSE>> ELSE <<>>

\* Mutant: the message input is the one to focus from the start.
BuildFocusInput ==
  /\ script = "loading" /\ script' = "built"
  /\ \E n \in Proposed : formName' = n
  /\ flags' = TryMakeDraggable
  /\ win' = [win EXCEPT !.focusMe = {"mesg"}]
  /\ UNCHANGED <<stored, myname, pageUI, left, held, strayed, load, talk>>

\* createWidget and toMini, in chatroomwidget_main_aux.
Build ==
  /\ script = "loading" /\ script' = "built"
  /\ \E n \in Proposed : formName' = n
  /\ flags' = TryMakeDraggable
  /\ UNCHANGED <<stored, myname, pageUI, win, left, held, strayed, load, talk>>

\* There is no document.body yet: removeChatroom, and the error goes on.
BuildFails ==
  /\ script = "loading" /\ script' = "none"
  /\ UNCHANGED <<names, pageUI, win, drag, load, talk>>

\* /quit, or the user leaves for another page of the site: what was stored stays,
\* and the page of the next widget may have jQuery UI or not.
Leave ==
  /\ script \in {"loading", "built"} /\ script' = "none"
  /\ pageUI' \in BOOLEAN
  /\ myname' = Unset /\ formName' = NoName
  /\ win' = NewWin /\ load' = NewLoad /\ talk' = NewTalk
  /\ flags' = <<>> /\ left' = RightEdge - Width(TRUE)
  /\ held' = 0 /\ strayed' = FALSE
  /\ UNCHANGED stored

\* In other tabs users choose names and click the bookmarklet.
ElsewhereNamed ==
  /\ \E n \in Nicks : SetNameElsewhere(n)
  /\ UNCHANGED <<script, pageUI, win, drag, load, talk>>

ElsewhereBookmarklet ==
  /\ \/ \E site \in Nicks \cup {NoName} : GetDefault("elsewhere", site)
     \/ StoreDefault("elsewhere")
  /\ UNCHANGED <<script, pageUI, win, drag, load, talk>>

-------------------------------------------------------------------------------
(* The name form, the commands about names, and what is said under a name.   *)

\* By pointer: to an input that is shown, or to something else.
Focus ==
  /\ script = "built"
  /\ \/ FormShown /\ win' = [win EXCEPT !.focus = "name"]
     \/ InputShown /\ win' = [win EXCEPT !.focus = "mesg"]
     \/ win' = [win EXCEPT !.focus = "none"]
  /\ UNCHANGED <<names, script, pageUI, drag, load, talk>>

\* By the Tab key, to the message input that the config screen covers.
TabToInput ==
  /\ FormShown
  /\ win' = [win EXCEPT !.focus = "mesg"]
  /\ talk' = [talk EXCEPT !.tabbed = TRUE]
  /\ UNCHANGED <<names, script, pageUI, drag, load>>

TypeName ==
  /\ FormShown /\ win.focus = "name"
  /\ \E n \in Nicks \cup {NoName} : formName' = n
  /\ UNCHANGED <<stored, myname, script, pageUI, win, drag, load, talk>>

\* Mutant: the class for the message input is forgotten.
SubmitNameNoClass ==
  /\ FormShown
  /\ SetName(formName)
  /\ win' = [win EXCEPT !.config = "closed", !.focusMe = @ \ {"name"},
                        !.focus = "mesg"]
  /\ UNCHANGED <<script, pageUI, drag, load, talk>>

\* The name form's submit handler.
SubmitName ==
  /\ FormShown
  /\ SetName(formName)
  /\ win' = [win EXCEPT !.config = "closed",
                        !.focusMe = (@ \ {"name"}) \cup {"mesg"},
                        !.focus = "mesg"]
  /\ UNCHANGED <<script, pageUI, drag, load, talk>>

\* /nick; the name form is not told.
Nick ==
  /\ win.focus = "mesg"
  /\ \E n \in Nicks : SetName(n)
  /\ UNCHANGED <<script, pageUI, win, drag, load, talk>>

\* /config
Config ==
  /\ win.focus = "mesg" /\ win.config = "closed"
  /\ win' = [win EXCEPT !.config = "open"]
  /\ UNCHANGED <<names, script, pageUI, drag, load, talk>>

\* sendMessage: myname + ': ' + msg
Say ==
  /\ win.focus = "mesg"
  /\ talk' = [talk EXCEPT !.nameless = @ \/ myname = Unset]
  /\ UNCHANGED <<names, script, pageUI, win, drag, load>>

-------------------------------------------------------------------------------
(* Becoming draggable, dragging and clicking.                                *)

\* The button of the advanced configuration, which disables itself.
PressDraggable ==
  /\ AdvancedShown /\ load.asked = {}
  /\ load' = [load EXCEPT !.asked = {"jquery"}]
  /\ UNCHANGED <<names, script, pageUI, win, drag, talk>>

\* Mutant: the event handler calls back each time.
ScriptEventAgain(s) ==
  /\ s \in load.asked
  /\ load' = [asked |-> load.asked \cup {"ui"}, done |-> load.done \cup {s}]
  /\ flags' = IF s = "ui" THEN Append(flags, FALSE) ELSE flags
  /\ UNCHANGED <<names, script, pageUI, win, left, held, strayed, talk>>

\* An event of script s, after loadJS: only the first counts.  When jQuery has
\* come jQuery UI is asked for, and when that has come, makeDraggable wraps the
\* click handler.
ScriptEvent(s) ==
  /\ s \in load.asked /\ s \notin load.done
  /\ load' = [asked |-> load.asked \cup {"ui"}, done |-> load.done \cup {s}]
  /\ flags' = IF s = "ui" THEN Append(flags, FALSE) ELSE flags
  /\ UNCHANGED <<names, script, pageUI, win, left, held, strayed, talk>>

\* The user moves the widget by the minifier; all wrappers there were when the
\* drag began are told.
Drag ==
  /\ script = "built" /\ flags # <<>>
  /\ left' \in Spots
  /\ held' = IF held = 0 THEN Len(flags) ELSE held
  /\ flags' = [i \in 1..Len(flags) |-> i <= held' \/ flags[i]]
  /\ UNCHANGED <<names, script, pageUI, win, strayed, load, talk>>

\* ... and lets go where the minifier is not: no click follows.
DropElsewhere ==
  /\ held > 0
  /\ held' = 0 /\ strayed' = TRUE
  /\ UNCHANGED <<names, script, pageUI, win, flags, left, load, talk>>

\* The outermost wrapper that saw a drag takes the click for the end of it.
EndDrag ==
  /\ \E i \in 1..Len(flags) :
       /\ flags[i] /\ \A j \in 1..Len(flags) : j > i => ~flags[j]
       /\ flags' = [flags EXCEPT ![i] = FALSE]
  /\ UNCHANGED <<win, left>>

\* The first input to focus takes the keyboard, if there is one that is not hidden.
InputToFocus ==
  CASE "name" \in win.focusMe -> IF win.config # "closed" THEN "name" ELSE "none"
    [] win.focusMe = {"mesg"} -> "mesg"
    [] OTHER -> "none"

\* Mutant: the widget is not kept right aligned.
ToggleInPlace ==
  /\ \A i \in 1..Len(flags) : ~flags[i]
  /\ win' = [win EXCEPT !.mini = ~@,
                        !.focus = IF win.mini THEN InputToFocus ELSE "none"]
  /\ UNCHANGED <<flags, left>>

\* Mutant: a click is a click.
ToggleAlways ==
  /\ win' = [win EXCEPT !.mini = ~@, !.focus = "none"]
  /\ UNCHANGED <<flags, left>>

\* No wrapper saw a drag: the innermost handler changes the size.  Every wrapper
\* moves the right edge back to where it was; without any the style sheet does.
Toggle ==
  /\ \A i \in 1..Len(flags) : ~flags[i]
  /\ win' = [win EXCEPT !.mini = ~@,
                        !.focus = IF win.mini THEN InputToFocus ELSE "none"]
  /\ left' = left + (IF flags = <<>> THEN 1 ELSE Len(flags))
                     * (Width(win.mini) - Width(~win.mini))
  /\ UNCHANGED flags

\* The minifier's click handler.
ClickMinifier ==
  /\ script = "built"
  /\ EndDrag \/ Toggle
  /\ held' = 0 /\ strayed' = FALSE
  /\ UNCHANGED <<names, script, pageUI, load, talk>>

Next ==
  \/ LoadScript \/ Bookmarklet \/ BookmarkletLoads \/ Build \/ BuildFails \/ Leave
  \/ ElsewhereNamed \/ ElsewhereBookmarklet
  \/ Focus \/ TabToInput \/ TypeName \/ SubmitName \/ Nick \/ Config \/ Say
  \/ PressDraggable \/ (\E s \in {"jquery", "ui"} : ScriptEvent(s))
  \/ Drag \/ DropElsewhere \/ ClickMinifier

Spec == Init /\ [][Next]_vars

-------------------------------------------------------------------------------
(* Properties.                                                               *)

\* Types; of these, that there are never more than two wrappers around the click
\* handler, however often the browser reports that a script has been loaded.
PanelTypeOK ==
  /\ NamesTypeOK
  /\ script \in {"none", "naming", "loading", "built"} /\ pageUI \in BOOLEAN
  /\ win \in [mini : BOOLEAN, config : {"init", "open", "closed"},
              focusMe : SUBSET {"name", "mesg"}, focus : {"none", "name", "mesg"}]
  /\ flags \in Seq(BOOLEAN) /\ Len(flags) <= 2 /\ held \in 0..Len(flags)
  /\ left \in Int /\ strayed \in BOOLEAN
  /\ load \in [asked : SUBSET {"jquery", "ui"}, done : SUBSET {"jquery", "ui"}]
  /\ talk \in [tabbed : BOOLEAN, nameless : BOOLEAN]

\* Made draggable or not, dragged before or not: a click on the minifier changes
\* the size, around a right edge that stays (chatroomwidget.js:302).  Only the
\* first one after a drag that ended elsewhere is lost, and changes nothing.  Not
\* in a page with a jQuery UI of its own.
ClickToggles ==
  [][ClickMinifier /\ held = 0 /\ ~pageUI
     => IF strayed
        THEN win'.mini = win.mini /\ left' = left
        ELSE /\ win'.mini # win.mini
             /\ left' + Width(win'.mini) = left + Width(win.mini)]_vars

\* The click that ends a drag does not change the size (chatroomwidget.js:298), in
\* whichever way and at whatever time the widget became draggable.
DragKeepsSize ==
  [][ClickMinifier /\ held > 0 => win'.mini = win.mini /\ left' = left]_vars

\* Whoever maximizes the widget can type at once: an input that is not hidden has
\* the keyboard, whichever forms came and went since the last time.
MaximizeFocuses ==
  [][win.mini /\ ~win'.mini => win'.focus # "none"]_vars

\* A message without a nickname, "undefined: ...", takes the Tab key: no other way
\* leads to the message input before a name was given.
NamelessOnlyByTab == talk.nameless => talk.tabbed

\* The name that a tab of the site was given last is the one that a new widget
\* proposes, be it started by the page or by the bookmarklet with a name of its
\* own, in this tab or another.  The one exception: a bookmarklet that had got
\* another name when that one was given stores it afterwards.
NameReturns ==
  [][script = "loading" /\ script' = "built" /\ storageOk /\ chosen # NoName /\ ~raced
     => formName' = chosen]_vars

-------------------------------------------------------------------------------
(* The inductive invariant behind all of these.                              *)

\* Before a widget is built there is nothing of it.
NothingYet ==
  script # "built" =>
    win = NewWin /\ NewDrag /\ load = NewLoad /\ talk = NewTalk

\* One input is the one to focus, and until it is the message input no name was
\* chosen and only the Tab key leads there.
FocusInv ==
  /\ win.focusMe = IF win.config = "init" THEN {"name"} ELSE {"mesg"}
  /\ win.config # "init" => myname # Unset
  /\ win.focus = "mesg" => myname # Unset \/ talk.tabbed

\* Without a race the storage holds the name chosen last, and nobody is about to
\* store another.
StorageInv ==
  storageOk /\ chosen # NoName /\ ~raced =>
    cached = chosen /\ \A t \in Tabs : fetched[t] \in {Unset, NoName, chosen}

\* Who wrapped the click handler.
WrapInv ==
  Len(flags) = (IF script = "built" /\ pageUI THEN 1 ELSE 0)
                    + (IF "ui" \in load.done THEN 1 ELSE 0)

\* A wrapper in a drag has its flag set; a lone one has it set from a drag to the
\* next click, and at no other time.
FlagInv ==
  /\ \A i \in 1..held : flags[i]
  /\ strayed => Len(flags) > 0
  /\ Len(flags) = 1 => (flags[1] <=> held > 0 \/ strayed)

IInv ==
  /\ PanelTypeOK /\ NothingYet /\ FocusInv /\ StorageInv /\ WrapInv /\ FlagInv
  /\ NamelessOnlyByTab

===============================================================================
