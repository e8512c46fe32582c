------------------------------ MODULE PanelProofs ------------------------------
(***************************************************************************)
(* The widget in the user's hands keeps its promises for any nicknames and *)
(* any places it is dragged to.                                            *)
(*                                                                         *)
(* The argument: IInv (Panel.tla) is inductive.  There is one lemma for    *)
(* each group of variables, with a case for every action that changes them *)
(* and one for all the others; the lemma for the wrappers is the long one. *)
(***************************************************************************)
EXTENDS Panel, SequenceTheorems, TLAPS

\* The types of the variables that each lemma below is about.
WinTypeOK ==
  /\ script \in {"none", "naming", "loading", "built"} /\ pageUI \in BOOLEAN
  /\ win \in [mini : BOOLEAN, config : {"init", "open", "closed"},
              focusMe : SUBSET {"name", "mesg"}, focus : {"none", "name", "mesg"}]
  /\ talk \in [tabbed : BOOLEAN, nameless : BOOLEAN] /\ strayed \in BOOLEAN

WrapTypeOK ==
  /\ flags \in Seq(BOOLEAN) /\ Len(flags) <= 2 /\ held \in 0..Len(flags)
  /\ left \in Int
  /\ load \in [asked : SUBSET {"jquery", "ui"}, done : SUBSET {"jquery", "ui"}]

LEMMA TypeParts == PanelTypeOK <=> NamesTypeOK /\ WinTypeOK /\ WrapTypeOK
BY DEF PanelTypeOK, WinTypeOK, WrapTypeOK

-------------------------------------------------------------------------------
(* Names and their storage.                                                  *)

\* A name that is set is set in the storage too; a bookmarklet that got another one
\* before makes it a race, and one that gets the name later stores what is there.
LEMMA NamesKept ==
  ASSUME IInv, [Next]_vars
  PROVE  NamesTypeOK' /\ StorageInv'
<1> USE NicknameAssumption DEF NamesTypeOK, StorageInv, stored, names
<1>1. NamesTypeOK /\ StorageInv
  BY DEF IInv, PanelTypeOK
<1>2. "here" \in Tabs /\ "elsewhere" \in Tabs
  BY DEF Tabs
<1>3. ASSUME NEW tab \in Tabs, NEW site \in Nicks \cup {NoName}, GetDefault(tab, site)
      PROVE  NamesTypeOK' /\ StorageInv'
  BY <1>1, <1>3 DEF GetDefault
<1>4. ASSUME NEW tab \in Tabs, StoreDefault(tab)
      PROVE  NamesTypeOK' /\ StorageInv'
  BY <1>1, <1>4 DEF StoreDefault
<1>5. ASSUME NEW n \in Nicks \cup {NoName}, RecordChoice(n), SetCachedNameSafe(n),
             UNCHANGED <<storageOk, fetched>>, myname' \in {myname, n},
             formName' = formName
      PROVE  NamesTypeOK' /\ StorageInv'
  BY <1>1, <1>5 DEF RecordChoice, SetCachedNameSafe
<1>6. CASE Bookmarklet
  BY <1>2, <1>3, <1>6 DEF Bookmarklet
<1>7. CASE BookmarkletLoads
  BY <1>2, <1>4, <1>7 DEF BookmarkletLoads
<1>8. CASE ElsewhereBookmarklet
  BY <1>2, <1>3, <1>4, <1>8 DEF ElsewhereBookmarklet
<1>9. CASE ElsewhereNamed
  BY <1>5, <1>9 DEF ElsewhereNamed, SetNameElsewhere, SetCachedNameSafe
<1>10. CASE SubmitName
  BY <1>1, <1>5, <1>10 DEF SubmitName, SetName
<1>11. CASE Nick
  BY <1>5, <1>11 DEF Nick, SetName
<1>12. CASE Build
  BY <1>1, <1>12 DEF Build, Proposed
<1>13. CASE Leave
  BY <1>1, <1>13 DEF Leave
<1>14. CASE TypeName
  BY <1>1, <1>14 DEF TypeName
<1>15. CASE UNCHANGED names
  BY <1>1, <1>15
<1> QED
  BY <1>6, <1>7, <1>8, <1>9, <1>10, <1>11, <1>12, <1>13, <1>14, <1>15
     DEF Next, vars, LoadScript, BuildFails, Focus, TabToInput, Config, Say,
         PressDraggable, ScriptEvent, Drag, DropElsewhere, ClickMinifier

-------------------------------------------------------------------------------
(* The keyboard's way to the message input.                                  *)

\* Only the name form's submit handler closes the config screen and makes the
\* message input the one to focus, and it has set a name before.
LEMMA FocusKept ==
  ASSUME IInv, [Next]_vars
  PROVE  WinTypeOK' /\ FocusInv' /\ NamelessOnlyByTab'
<1> USE NicknameAssumption
    DEF WinTypeOK, FocusInv, NamelessOnlyByTab, names, FormShown, InputShown
<1>1. NamesTypeOK /\ WinTypeOK /\ FocusInv /\ NamelessOnlyByTab
  BY TypeParts DEF IInv
<1>2. CASE LoadScript \/ Bookmarklet \/ BookmarkletLoads
  BY <1>1, <1>2 DEF LoadScript, Bookmarklet, GetDefault, BookmarkletLoads,
                    StoreDefault, drag
<1>3. CASE Build
  BY <1>1, <1>3 DEF Build
<1>4. CASE BuildFails
  BY <1>1, <1>4 DEF BuildFails, drag
<1>5. CASE Leave
  BY <1>1, <1>5 DEF Leave, NewWin, NewTalk
<1>6. CASE Focus
  BY <1>1, <1>6 DEF Focus, drag
<1>7. CASE TabToInput
  BY <1>1, <1>7 DEF TabToInput, drag
<1>8. CASE SubmitName
  BY <1>1, <1>8 DEF SubmitName, SetName, NamesTypeOK, drag
<1>9. CASE Nick
  BY <1>1, <1>9 DEF Nick, SetName, drag
<1>10. CASE Config
  BY <1>1, <1>10 DEF Config, drag
<1>11. CASE Say
  BY <1>1, <1>11 DEF Say, drag
<1>12. CASE ClickMinifier
  <2>1. CASE EndDrag
    BY <1>1, <1>12, <2>1 DEF ClickMinifier, EndDrag
  <2>2. CASE Toggle
    <3>1. CASE win.config = "init"
      BY <1>1, <1>12, <2>2, <3>1 DEF ClickMinifier, Toggle, InputToFocus
    <3>2. CASE win.config # "init"
      BY <1>1, <1>12, <2>2, <3>2 DEF ClickMinifier, Toggle, InputToFocus
    <3> QED BY <3>1, <3>2
  <2> QED BY <1>12, <2>1, <2>2 DEF ClickMinifier
<1>13. CASE DropElsewhere
  BY <1>1, <1>13 DEF DropElsewhere
<1>14. CASE UNCHANGED <<script, pageUI, win, talk, strayed, myname>>
  BY <1>1, <1>14
<1> QED
  BY <1>2, <1>3, <1>4, <1>5, <1>6, <1>7, <1>8, <1>9, <1>10, <1>11, <1>12, <1>13,
     <1>14
     DEF Next, vars, drag, ElsewhereNamed, SetNameElsewhere, ElsewhereBookmarklet,
         GetDefault, StoreDefault, TypeName, PressDraggable, ScriptEvent, Drag

-------------------------------------------------------------------------------
(* The wrappers around the click handler.                                    *)

\* A sequence made by setting more flags is one of the same length.
LEMMA FlagsSet ==
  ASSUME NEW f \in Seq(BOOLEAN), NEW h \in Nat
  PROVE  LET g == [i \in 1..Len(f) |-> i <= h \/ f[i]] IN
         /\ g \in Seq(BOOLEAN) /\ Len(g) = Len(f)
         /\ \A i \in 1..Len(f) : i <= h => g[i]
<1> DEFINE g == [i \in 1..Len(f) |-> i <= h \/ f[i]]
<1>1. g \in [1..Len(f) -> BOOLEAN] /\ Len(f) \in Nat
  OBVIOUS
<1>2. g \in Seq(BOOLEAN) /\ Len(g) = Len(f)
  BY <1>1
<1>3. \A i \in 1..Len(f) : i <= h => g[i]
  OBVIOUS
<1> QED BY <1>2, <1>3

\* So is, but for its length, one with a new flag at its end.
LEMMA FlagAdded ==
  ASSUME NEW f \in Seq(BOOLEAN)
  PROVE  /\ Append(f, FALSE) \in Seq(BOOLEAN) /\ Len(Append(f, FALSE)) = Len(f) + 1
         /\ \A i \in 1..Len(f) : Append(f, FALSE)[i] = f[i]
         /\ Append(f, FALSE)[Len(f) + 1] = FALSE
<1>1. FALSE \in BOOLEAN
  OBVIOUS
<1> QED BY <1>1, AppendProperties

\* There is a wrapper for each time the widget was made draggable, and a lone one's
\* flag is the memory of one drag.
LEMMA WrapKept ==
  ASSUME IInv, [Next]_vars
  PROVE  WrapTypeOK' /\ WrapInv' /\ FlagInv'
<1> USE DEF WrapTypeOK, WrapInv, FlagInv
<1>1. /\ WinTypeOK /\ WrapTypeOK /\ WrapInv /\ FlagInv /\ NothingYet
      /\ Len(flags) \in Nat
  BY TypeParts DEF IInv
<1>2. CASE LoadScript \/ Bookmarklet \/ BookmarkletLoads
  BY <1>1, <1>2 DEF LoadScript, Bookmarklet, BookmarkletLoads, drag
<1>3. CASE Build
  <2>1. flags = <<>> /\ held = 0 /\ load.done = {}
    BY <1>1, <1>3 DEF Build, NothingYet, NewDrag, NewLoad
  <2>2. <<FALSE>> \in Seq(BOOLEAN) /\ Len(<<FALSE>>) = 1 /\ <<FALSE>>[1] = FALSE
    OBVIOUS
  <2>3. CASE pageUI
    BY <1>1, <1>3, <2>1, <2>2, <2>3 DEF Build, TryMakeDraggable
  <2>4. CASE ~pageUI
    BY <1>1, <1>3, <2>1, <2>4 DEF Build, TryMakeDraggable
  <2> QED BY <2>3, <2>4
<1>4. CASE BuildFails
  BY <1>1, <1>4 DEF BuildFails, drag
<1>5. CASE Leave
  <2>1. flags' = <<>> /\ held' = 0 /\ strayed' = FALSE /\ script' # "built"
    BY <1>5 DEF Leave
  <2>2. left' \in Int
    BY <1>5 DEF Leave, RightEdge, Width
  <2>3. load' = [asked |-> {}, done |-> {}]
    BY <1>5 DEF Leave, NewLoad
  <2>4. WrapTypeOK'
    BY <2>1, <2>2, <2>3
  <2>5. WrapInv'
    BY <2>1, <2>3
  <2>6. FlagInv'
    BY <2>1
  <2> QED BY <2>4, <2>5, <2>6
<1>6. CASE PressDraggable
  BY <1>1, <1>6 DEF PressDraggable, drag
<1>7. ASSUME NEW s \in {"jquery", "ui"}, ScriptEvent(s)
      PROVE  WrapTypeOK' /\ WrapInv' /\ FlagInv'
  <2>1. load' \in [asked : SUBSET {"jquery", "ui"}, done : SUBSET {"jquery", "ui"}]
    BY <1>1, <1>7 DEF ScriptEvent
  <2>2. CASE s = "jquery"
    <3>1. "ui" \in load'.done <=> "ui" \in load.done
      BY <1>1, <1>7, <2>2 DEF ScriptEvent
    <3> QED BY <1>1, <1>7, <2>1, <2>2, <3>1 DEF ScriptEvent
  <2>3. CASE s = "ui"
    <3>1. flags' = Append(flags, FALSE) /\ UNCHANGED <<left, held, strayed, script, pageUI>>
      BY <1>7, <2>3 DEF ScriptEvent
    <3>2. /\ flags' \in Seq(BOOLEAN) /\ Len(flags') = Len(flags) + 1
          /\ \A i \in 1..Len(flags) : flags'[i] = flags[i]
          /\ flags'[Len(flags) + 1] = FALSE
      BY <1>1, <3>1, FlagAdded
    <3>3. "ui" \notin load.done /\ "ui" \in load'.done
      BY <1>1, <1>7, <2>3 DEF ScriptEvent
    <3> QED BY <1>1, <2>1, <3>1, <3>2, <3>3
  <2> QED BY <2>2, <2>3
<1>8. CASE Drag
  <2>1. held' \in 1..Len(flags)
    BY <1>1, <1>8 DEF Drag
  <2>2. /\ flags' \in Seq(BOOLEAN) /\ Len(flags') = Len(flags)
        /\ \A i \in 1..Len(flags) : i <= held' => flags'[i]
    BY <1>1, <1>8, <2>1, FlagsSet DEF Drag
  <2> QED BY <1>1, <1>8, <2>1, <2>2, PanelAssumption DEF Drag
<1>9. CASE DropElsewhere
  BY <1>1, <1>9 DEF DropElsewhere
<1>10. CASE ClickMinifier
  <2>1. CASE EndDrag
    <3>1. PICK i \in 1..Len(flags) : flags' = [flags EXCEPT ![i] = FALSE]
      BY <2>1 DEF EndDrag
    <3>2. /\ flags' \in Seq(BOOLEAN) /\ Len(flags') = Len(flags)
          /\ flags'[i] = FALSE
      BY <1>1, <3>1, ExceptSeq
    <3>3. UNCHANGED <<left, load, script, pageUI>> /\ held' = 0 /\ strayed' = FALSE
      BY <1>10, <2>1 DEF ClickMinifier, EndDrag
    <3>4. Len(flags) = 1 => flags'[1] = FALSE
      BY <3>1, <3>2
    <3>5. WrapTypeOK' /\ WrapInv'
      BY <1>1, <3>2, <3>3
    <3>6. FlagInv'
      BY <3>2, <3>3, <3>4
    <3> QED BY <3>5, <3>6
  <2>2. CASE Toggle
    <3>1. left' \in Int
      BY <1>1, <2>2 DEF Toggle, Width
    <3>2. /\ UNCHANGED <<flags, load, script, pageUI>> /\ held' = 0 /\ strayed' = FALSE
          /\ \A i \in 1..Len(flags) : ~flags[i]
      BY <1>10, <2>2 DEF ClickMinifier, Toggle
    <3>3. WrapTypeOK' /\ WrapInv'
      BY <1>1, <3>1, <3>2
    <3>4. FlagInv'
      BY <1>1, <3>2
    <3> QED BY <3>3, <3>4
  <2> QED BY <1>10, <2>1, <2>2 DEF ClickMinifier
<1>11. CASE UNCHANGED <<script, pageUI, drag, load>>
  BY <1>1, <1>11 DEF drag
<1> QED
  BY <1>2, <1>3, <1>4, <1>5, <1>6, <1>7, <1>8, <1>9, <1>10, <1>11
     DEF Next, vars, ElsewhereNamed, ElsewhereBookmarklet, Focus, TabToInput, TypeName,
         SubmitName, Nick, Config, Say

-------------------------------------------------------------------------------
(* The invariant.                                                            *)

\* A page without a widget has nothing of it.
LEMMA NothingKept == ASSUME IInv, [Next]_vars PROVE NothingYet'
<1> USE DEF NothingYet, NewDrag, drag
<1>1. NothingYet /\ WinTypeOK /\ WrapTypeOK
  BY TypeParts DEF IInv
<1>2. CASE script = "built" /\ script' = "built"
  BY <1>2
<1>3. CASE Leave
  BY <1>3 DEF Leave
<1>4. CASE script # "built" /\ ~Leave
  <2>1. win.focus = "none" /\ held = 0 /\ load.asked = {}
    BY <1>1, <1>4 DEF NewWin, NewLoad
  <2>2. \/ LoadScript \/ Bookmarklet \/ BookmarkletLoads \/ Build \/ BuildFails
        \/ ElsewhereNamed \/ ElsewhereBookmarklet \/ UNCHANGED vars
    BY <1>4, <2>1 DEF Next, Focus, TabToInput, TypeName, SubmitName, Nick, Config,
                      Say, PressDraggable, ScriptEvent, Drag, DropElsewhere,
                      ClickMinifier, FormShown, AdvancedShown
  <2> QED BY <1>1, <1>4, <2>2 DEF LoadScript, Bookmarklet, BookmarkletLoads, Build,
                 BuildFails, ElsewhereNamed, ElsewhereBookmarklet, vars
<1>5. script = "built" /\ ~Leave => script' = "built"
  BY DEF Next, vars, LoadScript, Bookmarklet, BookmarkletLoads, Build, BuildFails,
         ElsewhereNamed, ElsewhereBookmarklet, Focus, TabToInput,
         TypeName, SubmitName, Nick, Config, Say, PressDraggable, ScriptEvent, Drag,
         DropElsewhere, ClickMinifier
<1> QED BY <1>2, <1>3, <1>4, <1>5

LEMMA Initial == Init => IInv
<1> SUFFICES ASSUME Init PROVE IInv
  OBVIOUS
<1> USE NicknameAssumption DEF Init, InitNames
<1>1. NamesTypeOK /\ StorageInv
  BY DEF NamesTypeOK, StorageInv
<1>2. WinTypeOK /\ FocusInv /\ NamelessOnlyByTab
  BY DEF WinTypeOK, FocusInv, NamelessOnlyByTab, NewWin, NewTalk, NewDrag
<1>3. WrapTypeOK /\ WrapInv /\ FlagInv
  <2>1. flags = <<>> /\ held = 0 /\ strayed = FALSE /\ script # "built"
    BY DEF NewDrag
  <2>2. left \in Int
    BY DEF NewDrag, RightEdge, Width
  <2>3. load = [asked |-> {}, done |-> {}]
    BY DEF NewLoad
  <2>4. WrapTypeOK
    BY <2>1, <2>2, <2>3 DEF WrapTypeOK
  <2>5. WrapInv /\ FlagInv
    BY <2>1, <2>3 DEF WrapInv, FlagInv
  <2> QED BY <2>4, <2>5
<1> QED BY <1>1, <1>2, <1>3, TypeParts DEF IInv, NothingYet

LEMMA TypePartsNext == PanelTypeOK' <=> NamesTypeOK' /\ WinTypeOK' /\ WrapTypeOK'
BY DEF PanelTypeOK, WinTypeOK, WrapTypeOK

LEMMA Inductive == Spec => []IInv
<1>1. IInv /\ [Next]_vars => IInv'
  BY NamesKept, FocusKept, WrapKept, NothingKept, TypePartsNext DEF IInv
<1> QED BY Initial, <1>1, PTL DEF Spec

-------------------------------------------------------------------------------
(* The theorems.                                                             *)

\* Types; in particular no browser event ever adds a third wrapper (loadJS).
THEOREM TypeCorrect == Spec => []PanelTypeOK
<1>1. IInv => PanelTypeOK
  BY DEF IInv
<1> QED BY <1>1, Inductive, PTL

\* Nobody who does not use the Tab key sends a message as "undefined".
THEOREM NamelessTakesTab == Spec => []NamelessOnlyByTab
<1>1. IInv => NamelessOnlyByTab
  BY DEF IInv
<1> QED BY <1>1, Inductive, PTL

\* A new widget proposes the name that a tab was given last (createConfigScreen,
\* setName, the bookmarklet's setDefaultName), whatever the tabs did to the storage
\* since; but for a bookmarklet that got another name before that and stores it after.
THEOREM ChosenNameReturns == Spec => NameReturns
<1>1. ASSUME IInv, [Next]_vars, script = "loading", script' = "built", storageOk,
             chosen # NoName, ~raced
      PROVE  formName' = chosen
  <2>1. Build
    BY <1>1 DEF Next, vars, LoadScript, Bookmarklet, BookmarkletLoads, BuildFails, Leave,
                ElsewhereNamed, ElsewhereBookmarklet, Focus, TabToInput, TypeName,
                SubmitName, Nick, Config, Say, PressDraggable, ScriptEvent, Drag,
                DropElsewhere, ClickMinifier
  <2> QED BY <1>1, <2>1 DEF IInv, StorageInv, Build, Proposed
<1>2. IInv /\ [Next]_vars =>
        [script = "loading" /\ script' = "built" /\ storageOk /\ chosen # NoName /\ ~raced
           => formName' = chosen]_vars
  BY <1>1
<1> QED BY <1>2, Inductive, PTL DEF Spec, NameReturns

\* A maximized widget can be typed into (onMinifierClicked).
THEOREM MaximizedCanType == Spec => MaximizeFocuses
<1>1. ASSUME IInv, [Next]_vars, win.mini, ~win'.mini
      PROVE  win'.focus # "none"
  <2>1. FocusInv /\ WinTypeOK
    BY <1>1, TypeParts DEF IInv
  <2>2. win' # win /\ win' # NewWin
    BY <1>1 DEF NewWin
  <2>3. ClickMinifier
    BY <1>1, <2>1, <2>2 DEF Next, vars, LoadScript, Bookmarklet, BookmarkletLoads, Build,
         BuildFails, Leave, ElsewhereNamed, ElsewhereBookmarklet, Focus, TabToInput, TypeName, SubmitName, Nick, Config, Say,
         PressDraggable, ScriptEvent, Drag, DropElsewhere, WinTypeOK
  <2>4. Toggle
    BY <1>1, <2>2, <2>3 DEF ClickMinifier, EndDrag
  <2>5. win'.focus = InputToFocus
    BY <1>1, <2>1, <2>4 DEF Toggle, WinTypeOK
  <2> QED BY <2>1, <2>5 DEF FocusInv, InputToFocus, WinTypeOK
<1>2. IInv /\ [Next]_vars => [win.mini /\ ~win'.mini => win'.focus # "none"]_vars
  BY <1>1
<1> QED BY <1>2, Inductive, PTL DEF Spec, MaximizeFocuses

\* The click at the end of a drag keeps the size (the comment in makeDraggable).
THEOREM DraggingKeepsSize == Spec => DragKeepsSize
<1>1. ASSUME IInv, ClickMinifier, held > 0
      PROVE  win'.mini = win.mini /\ left' = left
  <2>1. 1 \in 1..Len(flags) /\ flags[1]
    BY <1>1, TypeParts DEF IInv, WrapTypeOK, FlagInv
  <2> QED BY <1>1, <2>1 DEF ClickMinifier, Toggle, EndDrag
<1>2. IInv /\ [Next]_vars =>
        [ClickMinifier /\ held > 0 => win'.mini = win.mini /\ left' = left]_vars
  BY <1>1
<1> QED BY <1>2, Inductive, PTL DEF Spec, DragKeepsSize

\* What there is at most one of there is one of, or none.
LEMMA OneOrNone ==
  ASSUME NEW n \in Nat, n <= 1
  PROVE  (n # 0 => n = 1) /\ \A i \in 1..n : i = 1 /\ n = 1
OBVIOUS

\* With at most one wrapper (makeDraggable), any other click changes the size and keeps
\* the right edge; but the first one after a drag that ended elsewhere, and that one
\* changes neither.
THEOREM ClicksToggle == Spec => ClickToggles
<1> DEFINE Kept    == win'.mini = win.mini /\ left' = left
           Toggled == /\ win'.mini # win.mini
                      /\ left' + Width(win'.mini) = left + Width(win.mini)
<1>1. ASSUME IInv, ClickMinifier, held = 0, strayed, ~pageUI PROVE Kept
  <2>1. WrapTypeOK /\ WrapInv /\ FlagInv
    BY <1>1, TypeParts DEF IInv
  <2>2. Len(flags) \in Nat /\ Len(flags) <= 1 /\ Len(flags) > 0
    BY <1>1, <2>1 DEF WrapTypeOK, WrapInv, FlagInv
  <2>3. Len(flags) = 1
    <3>1. Len(flags) # 0
      BY <2>2
    <3> QED BY <2>2, <3>1, OneOrNone
  <2>4. flags[1] /\ 1 \in 1..Len(flags)
    BY <1>1, <2>1, <2>3 DEF FlagInv
  <2> QED BY <1>1, <2>4 DEF ClickMinifier, Toggle, EndDrag
<1>2. ASSUME IInv, ClickMinifier, held = 0, ~strayed, ~pageUI PROVE Toggled
  <2>1. WrapTypeOK /\ WrapInv /\ FlagInv /\ WinTypeOK
    BY <1>2, TypeParts DEF IInv
  <2>2. Len(flags) \in Nat /\ Len(flags) <= 1
    BY <1>2, <2>1 DEF WrapTypeOK, WrapInv
  <2>3. \A i \in 1..Len(flags) : ~flags[i]
    <3>1. SUFFICES ASSUME NEW i \in 1..Len(flags) PROVE ~flags[i]
      OBVIOUS
    <3>2. i = 1 /\ Len(flags) = 1
      BY <2>2, OneOrNone
    <3> QED BY <1>2, <2>1, <3>2 DEF FlagInv
  <2>4. Toggle
    BY <1>2, <2>3 DEF ClickMinifier, EndDrag
  <2>5. win'.mini = ~win.mini
    BY <2>1, <2>4 DEF Toggle, WinTypeOK
  <2>6. left' = left + (Width(win.mini) - Width(~win.mini))
    <3>1. (IF flags = <<>> THEN 1 ELSE Len(flags)) = 1
      <4>1. flags # <<>> => Len(flags) # 0
        BY <2>1, EmptySeq DEF WrapTypeOK
      <4>2. flags # <<>> => Len(flags) = 1
        BY <2>2, <4>1, OneOrNone
      <4> QED BY <4>2
    <3>2. Width(win.mini) - Width(~win.mini) \in Int
      BY DEF Width
    <3>3. \A x \in Int : 1 * x = x
      OBVIOUS
    <3> HIDE DEF Width
    <3> QED BY <2>4, <3>1, <3>2, <3>3 DEF Toggle
  <2>7. left \in Int
    BY <2>1 DEF WrapTypeOK
  <2>8. Width(win.mini) \in Int /\ Width(~win.mini) \in Int
    BY DEF Width
  <2>9. win'.mini # win.mini
    BY <2>1, <2>5 DEF WinTypeOK
  <2> HIDE DEF Width
  <2> QED BY <2>5, <2>6, <2>7, <2>8, <2>9
<1>3. IInv /\ [Next]_vars =>
        [ClickMinifier /\ held = 0 /\ ~pageUI => IF strayed THEN Kept ELSE Toggled]_vars
  BY <1>1, <1>2
<1> QED BY <1>3, Inductive, PTL DEF Spec, ClickToggles
================================================================================
