-------------------------------- MODULE Widget --------------------------------
(***************************************************************************)
(* The chat widget in a page: static/chatroomwidget.js.                    *)
(*                                                                         *)
(* The page has one thread.  Its handlers are called for what the browser  *)
(* reports of the websocket, for what the user types, for the timers of    *)
(* /quit and of the blinking title, and when the page is hidden or shown;  *)
(* each call is a step, and they come in any order the browser allows.     *)
(* The websocket itself (sock) is the browser's.                           *)
(***************************************************************************)
EXTENDS Integers, Sequences, FiniteSets

CONSTANTS
  Texts,       \* what a user may type to be sent, each text once
  Unknown,     \* those of them that are commands the widget does not know
  Empty,       \* the empty input
  Delays,      \* the arguments of /quit; a fraction or a word, which never
               \* counts down to zero exactly, behaves as 0 does
  MaxQuits     \* bound: how many times /quit is typed

ASSUME WidgetAssumption ==
  /\ Empty \notin Texts
  /\ Unknown \subseteq Texts
  /\ Delays \subseteq Nat
  /\ MaxQuits \in Nat

VARIABLES
  sock,        \* the browser's websocket, "none" if it could not be constructed
  connState,   \* node.dataset.connState
  connMsg,     \* the connection message, by what it is about
  inPage,      \* is the widget in the document?
  onquit,      \* onquitHandlers: "handler", "empty" or "undefined"
  left,        \* left[k]: the seconds left in the k-th countdown; 0 for one that
               \* is over, or that runs past zero for ever
  input,       \* the text in the input
  hidden,      \* document.hidden
  title,       \* document.title: how often it starts with "new messages - "
  oldTitle,    \* the same of oldTitle
  interval,    \* is titleInterval defined?
  blink,       \* the interval's callbacks: "off", or which of the two is next
  nameOk,      \* is the nickname a legal regular expression?
  typed,       \* history: the texts that were typed,
  sent,        \* those handed to an open websocket, in order,
  dropped,     \* and those handed to one that was no longer open
  unread       \* history: was a message shown while the page was hidden?

conn  == <<connState, connMsg>>
quits == <<onquit, left>>
tab   == <<hidden, title, oldTitle, interval, blink, unread>>
texts == <<input, typed, sent, dropped>>
vars  == <<sock, conn, inPage, quits, tab, nameOk, texts>>

\* chatroomwidget_main_aux.  When the websocket cannot be constructed, onerror
\* and onclose are called at once, and no handler for quitting is installed.
Init ==
  /\ \/ /\ sock = "connecting" /\ onquit = "handler"
        /\ connState = "connecting" /\ connMsg = "connecting"
     \/ /\ sock = "none" /\ onquit = "empty"
        /\ connState = "error" /\ connMsg = "disconnected"
  /\ inPage = TRUE
  /\ left = <<>>
  /\ input = Empty
  /\ hidden \in BOOLEAN
  /\ title = 0 /\ oldTitle = 0
  /\ interval = FALSE /\ blink = "off"
  /\ nameOk = TRUE
  /\ typed = {} /\ sent = <<>> /\ dropped = {}
  /\ unread = FALSE

\* The style sheet: the connection message lies over the widget unless the node
\* says that it is connected.
ConnMsgShown == inPage /\ connState # "connected"

-------------------------------------------------------------------------------
(* connectWebsocket: what the browser reports of the websocket.              *)

\* onopen
OnOpen ==
  /\ sock = "connecting"
  /\ sock' = "open"
  /\ connState' = "connected" /\ connMsg' = "connected"
  /\ UNCHANGED <<inPage, quits, tab, nameOk, texts>>

\* The hub ends the connection; the page is told later.
HubCloses ==
  /\ sock = "open"
  /\ sock' = "closing"
  /\ UNCHANGED <<conn, inPage, quits, tab, nameOk, texts>>

\* onerror: the connection could not be made, or broke; a close follows.
OnError ==
  /\ sock \in {"connecting", "open", "closing", "aborted"}
  /\ sock' = "failed"
  /\ connState' = "error"
  /\ UNCHANGED <<connMsg, inPage, quits, tab, nameOk, texts>>

\* What onclose tells the user, unless the widget is gone and logging throws.
SayDisconnected ==
  connMsg' = IF inPage THEN "disconnected" ELSE connMsg

\* Mutant: "closed", error or not.
OnCloseAlways ==
  /\ sock \in {"closing", "failed"}
  /\ sock' = "closed"
  /\ connState' = "closed"
  /\ SayDisconnected
  /\ UNCHANGED <<inPage, quits, tab, nameOk, texts>>

\* Mutant: the state of the node is left alone.
OnCloseLogOnly ==
  /\ sock \in {"closing", "failed"}
  /\ sock' = "closed"
  /\ SayDisconnected
  /\ UNCHANGED <<connState, inPage, quits, tab, nameOk, texts>>

\* Mutant: the user is not told.
OnCloseSilent ==
  /\ sock \in {"closing", "failed"}
  /\ sock' = "closed"
  /\ connState' = IF connState = "connected" THEN "closed" ELSE connState
  /\ UNCHANGED <<connMsg, inPage, quits, tab, nameOk, texts>>

\* onclose: an error stays one.
OnClose ==
  /\ sock \in {"closing", "failed"}
  /\ sock' = "closed"
  /\ connState' = IF connState = "connected" THEN "closed" ELSE connState
  /\ SayDisconnected
  /\ UNCHANGED <<inPage, quits, tab, nameOk, texts>>

-------------------------------------------------------------------------------
(* handleIncomingMessage and the blinking title.                             *)

\* Mutant: a second message takes the blinking title for the page's.
StartBlinkingAgain ==
  /\ oldTitle' = title
  /\ interval' = TRUE
  /\ blink' = "news"

\* callAlternating, unless it is running already.
StartBlinking ==
  \/ interval /\ UNCHANGED <<oldTitle, interval, blink>>
  \/ /\ ~interval
     /\ oldTitle' = title
     /\ interval' = TRUE
     /\ blink' = "news"

\* A message comes in.  One of somebody else is searched for the nickname, which
\* throws when that is no regular expression: then it is not even shown.
HandleIncomingMessage(own) ==
  /\ sock = "open"
  /\ own \/ nameOk
  /\ \/ ~hidden /\ UNCHANGED <<oldTitle, interval, blink, unread>>
     \/ hidden /\ StartBlinking /\ unread' = TRUE
  /\ UNCHANGED <<sock, conn, inPage, quits, hidden, title, nameOk, texts>>

\* The interval calls its two functions in turn.
Blink ==
  \/ /\ blink = "news"
     /\ title' = oldTitle + 1
     /\ blink' = "old"
     /\ UNCHANGED <<sock, conn, inPage, quits, hidden, oldTitle, interval,
                    nameOk, texts, unread>>
  \/ /\ blink = "old"
     /\ title' = oldTitle
     /\ blink' = "news"
     /\ UNCHANGED <<sock, conn, inPage, quits, hidden, oldTitle, interval,
                    nameOk, texts, unread>>

Hide ==
  /\ ~hidden
  /\ hidden' = TRUE
  /\ UNCHANGED <<sock, conn, inPage, quits, title, oldTitle, interval, blink,
                 nameOk, texts, unread>>

\* Mutant: the interval is cleared, the title left as it is.
ShowTitleLeft ==
  /\ hidden /\ hidden' = FALSE
  /\ unread' = FALSE
  /\ interval' = FALSE /\ blink' = "off"
  /\ UNCHANGED <<sock, conn, inPage, quits, title, oldTitle, nameOk, texts>>

\* Mutant: titleInterval keeps the cleared interval.
ShowIntervalKept ==
  /\ hidden /\ hidden' = FALSE
  /\ unread' = FALSE
  /\ blink' = "off" /\ title' = IF interval THEN oldTitle ELSE title
  /\ UNCHANGED <<sock, conn, inPage, quits, interval, oldTitle, nameOk, texts>>

\* visibilitychange, with the page visible again.
Show ==
  /\ hidden /\ hidden' = FALSE
  /\ unread' = FALSE
  /\ \/ interval /\ interval' = FALSE /\ blink' = "off" /\ title' = oldTitle
     \/ ~interval /\ UNCHANGED <<interval, blink, title>>
  /\ UNCHANGED <<sock, conn, inPage, quits, oldTitle, nameOk, texts>>

-------------------------------------------------------------------------------
(* The input: messages and commands.                                         *)

\* The user types into the empty input, or over a command that was refused.
Type(t) ==
  /\ inPage /\ input \in Unknown \cup {Empty} /\ t \notin typed
  /\ input' = t
  /\ typed' = typed \cup {t}
  /\ UNCHANGED <<sock, conn, inPage, quits, tab, nameOk, sent, dropped>>

\* Submitting throws for an unknown command, when there is no websocket, and
\* when it is still connecting.
Refused == input \in Unknown \/ sock \in {"none", "connecting"}

\* ws.send(myname + ': ' + msg): an open websocket takes the message, one that
\* is closing or closed drops it without a word.
Send ==
  \/ sock = "open" /\ sent' = Append(sent, input) /\ UNCHANGED dropped
  \/ sock # "open" /\ dropped' = dropped \cup {input} /\ UNCHANGED sent

\* Mutant: the input is emptied, error or not.
SubmitEmptiesAlways ==
  /\ inPage /\ input # Empty
  /\ input' = Empty
  /\ \/ Refused /\ UNCHANGED <<sent, dropped>>
     \/ ~Refused /\ Send
  /\ UNCHANGED <<sock, conn, inPage, quits, tab, nameOk, typed>>

\* The submit handler: the input is emptied unless there was an error.
Submit ==
  /\ inPage /\ input # Empty
  /\ \/ Refused /\ UNCHANGED <<input, sent, dropped>>
     \/ ~Refused /\ Send /\ input' = Empty
  /\ UNCHANGED <<sock, conn, inPage, quits, tab, nameOk, typed>>

\* /nick: any name goes, a regular expression or not.
Nick(ok) ==
  /\ inPage /\ input = Empty
  /\ nameOk' = ok
  /\ UNCHANGED <<sock, conn, inPage, quits, tab, texts>>

-------------------------------------------------------------------------------
(* /quit and /exit.                                                          *)

\* quitDelay(seconds): a countdown of its own for each.
QuitDelay(seconds) ==
  /\ inPage /\ input = Empty /\ Len(left) < MaxQuits
  /\ left' = Append(left, seconds)
  /\ UNCHANGED <<sock, conn, inPage, onquit, tab, nameOk, texts>>

\* ws.close()
CloseSocket ==
  sock' = CASE sock = "connecting" -> "aborted"
            [] sock = "open" -> "closing"
            [] OTHER -> sock

\* Mutant: the widget goes, the websocket stays.
QuitWithoutClose ==
  /\ onquit' = "undefined"
  /\ \/ onquit = "handler" /\ inPage' = FALSE
     \/ onquit # "handler" /\ UNCHANGED inPage
  /\ UNCHANGED sock

\* quitImmediately: the handler, if there is one, closes the websocket and takes
\* the widget out of the page.  A second call throws.
QuitImmediately ==
  /\ onquit' = "undefined"
  /\ \/ onquit = "handler" /\ inPage' = FALSE /\ CloseSocket
     \/ onquit # "handler" /\ UNCHANGED <<inPage, sock>>

\* Mutant: the interval is not cleared when it has reached zero.
TickNotCleared(k) ==
  /\ left' = [left EXCEPT ![k] = @ - 1]
  /\ \/ left[k] = 1 /\ QuitImmediately
     \/ left[k] # 1 /\ UNCHANGED <<sock, inPage, onquit>>
  /\ UNCHANGED <<conn, tab, nameOk, texts>>

\* Mutant: the countdown stops at one.
TickStopsAtOne(k) ==
  /\ left[k] > 1
  /\ left' = [left EXCEPT ![k] = @ - 1]
  /\ UNCHANGED <<sock, conn, inPage, onquit, tab, nameOk, texts>>

\* A second has passed.
Tick(k) ==
  /\ left[k] > 0
  /\ left' = [left EXCEPT ![k] = @ - 1]
  /\ \/ left[k] = 1 /\ QuitImmediately
     \/ left[k] > 1 /\ UNCHANGED <<sock, inPage, onquit>>
  /\ UNCHANGED <<conn, tab, nameOk, texts>>

-------------------------------------------------------------------------------
Next ==
  \/ OnOpen \/ HubCloses \/ OnError \/ OnClose
  \/ \E own \in BOOLEAN : HandleIncomingMessage(own)
  \/ Blink \/ Hide \/ Show
  \/ \E t \in Texts : Type(t)
  \/ Submit
  \/ \E ok \in BOOLEAN : Nick(ok)
  \/ \E d \in Delays : QuitDelay(d)
  \/ \E k \in 1..Len(left) : Tick(k)

Spec == Init /\ [][Next]_vars

\* Timers fire, and the browser reports the end of a websocket that is ending.
\* Users and the hub owe nothing.
Fairness ==
  /\ \A k \in 1..MaxQuits : WF_vars(k <= Len(left) /\ Tick(k))
  /\ WF_vars(OnClose)
  /\ WF_vars(sock = "aborted" /\ OnError)

FairSpec == Spec /\ Fairness
-------------------------------------------------------------------------------
(* What the widget must guarantee.                                           *)

\* Every variable has the type of the code's.
TypeOK ==
  /\ sock \in {"none", "connecting", "open", "closing", "aborted", "failed",
               "closed"}
  /\ connState \in {"connecting", "connected", "closed", "error"}
  /\ connMsg \in {"connecting", "connected", "disconnected"}
  /\ inPage \in BOOLEAN
  /\ onquit \in {"handler", "empty", "undefined"}
  /\ left \in Seq(Nat)
  /\ input \in Texts \cup {Empty}
  /\ hidden \in BOOLEAN /\ interval \in BOOLEAN /\ unread \in BOOLEAN
  /\ title \in Nat /\ oldTitle \in Nat
  /\ blink \in {"off", "news", "old"}
  /\ nameOk \in BOOLEAN
  /\ typed \subseteq Texts /\ dropped \subseteq Texts /\ sent \in Seq(Texts)

\* What the node shows of the connection (connState, which the style sheet reads)
\* agrees with the websocket once the page was told of its end, by whatever mix
\* of errors, closes and quits it came to it.
StateIsTrue ==
  /\ connState = "connected" => sock \in {"open", "closing"}
  /\ sock \in {"failed", "closed", "none"} => connState \in {"closed", "error"}

\* onclose: "Don't set to closed on error".  After an error no handler that runs
\* later makes the node look as if all went well.
ErrorSticks == [][connState = "error" => connState' = "error"]_vars

\* However many countdowns run, and whatever the state of the websocket when the
\* first of them ends: a widget that is gone keeps no connection.
GoneIsClosed == ~inPage => sock \notin {"connecting", "open"}

\* A text that was typed is in the input, or was sent, or was dropped by a closed
\* websocket: in exactly one of these places and sent only once, over any number
\* of refusals and retries (the submit handler's "don't empty the input on error").
TextInOnePlace ==
  /\ \A i, j \in 1..Len(sent) : sent[i] = sent[j] => i = j
  /\ \A t \in typed \ Unknown :
       LET isSent == \E i \in 1..Len(sent) : sent[i] = t IN
       \/ t = input /\ ~isSent /\ t \notin dropped
       \/ t # input /\ isSent /\ t \notin dropped
       \/ t # input /\ ~isSent /\ t \in dropped

\* The page has its own title whenever it is visible, and never more than one
\* "new messages" before it, whatever came while it was hidden and however often.
TitleRestored == title <= 1 /\ (~hidden => title = 0)

\* A message shown in a hidden page makes the title blink until it is visible,
\* each time it is hidden anew.
NewsBlinks == unread => hidden /\ blink # "off"

\* A countdown from one or more ends with the widget out of the page, if it ever
\* had a websocket ("Closing groupchat in N seconds.").
QuitCloses ==
  \A k \in 1..MaxQuits :
    (k <= Len(left) /\ left[k] > 0 /\ sock # "none") ~> ~inPage

\* A text that a closing websocket dropped was emptied from the input as if sent;
\* at least the user sees in the end that the connection is gone: the message
\* says so, and the state of the node lets it be seen.
DropIsTold ==
  dropped # {} ~> ((connMsg = "disconnected" /\ ConnMsgShown) \/ ~inPage)

-------------------------------------------------------------------------------
(* The inductive invariant behind the invariants.                            *)

\* What the node shows is what the browser last reported; a page's own call of
\* close is not reported at once.
SockInv ==
  /\ sock \in {"connecting", "aborted"} => connState = "connecting"
  /\ sock \in {"open", "closing"} => connState = "connected"
  /\ sock \in {"failed", "none"} => connState = "error"
  /\ sock = "closed" => connState \in {"closed", "error"}

\* A text gets anywhere only by being typed.
TypedInv ==
  /\ \A i \in 1..Len(sent) : sent[i] \in typed
  /\ dropped \subseteq typed /\ input \in typed \cup {Empty}

\* The interval runs only while the page is hidden, only it changes the title, and
\* it was started from the page's own.
BlinkInv ==
  /\ oldTitle = 0 /\ title \in {0, 1}
  /\ interval <=> blink # "off"
  /\ interval => hidden
  /\ title # 0 => interval

IInv ==
  /\ TypeOK /\ SockInv /\ GoneIsClosed
  /\ TypedInv /\ TextInOnePlace
  /\ BlinkInv /\ NewsBlinks

===============================================================================
