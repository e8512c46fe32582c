------------------------------ MODULE WidgetProofs ------------------------------
(***************************************************************************)
(* The widget's connection, input and title for any texts and countdowns.  *)
(*                                                                         *)
(* The argument: IInv (Widget.tla) is inductive.  It falls into parts that *)
(* have nothing to do with each other, the connection, the texts and the   *)
(* title; there is one lemma for each.                                     *)
(***************************************************************************)
EXTENDS Widget, SequenceTheorems, TLAPS

\* What ends a countdown, and what it leaves alone.
LEMMA TickDoes ==
  ASSUME NEW k \in 1..Len(left), Tick(k)
  PROVE  /\ UNCHANGED <<conn, tab, nameOk, texts>>
         /\ QuitImmediately \/ UNCHANGED <<sock, inPage, onquit>>
         /\ left[k] > 0 /\ left' = [left EXCEPT ![k] = @ - 1]
BY DEF Tick

-------------------------------------------------------------------------------
(* The connection.                                                           *)

ConnTypeOK ==
  /\ sock \in {"none", "connecting", "open", "closing", "aborted", "failed", "closed"}
  /\ connState \in {"connecting", "connected", "closed", "error"}
  /\ connMsg \in {"connecting", "connected", "disconnected"}
  /\ inPage \in BOOLEAN /\ onquit \in {"handler", "empty", "undefined"}

\* Every report of the browser changes the node's state along with the websocket's;
\* only quitting changes the websocket without.
LEMMA ConnKept ==
  ASSUME ConnTypeOK, SockInv, GoneIsClosed, [Next]_vars
  PROVE  ConnTypeOK' /\ SockInv' /\ GoneIsClosed'
<1> USE DEF ConnTypeOK, SockInv, GoneIsClosed, conn
<1>1. CASE OnOpen
  BY <1>1 DEF OnOpen, quits
<1>2. CASE HubCloses
  BY <1>2 DEF HubCloses, quits
<1>3. CASE OnError
  BY <1>3 DEF OnError, quits
<1>4. CASE OnClose
  BY <1>4 DEF OnClose, SayDisconnected, quits
<1>5. ASSUME NEW k \in 1..Len(left), Tick(k)
      PROVE  ConnTypeOK' /\ SockInv' /\ GoneIsClosed'
  BY <1>5, TickDoes DEF QuitImmediately, CloseSocket
<1>6. CASE UNCHANGED <<sock, conn, inPage, onquit>>
  BY <1>6
<1> QED BY <1>1, <1>2, <1>3, <1>4, <1>5, <1>6
        DEF Next, vars, quits, HandleIncomingMessage, Blink, Hide, Show, Type, Submit,
            Nick, QuitDelay

\* Once the browser has reported an error the websocket only ends.
LEMMA ErrorKept ==
  ASSUME SockInv, [Next]_vars, connState = "error"
  PROVE  connState' = "error"
<1> USE DEF SockInv, conn
<1>1. ASSUME NEW k \in 1..Len(left), Tick(k)
      PROVE  connState' = connState
  BY <1>1, TickDoes
<1> QED BY <1>1 DEF Next, vars, OnOpen, HubCloses, OnError, OnClose, HandleIncomingMessage,
                    Blink, Hide, Show, Type, Submit, Nick, QuitDelay

-------------------------------------------------------------------------------
(* The title.                                                                *)

TabTypeOK ==
  /\ hidden \in BOOLEAN /\ interval \in BOOLEAN /\ unread \in BOOLEAN
  /\ title \in Nat /\ oldTitle \in Nat /\ blink \in {"off", "news", "old"}

\* The interval is started with the page's own title and cleared together with the
\* restoring of it.
LEMMA TabKept ==
  ASSUME TabTypeOK, BlinkInv, NewsBlinks, [Next]_vars
  PROVE  TabTypeOK' /\ BlinkInv' /\ NewsBlinks'
<1> USE DEF TabTypeOK, BlinkInv, NewsBlinks
<1>1. ASSUME NEW own \in BOOLEAN, HandleIncomingMessage(own)
      PROVE  TabTypeOK' /\ BlinkInv' /\ NewsBlinks'
  <2>1. UNCHANGED <<hidden, title>>
    BY <1>1 DEF HandleIncomingMessage
  <2>2. CASE UNCHANGED <<oldTitle, interval, blink, unread>>
    BY <2>1, <2>2
  <2>3. CASE hidden /\ unread' = TRUE /\ UNCHANGED <<oldTitle, interval, blink>> /\ interval
    BY <2>1, <2>3
  <2>4. CASE /\ hidden /\ unread' = TRUE /\ ~interval
             /\ oldTitle' = title /\ interval' = TRUE /\ blink' = "news"
    BY <2>1, <2>4
  <2> QED BY <1>1, <2>2, <2>3, <2>4 DEF HandleIncomingMessage, StartBlinking
<1>2. CASE Blink
  BY <1>2 DEF Blink
<1>3. CASE Hide
  BY <1>3 DEF Hide
<1>4. CASE Show
  <2>1. hidden' = FALSE /\ unread' = FALSE /\ oldTitle' = oldTitle
    BY <1>4 DEF Show
  <2>2. CASE interval /\ interval' = FALSE /\ blink' = "off" /\ title' = oldTitle
    BY <2>1, <2>2
  <2>3. CASE ~interval /\ UNCHANGED <<interval, blink, title>>
    BY <2>1, <2>3
  <2> QED BY <1>4, <2>2, <2>3 DEF Show
<1>5. CASE UNCHANGED tab
  BY <1>5 DEF tab
<1>6. ASSUME NEW k \in 1..Len(left), Tick(k)
      PROVE  UNCHANGED tab
  BY <1>6, TickDoes
<1>7. CASE \/ OnOpen \/ HubCloses \/ OnError \/ OnClose \/ Submit
           \/ (\E t \in Texts : Type(t)) \/ (\E ok \in BOOLEAN : Nick(ok))
           \/ (\E d \in Delays : QuitDelay(d)) \/ UNCHANGED vars
  <2> UNCHANGED tab
    BY <1>7 DEF vars, OnOpen, HubCloses, OnError, OnClose, Submit, Type, Nick, QuitDelay
  <2> QED BY <1>5
<1> QED BY <1>1, <1>2, <1>3, <1>4, <1>5, <1>6, <1>7 DEF Next

-------------------------------------------------------------------------------
(* The texts.                                                                *)

TextTypeOK ==
  /\ input \in Texts \cup {Empty} /\ typed \subseteq Texts /\ dropped \subseteq Texts
  /\ sent \in Seq(Texts)

\* A text is in the input when it is typed, and leaves it to be sent or dropped.
LEMMA TextKept ==
  ASSUME TextTypeOK, TypedInv, TextInOnePlace, [Next]_vars
  PROVE  TextTypeOK' /\ TypedInv' /\ TextInOnePlace'
<1> USE WidgetAssumption DEF TextTypeOK, TypedInv, TextInOnePlace
<1>1. ASSUME NEW t \in Texts, Type(t)
      PROVE  TextTypeOK' /\ TypedInv' /\ TextInOnePlace'
  BY <1>1 DEF Type
<1>2. CASE Submit /\ input' = input
  BY <1>2 DEF Submit, Send
<1>3. CASE Submit /\ input' # input
  <2>1. input \in typed \ Unknown /\ input # Empty /\ input' = Empty /\ typed' = typed /\ Send
    BY <1>3 DEF Submit, Refused
  <2>2. /\ \A i \in 1..Len(sent) : sent[i] # input
        /\ input \notin dropped
    BY <2>1
  <2>3. CASE sent' = sent /\ dropped' = dropped \cup {input}
    BY <2>1, <2>2, <2>3
  <2>4. CASE sent' = Append(sent, input) /\ dropped' = dropped
    <3>1. /\ sent' \in Seq(Texts) /\ Len(sent') = Len(sent) + 1
          /\ \A i \in 1..Len(sent) : sent'[i] = sent[i]
          /\ sent'[Len(sent) + 1] = input
      BY <2>1, <2>4, AppendProperties
    <3>2. /\ Len(sent) + 1 \in 1..Len(sent')
          /\ \A i \in 1..Len(sent') : i \in 1..Len(sent) \/ i = Len(sent) + 1
          /\ 1..Len(sent) \subseteq 1..Len(sent')
      BY <3>1
    <3>3. \A i, j \in 1..Len(sent') : sent'[i] = sent'[j] => i = j
      BY <2>2, <3>1, <3>2
    <3>4. \A t : (\E i \in 1..Len(sent') : sent'[i] = t)
                   <=> (t = input \/ \E i \in 1..Len(sent) : sent[i] = t)
      BY <3>1, <3>2
    <3> QED BY <2>1, <2>2, <2>4, <3>1, <3>3, <3>4
  <2> QED BY <2>1, <2>3, <2>4 DEF Send
<1>4. CASE UNCHANGED texts
  BY <1>4 DEF texts
<1> QED BY <1>1, <1>2, <1>3, <1>4, TickDoes
        DEF Next, vars, OnOpen, HubCloses, OnError, OnClose, HandleIncomingMessage, Blink,
            Hide, Show, Nick, QuitDelay

-------------------------------------------------------------------------------
(* All of it.                                                                *)

RestTypeOK == left \in Seq(Nat) /\ nameOk \in BOOLEAN

\* A countdown starts from a number and is over at zero.
LEMMA RestKept ==
  ASSUME RestTypeOK, [Next]_vars
  PROVE  RestTypeOK'
<1> USE WidgetAssumption DEF RestTypeOK
<1>1. ASSUME NEW d \in Delays, QuitDelay(d)
      PROVE  RestTypeOK'
  BY <1>1, AppendProperties DEF QuitDelay
<1>2. ASSUME NEW k \in 1..Len(left), Tick(k)
      PROVE  RestTypeOK'
  <2>1. left[k] \in Nat /\ left[k] > 0 /\ left' = [left EXCEPT ![k] = left[k] - 1]
    BY <1>2, TickDoes
  <2>2. left[k] - 1 \in Nat
    BY <2>1
  <2>3. left' \in Seq(Nat)
    BY <2>1, <2>2, ExceptSeq
  <2> QED BY <1>2, <2>3, TickDoes
<1>3. ASSUME NEW ok \in BOOLEAN, Nick(ok)
      PROVE  RestTypeOK'
  BY <1>3 DEF Nick, quits
<1>4. CASE UNCHANGED <<left, nameOk>>
  BY <1>4
<1>5. CASE \/ OnOpen \/ HubCloses \/ OnError \/ OnClose \/ Submit \/ Blink \/ Hide \/ Show
           \/ (\E own \in BOOLEAN : HandleIncomingMessage(own))
           \/ (\E t \in Texts : Type(t)) \/ UNCHANGED vars
  <2> UNCHANGED <<left, nameOk>>
    BY <1>5 DEF vars, quits, OnOpen, HubCloses, OnError, OnClose, Submit, Blink, Hide, Show,
                HandleIncomingMessage, Type
  <2> QED BY <1>4
<1> QED BY <1>1, <1>2, <1>3, <1>4, <1>5 DEF Next

LEMMA TypeParts ==
  /\ TypeOK <=> ConnTypeOK /\ TabTypeOK /\ TextTypeOK /\ RestTypeOK
  /\ TypeOK' <=> ConnTypeOK' /\ TabTypeOK' /\ TextTypeOK' /\ RestTypeOK'
BY DEF TypeOK, ConnTypeOK, TabTypeOK, TextTypeOK, RestTypeOK

\* A page starts with nothing typed, no message shown and its own title.
LEMMA Initial == Init => IInv
<1> SUFFICES ASSUME Init PROVE IInv
  OBVIOUS
<1> USE WidgetAssumption DEF Init
<1>1. ConnTypeOK /\ SockInv /\ GoneIsClosed
  BY DEF ConnTypeOK, SockInv, GoneIsClosed
<1>2. TabTypeOK /\ BlinkInv /\ NewsBlinks
  BY DEF TabTypeOK, BlinkInv, NewsBlinks
<1>3. TextTypeOK /\ TypedInv /\ TextInOnePlace
  BY EmptySeq DEF TextTypeOK, TypedInv, TextInOnePlace
<1>4. RestTypeOK
  BY EmptySeq DEF RestTypeOK
<1> QED BY <1>1, <1>2, <1>3, <1>4, TypeParts DEF IInv

LEMMA Inductive == IInv /\ [Next]_vars => IInv'
BY ConnKept, TabKept, TextKept, RestKept, TypeParts DEF IInv

\* The invariant that the theorems below rest on, for any texts and countdowns.
THEOREM Invariance == Spec => []IInv
BY Initial, Inductive, PTL DEF Spec

\* Every variable of the widget has the type of the code's.
THEOREM TypeCorrect == Spec => []TypeOK
BY Invariance, PTL DEF IInv

\* What connectWebsocket's handlers leave in the node agrees with the websocket, for
\* any order of errors, closes and quits.
THEOREM StateShownIsTrue == Spec => []StateIsTrue
<1>1. IInv => StateIsTrue
  BY DEF IInv, TypeOK, SockInv, StateIsTrue
<1> QED BY <1>1, Invariance, PTL

\* onclose after onerror, and every other handler, leave an error as it is.
THEOREM ErrorsStick == Spec => ErrorSticks
<1>1. IInv /\ [Next]_vars => [connState = "error" => connState' = "error"]_vars
  BY ErrorKept DEF IInv
<1> QED BY <1>1, Invariance, PTL DEF Spec, ErrorSticks

\* However many countdowns of quitDelay run, a widget that quitImmediately took out of
\* the page has a websocket that is closed or closing.
THEOREM GoneKeepsNoConnection == Spec => []GoneIsClosed
BY Invariance, PTL DEF IInv

\* The submit handler neither loses a text nor sends one twice, whatever throws.
THEOREM TextsAreKept == Spec => []TextInOnePlace
BY Invariance, PTL DEF IInv

\* The page has its own title whenever visibilitychange has shown it, and one
\* "new messages" before it at most.
THEOREM TitleComesBack == Spec => []TitleRestored
<1>1. IInv => TitleRestored
  BY DEF IInv, BlinkInv, TitleRestored
<1> QED BY <1>1, Invariance, PTL

\* A message handled while the page is hidden has callAlternating at work until it
\* is shown.
THEOREM NewsIsTold == Spec => []NewsBlinks
BY Invariance, PTL DEF IInv

================================================================================
