--------------------------- MODULE ObservedProofs ----------------------------
(***************************************************************************)
(* The log page's properties for any window, buffer and number of events,  *)
(* and those of a request that feeds it, for any number of retries.        *)
(***************************************************************************)
EXTENDS Observed, SyncChatProofs, SequenceTheorems

(* Entries on the page, and behind them the messages on their way to it,   *)
(* are events published so far, in the order of publication.               *)
Ascending(s) == \A j, k \in DOMAIN s : j < k => s[j] < s[k]

QueueInv ==
    /\ PageInOrder
    /\ Ascending(inbox)
    /\ \A j \in DOMAIN page : page[j] <= published
    /\ \A k \in DOMAIN inbox : inbox[k] <= published
    /\ \A j \in DOMAIN page, k \in DOMAIN inbox : page[j] < inbox[k]

LiveInv == LiveTypeOK /\ QueueInv
-----------------------------------------------------------------------------
LEMMA LiveInitEstablishes == LiveInit => LiveInv
  <1> SUFFICES ASSUME LiveInit PROVE LiveInv
    OBVIOUS
  <1>1. paused \in BOOLEAN
    BY Zenon DEF LiveInit
  <1>2. LiveTypeOK
    BY <1>1, LiveLogAssumption DEF LiveInit, LiveTypeOK
  <1>3. QueueInv
    BY DEF LiveInit, QueueInv, PageInOrder, Ascending
  <1> QED
    BY <1>2, <1>3 DEF LiveInv

(* What the proofs use of a sequence of events. *)
LEMMA EventSeq ==
  ASSUME NEW s \in Seq(1..MaxEvents)
  PROVE  /\ Len(s) \in Nat /\ DOMAIN s = 1..Len(s)
         /\ \A k \in DOMAIN s : s[k] \in 1..MaxEvents /\ s[k] \in Nat
  BY LiveLogAssumption

(* Publish appends the largest number, or nothing. *)
LEMMA PublishKeeps == LiveInv /\ Publish => LiveInv'
  <1> SUFFICES ASSUME LiveInv, Publish PROVE LiveInv'
    OBVIOUS
  <1> USE LiveLogAssumption
  <1>1. /\ published \in Nat /\ published' = published + 1
        /\ published' \in 1..MaxEvents
        /\ inbox \in Seq(1..MaxEvents)
        /\ page \in Seq(1..MaxEvents)
        /\ UNCHANGED <<feed, page, paused>>
    BY DEF LiveInv, LiveTypeOK, Publish
  <1>2. CASE UNCHANGED inbox
    <2>1. LiveTypeOK'
      BY <1>1, <1>2 DEF LiveInv, LiveTypeOK
    <2>2. QueueInv'
      BY <1>1, <1>2 DEF LiveInv, QueueInv, PageInOrder, Ascending
    <2> QED
      BY <2>1, <2>2 DEF LiveInv
  <1>3. CASE Len(inbox) < Buffer /\ inbox' = Append(inbox, published')
    <2>1. /\ inbox' \in Seq(1..MaxEvents)
          /\ Len(inbox') = Len(inbox) + 1
          /\ \A k \in 1..Len(inbox) : inbox'[k] = inbox[k]
          /\ inbox'[Len(inbox) + 1] = published'
      BY <1>1, <1>3
    <2>2. LiveTypeOK'
      BY <1>1, <1>3, <2>1 DEF LiveInv, LiveTypeOK
    <2>3. /\ DOMAIN inbox' = 1..(Len(inbox) + 1)
          /\ DOMAIN inbox = 1..Len(inbox) /\ Len(inbox) \in Nat
          /\ \A k \in DOMAIN inbox : inbox[k] \in Nat
          /\ \A j \in DOMAIN page : page[j] \in Nat
      BY <1>1, <2>1, EventSeq
    <2> DEFINE last == Len(inbox) + 1
    <2>4. \A k \in DOMAIN inbox' : k = last \/ (k \in DOMAIN inbox /\ k < last)
      BY <2>3
    <2>5. \A k \in DOMAIN inbox : inbox'[k] = inbox[k] /\ inbox[k] < inbox'[last]
      BY <1>1, <2>1, <2>3 DEF LiveInv, QueueInv
    <2>6. \A j \in DOMAIN page : page[j] < inbox'[last]
      BY <1>1, <2>1, <2>3 DEF LiveInv, QueueInv
    <2>7. last \in Nat /\ last \notin DOMAIN inbox /\ inbox'[last] = published'
      BY <2>1, <2>3
    <2> HIDE DEF last
    <2>8. QueueInv'
      <3>1. PageInOrder' /\ \A j \in DOMAIN page' : page'[j] <= published'
        BY <1>1, <2>3 DEF LiveInv, QueueInv, PageInOrder
      <3>2. \A k \in DOMAIN inbox' : inbox'[k] <= published'
        <4>1. \A k \in DOMAIN inbox : inbox'[k] <= published
          BY <2>5 DEF LiveInv, QueueInv
        <4>2. \A k \in DOMAIN inbox : inbox'[k] <= published'
          BY <1>1, <2>3, <2>5, <4>1
        <4>3. inbox'[last] <= published'
          BY <1>1, <2>7
        <4> QED
          BY <2>4, <4>2, <4>3
      <3>3. Ascending(inbox')
        <4>1. SUFFICES ASSUME NEW j \in DOMAIN inbox', NEW k \in DOMAIN inbox', j < k
                       PROVE  inbox'[j] < inbox'[k]
          BY DEF Ascending
        <4>2. j \in DOMAIN inbox
          BY <2>3, <2>4, <2>7, <4>1
        <4> QED
          BY <2>4, <2>5, <4>1, <4>2 DEF LiveInv, QueueInv, Ascending
      <3>4. \A j \in DOMAIN page', k \in DOMAIN inbox' : page'[j] < inbox'[k]
        BY <1>1, <2>4, <2>5, <2>6 DEF LiveInv, QueueInv
      <3> QED
        BY <3>1, <3>2, <3>3, <3>4 DEF QueueInv, Ascending
    <2> QED
      BY <2>2, <2>8 DEF LiveInv
  <1> QED
    BY <1>2, <1>3 DEF Publish

(* The first message goes to the front of the page; the page is cut at its *)
(* end.                                                                    *)
LEMMA PrependProps ==
  ASSUME page \in Seq(1..MaxEvents), Len(page) <= Window, NEW m \in 1..MaxEvents
  PROVE  /\ Prepend(m) \in Seq(1..MaxEvents)
         /\ Len(Prepend(m)) \in 1..Window
         /\ Prepend(m)[1] = m
         /\ \A j \in 2..Len(Prepend(m)) :
               j - 1 \in DOMAIN page /\ Prepend(m)[j] = page[j - 1]
         /\ \A j \in DOMAIN page :
               j + 1 \in DOMAIN Prepend(m) \/ (j = Window /\ Len(Prepend(m)) = Window)
  <1> USE LiveLogAssumption
  <1> DEFINE rest == IF Len(page) < Window THEN page ELSE SubSeq(page, 1, Window - 1)
  <1>0. Len(page) \in Nat /\ DOMAIN page = 1..Len(page)
    BY EventSeq
  <1>1. rest \in Seq(1..MaxEvents)
    <2>1. \A j \in 1..(Window - 1) : Len(page) >= Window => page[j] \in 1..MaxEvents
      BY <1>0, EventSeq
    <2>2. CASE Len(page) < Window
      BY <2>2
    <2>3. CASE ~(Len(page) < Window)
      <3>1. \A j \in 1..(Window - 1) : page[j] \in 1..MaxEvents
        BY <1>0, <2>1, <2>3
      <3>2. SubSeq(page, 1, Window - 1) \in Seq(1..MaxEvents)
        BY <3>1, SubSeqProperties
      <3> QED
        BY <2>3, <3>2
    <2> QED
      BY <2>2, <2>3
  <1>2. /\ Len(rest) = IF Len(page) < Window THEN Len(page) ELSE Window - 1
        /\ \A j \in 1..Len(rest) : rest[j] = page[j] /\ j \in DOMAIN page
    <2>1. CASE Len(page) < Window
      BY <2>1, <1>0
    <2>2. CASE ~(Len(page) < Window)
      BY <2>2, <1>0, SubSeqProperties
    <2> QED
      BY <2>1, <2>2
  <1>3. Prepend(m) = <<m>> \o rest
    BY DEF Prepend
  <1>4. Len(rest) \in Nat
    BY <1>1
  <1> HIDE DEF rest
  <1>5. /\ Prepend(m) \in Seq(1..MaxEvents)
        /\ Len(Prepend(m)) = Len(rest) + 1
        /\ Prepend(m)[1] = m
        /\ \A j \in 2..(Len(rest) + 1) : Prepend(m)[j] = rest[j - 1]
    BY <1>1, <1>3
  <1>6. DOMAIN Prepend(m) = 1..(Len(rest) + 1) /\ DOMAIN page = 1..Len(page)
    BY <1>5
  <1>7. Len(page) \in Nat
    OBVIOUS
  <1>8. Len(Prepend(m)) \in 1..Window
    BY <1>2, <1>4, <1>5, <1>7
  <1>9. \A j \in 2..Len(Prepend(m)) :
           j - 1 \in DOMAIN page /\ Prepend(m)[j] = page[j - 1]
    <2>1. \A j \in 2..(Len(rest) + 1) : j - 1 \in 1..Len(rest)
      BY <1>4
    <2> QED
      BY <1>2, <1>5, <2>1
  <1>10. \A j \in DOMAIN page :
           j + 1 \in DOMAIN Prepend(m) \/ (j = Window /\ Len(Prepend(m)) = Window)
    <2>1. SUFFICES ASSUME NEW j \in 1..Len(page)
                   PROVE  j + 1 \in 1..(Len(rest) + 1) \/ (j = Window /\ Len(rest) + 1 = Window)
      BY <1>5, <1>6, Zenon
    <2>2. Len(rest) = IF Len(page) < Window THEN Len(page) ELSE Window - 1
      BY <1>2
    <2> QED
      BY <1>4, <1>7, <2>2
  <1> QED
    BY <1>5, <1>8, <1>9, <1>10

LEMMA ShowKeeps == LiveInv /\ Show => LiveInv'
  <1> SUFFICES ASSUME LiveInv, Show PROVE LiveInv'
    OBVIOUS
  <1> USE LiveLogAssumption
  <1>1. /\ inbox \in Seq(1..MaxEvents) /\ inbox # <<>> /\ Len(inbox) <= Buffer
        /\ page \in Seq(1..MaxEvents) /\ Len(page) <= Window
        /\ published \in Nat
        /\ UNCHANGED <<published, feed, paused>>
    BY DEF LiveInv, LiveTypeOK, Show
  <1>2. /\ inbox' \in Seq(1..MaxEvents)
        /\ Len(inbox') = Len(inbox) - 1
        /\ \A k \in DOMAIN inbox' : /\ k + 1 \in DOMAIN inbox
                                    /\ inbox'[k] = inbox[k + 1]
                                    /\ 1 < k + 1
    BY <1>1 DEF Show
  <1>3. Head(inbox) \in 1..MaxEvents /\ Head(inbox) = inbox[1] /\ 1 \in DOMAIN inbox
    BY <1>1
  <1>4. \A k \in DOMAIN inbox' : Head(inbox) < inbox'[k] /\ inbox'[k] <= published
    BY <1>2, <1>3 DEF LiveInv, QueueInv, Ascending
  <1>5. Ascending(inbox')
    <2> SUFFICES ASSUME NEW j \in DOMAIN inbox', NEW k \in DOMAIN inbox', j < k
                 PROVE  inbox'[j] < inbox'[k]
      BY DEF Ascending
    <2>1. DOMAIN inbox' = 1..Len(inbox') /\ Len(inbox') \in Nat
      BY <1>2, EventSeq
    <2>2. j + 1 < k + 1
      BY <2>1
    <2>3. /\ j + 1 \in DOMAIN inbox /\ k + 1 \in DOMAIN inbox
          /\ inbox'[j] = inbox[j + 1] /\ inbox'[k] = inbox[k + 1]
      BY <1>2
    <2> QED
      BY <2>2, <2>3 DEF LiveInv, QueueInv, Ascending
  <1>6. CASE page' = page
    <2>1. LiveTypeOK'
      BY <1>1, <1>2, <1>6 DEF LiveInv, LiveTypeOK
    <2>2. \A j \in DOMAIN page', k \in DOMAIN inbox' : page'[j] < inbox'[k]
      BY <1>2, <1>6 DEF LiveInv, QueueInv
    <2>3. QueueInv'
      BY <1>1, <1>4, <1>5, <1>6, <2>2 DEF LiveInv, QueueInv, PageInOrder, Ascending
    <2> QED
      BY <2>1, <2>3 DEF LiveInv
  <1>7. CASE page' = Prepend(Head(inbox))
    <2>1. /\ page' \in Seq(1..MaxEvents)
          /\ Len(page') \in 1..Window
          /\ page'[1] = inbox[1]
          /\ \A j \in 2..Len(page') : j - 1 \in DOMAIN page /\ page'[j] = page[j - 1]
      BY <1>1, <1>3, <1>7, PrependProps
    <2>2. LiveTypeOK'
      BY <1>1, <1>2, <2>1 DEF LiveInv, LiveTypeOK
    <2>3. \A j \in DOMAIN page' : j = 1 \/ j \in 2..Len(page')
      BY <2>1
    <2>4. \A j \in 2..Len(page') : page'[j] < inbox[1]
      BY <1>3, <2>1 DEF LiveInv, QueueInv
    <2>5. inbox[1] <= published /\ inbox[1] \in Nat /\ inbox' \in Seq(Nat) /\ page' \in Seq(Nat)
      BY <1>2, <1>3, <2>1 DEF LiveInv, QueueInv
    <2>6. PageInOrder'
      <3>1. SUFFICES ASSUME NEW j \in DOMAIN page', NEW k \in DOMAIN page', j < k
                     PROVE  page'[j] > page'[k]
        BY DEF PageInOrder
      <3>2. k \in 2..Len(page')
        BY <2>1, <3>1
      <3>3. CASE j = 1
        BY <2>1, <2>4, <2>5, <3>2, <3>3
      <3>4. CASE j \in 2..Len(page')
        <4>1. /\ j - 1 \in DOMAIN page /\ k - 1 \in DOMAIN page /\ j - 1 < k - 1
              /\ page'[j] = page[j - 1] /\ page'[k] = page[k - 1]
          <5>1. j - 1 < k - 1
            BY <2>1, <3>1, <3>2, <3>4
          <5> QED
            BY <2>1, <3>2, <3>4, <5>1
        <4> QED
          BY <4>1 DEF LiveInv, QueueInv, PageInOrder
      <3> QED
        BY <2>3, <3>3, <3>4
    <2>7. \A j \in DOMAIN page' : page'[j] <= inbox[1] /\ page'[j] \in Nat
      <3>1. \A j \in DOMAIN page' : page'[j] \in Nat
        BY <2>1, EventSeq
      <3> QED
        <4> SUFFICES ASSUME NEW j \in DOMAIN page' PROVE page'[j] <= inbox[1]
          BY <3>1
        <4>1. page'[j] \in Nat /\ inbox[1] \in Nat
          BY <2>5, <3>1
        <4>2. CASE j = 1
          BY <2>1, <4>1, <4>2
        <4>3. CASE j \in 2..Len(page')
          <5>1. page'[j] < inbox[1]
            BY <2>4, <4>3
          <5> QED
            BY <4>1, <5>1
        <4> QED
          BY <2>3, <4>2, <4>3
    <2>8. \A j \in DOMAIN page' : page'[j] <= published'
      BY <1>1, <2>5, <2>7
    <2>9. \A j \in DOMAIN page', k \in DOMAIN inbox' : page'[j] < inbox'[k]
      <3>1. \A k \in DOMAIN inbox' : inbox[1] < inbox'[k] /\ inbox'[k] \in Nat
        BY <1>3, <1>4, <2>5
      <3> QED
        BY <2>5, <2>7, <3>1
    <2>10. QueueInv'
      BY <1>1, <1>4, <1>5, <2>6, <2>8, <2>9 DEF QueueInv, Ascending
    <2> QED
      BY <2>2, <2>10 DEF LiveInv
  <1> QED
    BY <1>6, <1>7 DEF Show

(* The other steps of the page leave or empty its lists. *)
LEMMA PageKeeps ==
  ASSUME LiveInv, Mount \/ Refuse \/ Subscribe \/ Break \/ Unmount \/ TogglePause
  PROVE  LiveInv'
  <1>1. paused' \in BOOLEAN
    BY Zenon DEF LiveInv, LiveTypeOK, Mount, Refuse, Subscribe, Break, Unmount,
           TogglePause
  <1>2. /\ published' = published
        /\ inbox' \in {inbox, <<>>}
        /\ page' \in {page, <<>>}
        /\ feed' \in {"off", "connecting", "open", "broken"}
    BY DEF LiveInv, LiveTypeOK, Mount, Refuse, Subscribe, Break, Unmount,
           TogglePause
  <1>3. LiveTypeOK'
    <2>1. /\ inbox' \in Seq(1..MaxEvents) /\ Len(inbox') <= Buffer
          /\ page' \in Seq(1..MaxEvents) /\ Len(page') <= Window
      <3>1. <<>> \in Seq(1..MaxEvents) /\ Len(<<>>) = 0
        OBVIOUS
      <3>2. inbox' \in Seq(1..MaxEvents) /\ page' \in Seq(1..MaxEvents)
        BY <1>2, <3>1 DEF LiveInv, LiveTypeOK
      <3>3. Len(inbox') <= Buffer
        BY <1>2, <3>1, LiveLogAssumption DEF LiveInv, LiveTypeOK
      <3>4. Len(page') <= Window
        BY <1>2, <3>1, LiveLogAssumption DEF LiveInv, LiveTypeOK
      <3> QED
        BY <3>2, <3>3, <3>4
    <2> QED
      BY <1>1, <1>2, <2>1 DEF LiveInv, LiveTypeOK
  <1>4. QueueInv'
    BY <1>2 DEF LiveInv, QueueInv, PageInOrder, Ascending
  <1> QED
    BY <1>3, <1>4 DEF LiveInv

LEMMA LiveNextKeeps == LiveInv /\ [Publish \/ Dashboard]_liveVars => LiveInv'
  <1> SUFFICES ASSUME LiveInv, [Publish \/ Dashboard]_liveVars PROVE LiveInv'
    OBVIOUS
  <1>1. CASE UNCHANGED liveVars
    BY <1>1 DEF LiveInv, LiveTypeOK, QueueInv, PageInOrder, Ascending, liveVars
  <1>2. CASE Publish
    BY <1>2, PublishKeeps
  <1>3. CASE Dashboard
    BY <1>3, ShowKeeps, PageKeeps DEF Dashboard
  <1> QED
    BY <1>1, <1>2, <1>3

LEMMA LiveInductive == LiveSpec => []LiveInv
  BY LiveInitEstablishes, LiveNextKeeps, PTL DEF LiveSpec
-----------------------------------------------------------------------------
(* A step of the whole is a step of the request, and a step of the log, or *)
(* leaves them alone: what is proved of the parts holds for the whole.     *)
LEMMA StepOfParts ==
  ASSUME [ObservedNext]_observedVars
  PROVE  [Next]_vars /\ [Publish \/ Dashboard]_liveVars
  <1>1. CASE UNCHANGED observedVars
    BY <1>1 DEF observedVars
  <1>2. CASE RequestStep
    BY <1>2 DEF RequestStep, BroadcastEvent, Next, Goroutine
  <1>3. CASE Departure
    BY <1>3 DEF Departure, Next
  <1>4. CASE OtherRequest
    BY <1>4 DEF OtherRequest
  <1>5. CASE DashboardStep
    BY <1>5 DEF DashboardStep
  <1> QED
    BY <1>1, <1>2, <1>3, <1>4, <1>5 DEF ObservedNext

(* Next to other requests and a dashboard, a request still behaves as      *)
(* SyncChat says, and the log as LiveLog says.                             *)
THEOREM ComposesParts == ObservedSpec => Spec /\ LiveSpec
  <1>1. ObservedInit => Init /\ LiveInit
    BY DEF ObservedInit
  <1> QED
    BY <1>1, StepOfParts, PTL DEF ObservedSpec, Spec, LiveSpec

LEMMA PartsInductive == ObservedSpec => []IInv /\ []LiveInv
  BY ComposesParts, Inductive, LiveInductive, PTL

(* A request publishes the newest event, and events are never withdrawn.   *)
LEMMA MineStep ==
  ASSUME LiveInv, mine \in 0..published, [ObservedNext]_observedVars
  PROVE  mine' \in 0..published'
  <1>1. /\ published \in Nat /\ published' \in Nat /\ mine \in Nat
        /\ published' >= published
    <2>1. published \in 0..MaxEvents
      BY DEF LiveInv, LiveTypeOK
    <2>2. published' = published \/ published' = published + 1
      BY StepOfParts
         DEF liveVars, Publish, Dashboard, Mount, Refuse, Subscribe, Show, Break,
             Unmount, TogglePause
    <2> QED
      BY <2>1, <2>2, LiveLogAssumption
  <1>2. mine' = mine \/ mine' = published'
    BY DEF observedVars, ObservedNext, RequestStep, BroadcastEvent, Departure,
           OtherRequest, DashboardStep
  <1> QED
    BY <1>1, <1>2

(* The parts stay well typed together: Chat's loop ends at MaxRetries, page*)
(* and inbox keep to their limits (resilient.go:36, page.tsx:33), and the  *)
(* request's event is one that was published.                              *)
THEOREM ObservedTypeCorrect == ObservedSpec => []ObservedTypeOK
  <1> DEFINE M == mine \in 0..published
  <1>1. ObservedInit => M
    BY DEF ObservedInit, LiveInit
  <1>2. LiveInv /\ M /\ [ObservedNext]_observedVars => M'
    BY MineStep
  <1>3. IInv /\ LiveInv /\ M => ObservedTypeOK
    BY DEF IInv, LiveInv, ObservedTypeOK
  <1> HIDE DEF M
  <1> QED
    BY <1>1, <1>2, <1>3, PartsInductive, PTL DEF ObservedSpec

(* The page lists events newest first and none twice, however the feed     *)
(* loses messages and the page is paused, closed and opened                *)
(* (page.tsx:30-34).                                                       *)
THEOREM AlwaysInOrder == ObservedSpec => []PageInOrder
  <1>1. LiveInv => PageInOrder
    BY DEF LiveInv, QueueInv
  <1> QED
    BY <1>1, PartsInductive, PTL
-----------------------------------------------------------------------------
(* An entry's place after one more message; the last entry of a full page  *)
(* makes room.                                                             *)
LEMMA ShowKeepsLast ==
  ASSUME LiveInv, Show, NEW j \in DOMAIN page
  PROVE  \/ \E k \in DOMAIN page' : page'[k] = page[j]
         \/ Len(page') = Window /\ page'[Window] > page[j]
  <1> USE LiveLogAssumption
  <1>1. /\ inbox \in Seq(1..MaxEvents) /\ inbox # <<>>
        /\ page \in Seq(1..MaxEvents) /\ Len(page) <= Window
    BY DEF LiveInv, LiveTypeOK, Show
  <1>2. Head(inbox) \in 1..MaxEvents /\ Head(inbox) = inbox[1] /\ 1 \in DOMAIN inbox
    BY <1>1
  <1>3. CASE page' = page
    BY <1>3
  <1>4. CASE page' = Prepend(Head(inbox))
    <2>1. /\ page' \in Seq(1..MaxEvents)
          /\ page'[1] = inbox[1]
          /\ \A k \in 2..Len(page') : k - 1 \in DOMAIN page /\ page'[k] = page[k - 1]
          /\ j + 1 \in DOMAIN page' \/ (j = Window /\ Len(page') = Window)
      BY <1>1, <1>2, <1>4, PrependProps
    <2>2. j \in Nat /\ j >= 1
      BY <1>1, EventSeq
    <2>3. CASE j + 1 \in DOMAIN page'
      <3>1. j + 1 \in 2..Len(page')
        BY <2>1, <2>2, <2>3, EventSeq
      <3>2. page'[j + 1] = page[j]
        BY <2>1, <2>2, <3>1
      <3> QED
        BY <2>3, <3>2
    <2>4. CASE j = Window /\ Len(page') = Window
      <3>1. CASE Window = 1
        <4>1. page[j] < inbox[1] /\ page[j] \in Nat /\ inbox[1] \in Nat
          BY <1>1, <1>2, EventSeq DEF LiveInv, QueueInv
        <4> QED
          BY <2>1, <2>4, <3>1, <4>1
      <3>2. CASE Window > 1
        <4>1. Window \in 2..Len(page')
          BY <2>4, <3>2
        <4>2. page'[Window] = page[Window - 1] /\ Window - 1 \in DOMAIN page
          BY <2>1, <4>1
        <4>3. page[Window - 1] > page[Window]
          BY <2>4, <4>2 DEF LiveInv, QueueInv, PageInOrder
        <4> QED
          BY <2>4, <4>2, <4>3
      <3> QED
        BY <3>1, <3>2
    <2> QED
      BY <2>1, <2>3, <2>4
  <1> QED
    BY <1>3, <1>4 DEF Show

(* An entry leaves an open page only for Window newer ones (page.tsx:33).  *)
THEOREM BufferKeepsLast == ObservedSpec => KeepsLast
  <1>1. ASSUME LiveInv, [Publish \/ Dashboard]_liveVars
        PROVE  [\A j \in DOMAIN page :
                   feed' # "off" =>
                       \/ \E k \in DOMAIN page' : page'[k] = page[j]
                       \/ Len(page') = Window /\ page'[Window] > page[j]]_liveVars
    <2>1. CASE UNCHANGED liveVars
      BY <2>1
    <2>2. CASE Publish \/ Mount \/ Refuse \/ Subscribe \/ Break \/ TogglePause
      BY <2>2 DEF Publish, Mount, Refuse, Subscribe, Break, TogglePause
    <2>3. CASE Unmount
      BY <2>3 DEF Unmount
    <2>4. CASE Show
      BY <1>1, <2>4, ShowKeepsLast
    <2> QED
      BY <1>1, <2>1, <2>2, <2>3, <2>4 DEF Dashboard
  <1> QED
    BY <1>1, ComposesParts, LiveInductive, PTL DEF LiveSpec, KeepsLast
-----------------------------------------------------------------------------
(* The first message of the inbox goes to the top of a page that is not    *)
(* paused, every other one moves up by one place.                          *)
LEMMA ShowDrains ==
  ASSUME LiveInv, Show, ~paused, NEW k \in DOMAIN inbox
  PROVE  \/ k > 1 /\ k - 1 \in DOMAIN inbox' /\ inbox'[k - 1] = inbox[k]
         \/ k = 1 /\ 1 \in DOMAIN page' /\ page'[1] = inbox[1]
  <1> USE LiveLogAssumption
  <1>1. /\ inbox \in Seq(1..MaxEvents) /\ inbox # <<>>
        /\ page \in Seq(1..MaxEvents) /\ Len(page) <= Window
    BY DEF LiveInv, LiveTypeOK, Show
  <1>2. /\ Len(inbox) \in Nat /\ DOMAIN inbox = 1..Len(inbox)
        /\ inbox' = Tail(inbox)
    BY <1>1, EventSeq DEF Show
  <1>3. CASE k = 1
    <2>1. Head(inbox) \in 1..MaxEvents /\ Head(inbox) = inbox[1]
      BY <1>1
    <2>2. /\ Prepend(Head(inbox)) \in Seq(1..MaxEvents)
          /\ Len(Prepend(Head(inbox))) \in 1..Window
          /\ Prepend(Head(inbox))[1] = inbox[1]
      BY <1>1, <2>1, PrependProps
    <2>3. page' = Prepend(Head(inbox))
      BY DEF Show
    <2>4. DOMAIN page' = 1..Len(page') /\ Len(page') \in Nat /\ Len(page') >= 1
      BY <2>2, <2>3, EventSeq, LiveLogAssumption
    <2> QED
      BY <1>3, <2>2, <2>3, <2>4
  <1>4. CASE k # 1
    <2>1. k \in Nat /\ k > 1 /\ k - 1 \in 1..(Len(inbox) - 1)
      BY <1>2, <1>4
    <2>2. /\ Len(Tail(inbox)) = Len(inbox) - 1
          /\ DOMAIN Tail(inbox) = 1..(Len(inbox) - 1)
          /\ \A j \in 1..(Len(inbox) - 1) : Tail(inbox)[j] = inbox[j + 1]
      BY <1>1, <1>2
    <2>3. Tail(inbox)[k - 1] = inbox[(k - 1) + 1] /\ (k - 1) + 1 = k
      BY <2>1, <2>2
    <2> QED
      BY <1>2, <2>1, <2>2, <2>3
  <1> QED
    BY <1>3, <1>4

(* What HandedOutIsShown rests on: between Redis and a page that is open   *)
(* and not paused no message is lost, overtaken or put further back, and   *)
(* the one that leaves is at the top of the page (admin.go:81-89,          *)
(* page.tsx:30-34).                                                        *)
THEOREM InboxDrains ==
  ObservedSpec =>
    [][\A k \in DOMAIN inbox :
          feed' = "open" /\ ~paused =>
              \/ k \in DOMAIN inbox' /\ inbox'[k] = inbox[k]
              \/ k > 1 /\ k - 1 \in DOMAIN inbox' /\ inbox'[k - 1] = inbox[k]
              \/ k = 1 /\ 1 \in DOMAIN page' /\ page'[1] = inbox[1]]_liveVars
  <1>1. ASSUME LiveInv, [Publish \/ Dashboard]_liveVars
        PROVE  [\A k \in DOMAIN inbox :
                  feed' = "open" /\ ~paused =>
                      \/ k \in DOMAIN inbox' /\ inbox'[k] = inbox[k]
                      \/ k > 1 /\ k - 1 \in DOMAIN inbox' /\ inbox'[k - 1] = inbox[k]
                      \/ k = 1 /\ 1 \in DOMAIN page' /\ page'[1] = inbox[1]]_liveVars
    <2>1. CASE UNCHANGED liveVars
      BY <2>1
    <2>2. CASE Mount \/ Refuse \/ Subscribe \/ TogglePause
      BY <2>2 DEF Mount, Refuse, Subscribe, TogglePause
    <2>3. CASE Unmount \/ Break
      BY <2>3 DEF Unmount, Break
    <2>4. CASE Show
      BY <1>1, <2>4, ShowDrains
    <2>5. CASE Publish
      <3>1. inbox \in Seq(1..MaxEvents) /\ published + 1 \in 1..MaxEvents
        BY <1>1, <2>5, LiveLogAssumption DEF LiveInv, LiveTypeOK, Publish
      <3>2. \A k \in DOMAIN inbox : k \in DOMAIN inbox' /\ inbox'[k] = inbox[k]
        BY <2>5, <3>1 DEF Publish
      <3> QED
        BY <3>2
    <2> QED
      BY <1>1, <2>1, <2>2, <2>3, <2>4, <2>5 DEF Dashboard
  <1> QED
    BY <1>1, ComposesParts, LiveInductive, PTL DEF LiveSpec
=============================================================================
