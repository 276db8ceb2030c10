------------------------------- MODULE LiveLog -------------------------------
(***************************************************************************)
(* The live log: what Broadcast (internal/logging/logging.go) publishes on *)
(* the Redis channel logs:live goes through streamLogs                     *)
(* (internal/router/admin.go) to the dashboard's log page                  *)
(* (ui/src/app/logs/page.tsx). One page is modelled; events are numbered in*)
(* the order in which the node of Redis the page is subscribed to gives    *)
(* them out.                                                               *)
(***************************************************************************)
EXTENDS Integers, Sequences

CONSTANTS Window,     \* entries the page keeps: 50
          Buffer,     \* messages on the way to the page: 100 in the client library
          MaxEvents   \* bound: events published

ASSUME LiveLogAssumption ==
    Window \in Nat \ {0} /\ Buffer \in Nat /\ MaxEvents \in Nat

VARIABLES published,  \* the number of the last event
          feed,       \* the page's EventSource and its subscription
          inbox,      \* messages between Redis and the page
          page,       \* logs, the newest first
          paused      \* isPaused

liveVars == <<published, feed, inbox, page, paused>>

LiveTypeOK ==
    /\ published \in 0..MaxEvents
    /\ feed \in {"off", "connecting", "open", "broken"}
    /\ inbox \in Seq(1..MaxEvents) /\ Len(inbox) <= Buffer
    /\ page \in Seq(1..MaxEvents) /\ Len(page) <= Window
    /\ paused \in BOOLEAN

LiveInit ==
    /\ published = 0
    /\ feed = "off"
    /\ inbox = <<>>
    /\ page = <<>>
    /\ paused = FALSE
-----------------------------------------------------------------------------
(* Redis hands the event to whoever is subscribed now; the client library  *)
(* drops what does not fit into its channel or arrives while it reconnects.*)
Publish ==
    /\ published < MaxEvents
    /\ published' = published + 1
    /\ \/ UNCHANGED inbox
       \/ /\ feed = "open" /\ Len(inbox) < Buffer
          /\ inbox' = Append(inbox, published + 1)
    /\ UNCHANGED <<feed, page, paused>>

(* The page is opened: new EventSource. *)
Mount ==
    /\ feed = "off"
    /\ feed' = "connecting"
    /\ UNCHANGED <<published, inbox, page, paused>>

(* The token is the admin's: streamLogs subscribes. *)
Subscribe ==
    /\ feed = "connecting"
    /\ feed' = "open"
    /\ UNCHANGED <<published, inbox, page, paused>>

(* Mutants of Prepend: the list grows at the other end, grows for ever,    *)
(* stops when it is full, or loses its newest entry instead of its oldest. *)
AppendTo(m) == IF Len(page) < Window THEN Append(page, m) ELSE page
PrependAll(m) == <<m>> \o page
PrependUntilFull(m) == IF Len(page) < Window THEN <<m>> \o page ELSE page
PrependDropsNewest(m) == <<m>> \o (IF Len(page) < Window THEN page ELSE Tail(page))

(* [log, ...prev].slice(0, 50) *)
Prepend(m) ==
    IF Len(page) < Window THEN <<m>> \o page
    ELSE <<m>> \o SubSeq(page, 1, Window - 1)

(* One turn of streamLogs' loop and of onmessage. *)
Show ==
    /\ feed = "open"
    /\ inbox # <<>>
    /\ inbox' = Tail(inbox)
    /\ page' = IF paused THEN page ELSE Prepend(Head(inbox))
    /\ UNCHANGED <<published, feed, paused>>

(* 401 without the admin's token, 500 where streaming is not supported, or *)
(* no connection: onerror closes the EventSource for good.                 *)
Refuse ==
    /\ feed = "connecting"
    /\ feed' = "broken"
    /\ UNCHANGED <<published, inbox, page, paused>>

(* A lost connection or the 60 s of the server's WriteTimeout: onerror     *)
(* again, and the page stays as it is.                                     *)
Break ==
    /\ feed = "open"
    /\ feed' = "broken"
    /\ inbox' = <<>>
    /\ UNCHANGED <<published, page, paused>>

Unmount ==
    /\ feed # "off"
    /\ feed' = "off"
    /\ inbox' = <<>>
    /\ page' = <<>>
    /\ paused' = FALSE
    /\ UNCHANGED published

TogglePause ==
    /\ feed # "off"
    /\ paused' = ~paused
    /\ UNCHANGED <<published, feed, inbox, page>>

Dashboard ==
    Mount \/ Refuse \/ Subscribe \/ Show \/ Break \/ Unmount \/ TogglePause

LiveSpec == LiveInit /\ [][Publish \/ Dashboard]_liveVars
-----------------------------------------------------------------------------
(* However requests broadcast, the feed loses messages, and the page is    *)
(* paused, resumed, closed and opened again, it lists events newest first  *)
(* and none twice (page.tsx:30-34).                                        *)
PageInOrder == \A j, k \in DOMAIN page : j < k => page[j] > page[k]

(* "Circular Buffer: Keep last 50" (page.tsx:33): an entry leaves an open  *)
(* page only for Window newer ones.                                        *)
KeepsLast ==
    [][\A j \in DOMAIN page :
          feed' # "off" =>
              \/ \E k \in DOMAIN page' : page'[k] = page[j]
              \/ Len(page') = Window /\ page'[Window] > page[j]]_liveVars

(* What Redis handed to the subscriber is shown, whatever comes after it,  *)
(* unless the page is paused or the feed ends: the loop of admin.go:81-89  *)
(* drops nothing.                                                          *)
HandedOutIsShown ==
    \A n \in 1..MaxEvents :
        (\E k \in DOMAIN inbox : inbox[k] = n)
            ~> \/ \E k \in DOMAIN page : page[k] = n
               \/ feed # "open" \/ paused
=============================================================================
