------------------------------ MODULE Observed -------------------------------
(***************************************************************************)
(* A request and who watches it: the non-streaming request of SyncChat     *)
(* publishes its event to the dashboard's log page of LiveLog while other  *)
(* requests publish theirs.                                                *)
(***************************************************************************)
EXTENDS SyncChat, LiveLog

VARIABLE mine   \* history: the number of this request's event, 0 if none

observedVars == <<vars, liveVars, mine>>

(* Both parts stay well typed: the retry loop ends at MaxRetries, page and *)
(* inbox keep to their limits (resilient.go:36, page.tsx:33).              *)
ObservedTypeOK == TypeOK /\ LiveTypeOK /\ mine \in 0..published

ObservedInit == Init /\ LiveInit /\ mine = 0

(* Broadcast is PUBLISH to Redis; when it fails nobody is told. *)
BroadcastEvent ==
    /\ Broadcast
    /\ \/ shown' /\ Publish /\ mine' = published'
       \/ ~shown' /\ UNCHANGED <<liveVars, mine>>

(* Any other step of the request. *)
RequestStep ==
    \/ BroadcastEvent
    \/ /\ pc # "broadcast"
       /\ Goroutine
       /\ UNCHANGED <<liveVars, mine>>

Departure == ClientLeaves /\ UNCHANGED <<liveVars, mine>>

(* Another request of this or another gateway instance publishes. One event*)
(* is left for this request.                                               *)
OtherRequest ==
    /\ mine # 0 \/ published + 1 < MaxEvents
    /\ Publish
    /\ UNCHANGED <<vars, mine>>

DashboardStep == Dashboard /\ UNCHANGED <<vars, mine>>

ObservedNext == RequestStep \/ Departure \/ OtherRequest \/ DashboardStep

(* Every attempt has a deadline, timers fire, and the goroutine of         *)
(* streamLogs and the page's event loop run when there is something to do; *)
(* nobody has to open the page or to publish.                              *)
ObservedFairness ==
    /\ WF_observedVars(RequestStep)
    /\ WF_observedVars(Show /\ UNCHANGED <<vars, mine>>)

ObservedSpec == ObservedInit /\ [][ObservedNext]_observedVars /\ ObservedFairness
=============================================================================
