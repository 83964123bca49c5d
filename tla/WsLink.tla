------------------------------- MODULE WsLink -------------------------------
(***************************************************************************)
(* What the browser's WebSocket client promises the rest of the frontend:  *)
(* ONE link.  It belongs to one session token at a time, it is shown in    *)
(* one of five states, it is retried whenever it is lost, and whatever is  *)
(* heard over it was sent to the session it belongs to.  Sockets, timers   *)
(* and late browser events do not exist at this level: WsClient implements *)
(* this specification with them.                                           *)
(***************************************************************************)
CONSTANTS
    Sessions,   \* the access tokens
    NoSession   \* signed out

VARIABLES
    token,            \* the session the link belongs to
    connectionState,  \* what the pages are shown
    heard             \* the session the last delivered event was sent to

linkVars == <<token, connectionState, heard>>

LinkStates == {"idle", "connecting", "open", "disconnected", "error"}

LinkInit ==
    /\ token = NoSession
    /\ connectionState = "idle"
    /\ heard = NoSession

(* A page asks for the link of its session.                                *)
Begin(t) ==
    /\ token' = t
    /\ connectionState' = "connecting"
    /\ UNCHANGED heard

(* The session ends, and with it the link.                                 *)
End ==
    /\ token' = NoSession
    /\ connectionState' = "idle"
    /\ UNCHANGED heard

(* A lost link is dialled again; so may a working one be, by a retry that  *)
(* was due before it worked.                                               *)
Retry ==
    /\ token # NoSession
    /\ connectionState' = "connecting"
    /\ UNCHANGED <<token, heard>>

Established ==
    /\ connectionState = "connecting"
    /\ connectionState' = "open"
    /\ UNCHANGED <<token, heard>>

Fail ==
    /\ connectionState \in {"connecting", "open"}
    /\ connectionState' = "error"
    /\ UNCHANGED <<token, heard>>

Lose ==
    /\ token # NoSession
    /\ connectionState \in {"connecting", "open", "error"}
    /\ connectionState' = "disconnected"
    /\ UNCHANGED <<token, heard>>

(* An event is heard on an established link only, and as its session.      *)
Hear ==
    /\ token # NoSession
    /\ connectionState = "open"
    /\ heard' = token
    /\ UNCHANGED <<token, connectionState>>

LinkNext ==
    \/ \E t \in Sessions : Begin(t)
    \/ End
    \/ Retry
    \/ Established
    \/ Fail
    \/ Lose
    \/ Hear

(* A link that is down is dialled again as long as its session lasts.      *)
RetryLost == connectionState = "disconnected" /\ Retry

LinkSpec == LinkInit /\ [][LinkNext]_linkVars /\ WF_linkVars(RetryLost)
=============================================================================
