---------------------------- MODULE Session_proofs ----------------------------
(***************************************************************************)
(* The WebSocket client under the session of a tab, for any number of      *)
(* sockets, sessions, users and requests: what it promises as one link     *)
(* (WsLink), who hears its events, and whose profile is on show.           *)
(***************************************************************************)
EXTENDS Session, TLAPS

(* What the client relies on: its current socket was dialled for the       *)
(* present token, and the state on show follows that socket's phase.       *)
ClientInv ==
    /\ sock \in [Sockets -> [phase : Phases, token : Sessions \cup {NoSession}]]
    /\ ws \in Sockets \cup {NoSocket}
    /\ token \in Sessions \cup {NoSession}
    /\ ws # NoSocket =>
        /\ token # NoSession
        /\ sock[ws].phase # "closed"
        /\ sock[ws].token = token
        /\ sock[ws].phase = "connecting" => connectionState = "connecting"
        /\ sock[ws].phase = "open" => connectionState = "open"
        /\ sock[ws].phase = "closing" => connectionState \in {"connecting", "open", "error"}

(* The handlers of a page were set up for the client's token, unless the   *)
(* client was told to disconnect since.                                    *)
ListenerInv == listener # NoSession => token \in {listener, NoSession}

(* The requests that carry a profile, and the store.                       *)
ProfileInv ==
    /\ accessToken \in Sessions \cup {NoSession}
    /\ user \in Users \cup {NoUser}
    /\ calls \subseteq Calls
    /\ \A c \in calls :
        /\ c.kind \in {"me", "login"} => c.user = Owner[c.token]
        /\ c.kind # "data" => c.token \in Sessions
    /\ OwnProfile

SInv == ClientInv /\ ListenerInv /\ ProfileInv

-----------------------------------------------------------------------------
(* Dialling: either nothing changes but what the caller put in the table,  *)
(* or a free socket is dialled for the token.                              *)
LEMMA OpenDials ==
    ASSUME NEW t \in Sessions \cup {NoSession}, NEW current \in Sockets \cup {NoSocket},
           NEW table \in [Sockets -> [phase : Phases, token : Sessions \cup {NoSession}]],
           Open(t, table, current)
    PROVE  \/ /\ t = NoSession \/ (current # NoSocket /\ table[current].phase = "connecting")
              /\ sock' = table /\ ws' = current
              /\ connectionState' = connectionState
           \/ /\ t # NoSession
              /\ ws' \in Sockets
              /\ sock' = [table EXCEPT ![ws'] = [phase |-> "connecting", token |-> t]]
              /\ connectionState' = "connecting"
  <1>1. CASE t = NoSession \/ (current # NoSocket /\ table[current].phase = "connecting")
    BY <1>1 DEF Open
  <1>2. CASE ~(t = NoSession \/ (current # NoSocket /\ table[current].phase = "connecting"))
    <2> DEFINE s == CHOOSE f \in Free(table) : TRUE
    <2>1. /\ Free(table) # {}
          /\ sock' = [table EXCEPT ![s] = [phase |-> "connecting", token |-> t]]
          /\ ws' = s /\ connectionState' = "connecting"
      BY <1>2 DEF Open
    <2>2. s \in Free(table)
      BY <2>1
    <2>3. s \in Sockets
      BY <2>2 DEF Free
    <2> QED BY <1>2, <2>1, <2>3
  <1> QED BY <1>1, <1>2

(* A closed table of sockets is a table of sockets.                        *)
LEMMA ClosingType ==
    ASSUME ClientInv, NEW s \in Sockets \cup {NoSocket}
    PROVE  Closing(s) \in [Sockets -> [phase : Phases, token : Sessions \cup {NoSession}]]
  BY SocketsAssumption DEF ClientInv, Closing, Phases

(* Each operation of the client keeps its invariant and is a step of the   *)
(* link, or none.                                                          *)
LEMMA ConnectStep ==
    ASSUME ClientInv, NEW t \in Sessions, Connect(t)
    PROVE  /\ ClientInv' /\ token' = t /\ heard' = heard
           /\ Link!Begin(t) \/ UNCHANGED Link!linkVars
  <1> USE SocketsAssumption
  <1>1. CASE token = t /\ Has({"open", "connecting"})
    BY <1>1 DEF Connect, wsVars, ClientInv, Link!linkVars
  <1>2. CASE ~(token = t /\ Has({"open", "connecting"}))
    <2>1. token' = t /\ UNCHANGED <<timers, heard>>
      BY <1>2 DEF Connect
    <2>2. CASE ws # NoSocket /\ token # t
      <3>1. Open(t, Closing(ws), NoSocket)
        BY <1>2, <2>2 DEF Connect
      <3>2. Closing(ws) \in [Sockets -> [phase : Phases, token : Sessions \cup {NoSession}]]
        BY ClosingType DEF ClientInv
      <3>3. /\ ws' \in Sockets
            /\ sock' = [Closing(ws) EXCEPT ![ws'] = [phase |-> "connecting", token |-> t]]
            /\ connectionState' = "connecting"
        BY <3>1, <3>2, OpenDials
      <3>4. ClientInv'
        BY <2>1, <3>2, <3>3 DEF ClientInv, Phases
      <3> QED BY <2>1, <3>3, <3>4 DEF Link!Begin
    <2>3. CASE ~(ws # NoSocket /\ token # t)
      <3>1. Open(t, sock, ws)
        BY <1>2, <2>3 DEF Connect
      <3>2. ~(ws # NoSocket /\ sock[ws].phase = "connecting")
        BY <1>2, <2>3 DEF Has
      <3>3. /\ ws' \in Sockets
            /\ sock' = [sock EXCEPT ![ws'] = [phase |-> "connecting", token |-> t]]
            /\ connectionState' = "connecting"
        BY <3>1, <3>2, OpenDials DEF ClientInv
      <3>4. ClientInv'
        BY <2>1, <3>3 DEF ClientInv, Phases
      <3> QED BY <2>1, <3>3, <3>4 DEF Link!Begin
    <2> QED BY <2>2, <2>3
  <1> QED BY <1>1, <1>2

LEMMA DisconnectStep ==
    ASSUME ClientInv, Disconnect
    PROVE  ClientInv' /\ token' = NoSession /\ heard' = heard /\ Link!End
  BY ClosingType DEF ClientInv, Disconnect, Link!End

LEMMA UnloadStep ==
    ASSUME ClientInv, Unload
    PROVE  ClientInv' /\ token' = NoSession /\ heard' = heard /\ Link!End
  BY DEF ClientInv, Unload, Unopened, Phases, Link!End

LEMMA SocketEventStep ==
    ASSUME ClientInv, SocketEvent
    PROVE  /\ ClientInv' /\ token' = token
           /\ heard' = heard \/ (heard' = token /\ token # NoSession)
           /\ Link!LinkNext \/ UNCHANGED Link!linkVars
  <1> USE SocketsAssumption
  <1>1. CASE TimerFires
    <2>1. token' = token /\ heard' = heard /\ Open(token, sock, ws)
      BY <1>1 DEF TimerFires
    <2>2. CASE sock' = sock /\ ws' = ws /\ connectionState' = connectionState
      BY <2>1, <2>2 DEF ClientInv, Link!linkVars
    <2>3. CASE /\ token # NoSession /\ ws' \in Sockets
               /\ sock' = [sock EXCEPT ![ws'] = [phase |-> "connecting", token |-> token]]
               /\ connectionState' = "connecting"
      <3>1. ClientInv'
        BY <2>1, <2>3 DEF ClientInv, Phases
      <3>2. Link!Retry
        BY <2>1, <2>3 DEF Link!Retry
      <3> QED BY <2>1, <3>1, <3>2 DEF Link!LinkNext
    <2> QED BY <2>1, <2>2, <2>3, OpenDials DEF ClientInv
  <1>2. ASSUME NEW s \in Sockets, OnOpen(s)
        PROVE  /\ ClientInv' /\ token' = token /\ heard' = heard
               /\ Link!Established \/ UNCHANGED Link!linkVars
    BY <1>2 DEF ClientInv, OnOpen, Phases, Link!Established, Link!linkVars
  <1>3. ASSUME NEW s \in Sockets, OnMessage(s)
        PROVE  /\ ClientInv' /\ token' = token /\ heard' = token /\ token # NoSession
               /\ Link!Hear
    BY <1>3 DEF ClientInv, OnMessage, Link!Hear
  <1>4. ASSUME NEW s \in Sockets, ServerCloses(s)
        PROVE  /\ ClientInv' /\ token' = token /\ heard' = heard
               /\ UNCHANGED Link!linkVars
    BY <1>4 DEF ClientInv, ServerCloses, Phases, Link!linkVars
  <1>5. ASSUME NEW s \in Sockets, OnError(s)
        PROVE  /\ ClientInv' /\ token' = token /\ heard' = heard
               /\ Link!Fail \/ UNCHANGED Link!linkVars
    BY <1>5 DEF ClientInv, OnError, Phases, Link!Fail, Link!linkVars
  <1>6. ASSUME NEW s \in Sockets, OnClose(s)
        PROVE  /\ ClientInv' /\ token' = token /\ heard' = heard
               /\ Link!Lose \/ UNCHANGED Link!linkVars
    BY <1>6 DEF ClientInv, OnClose, Unopened, Phases, Link!Lose, Link!linkVars
  <1> QED BY <1>1, <1>2, <1>3, <1>4, <1>5, <1>6 DEF SocketEvent, Link!LinkNext
-----------------------------------------------------------------------------
(* What a step of the tab does to the client: the effects of a page dial,  *)
(* signing in or out disconnects, a fresh page starts anew.                *)
ClientMove ==
    \/ UNCHANGED <<wsVars, listener>>
    \/ UNCHANGED wsVars /\ listener' = NoSession
    \/ \E t \in Sessions : Connect(t) /\ listener' = t
    \/ Disconnect /\ UNCHANGED listener
    \/ Unload /\ listener' = NoSession
    \/ SocketEvent /\ UNCHANGED listener

LEMMA StepsMoveClient ==
    ASSUME ProfileInv, [Next]_vars
    PROVE  ClientMove
  <1>1. CASE UNCHANGED vars
    BY <1>1 DEF vars, ClientMove
  <1>2. CASE RunEffects
    <2>1. CASE PageEffect
      <3>1. CASE Wanted = NoSession
        BY <2>1, <3>1 DEF PageEffect, ClientMove
      <3>2. CASE Wanted # NoSession
        <4>1. Wanted \in Sessions
          BY <3>2 DEF Wanted, IsAuthenticated, ProfileInv
        <4> QED BY <2>1, <3>2, <4>1 DEF PageEffect, ClientMove
      <3> QED BY <3>1, <3>2
    <2>2. CASE BootstrapEffect \/ GuardEffect
      BY <2>2 DEF BootstrapEffect, GuardEffect, ClientMove
    <2> QED BY <1>2, <2>1, <2>2 DEF RunEffects
  <1>3. CASE \E route \in Visited : Visit(route)
    BY <1>3 DEF Visit, ClientMove
  <1>4. CASE \E t \in Sessions : SubmitLogin(t) \/ ReturnFromOAuth(t)
    BY <1>4 DEF SubmitLogin, ReturnFromOAuth, ClientMove
  <1>5. CASE Fetch \/ EditProfile \/ Logout \/ Reload
    BY <1>5 DEF Fetch, EditProfile, Logout, Reload, ClientMove
  <1>6. CASE \E c \in calls : Answer(c)
    <2> PICK c \in calls : Answer(c)
      BY <1>6
    <2>1. CASE SignedIn(c) \/ Bootstrapped(c) \/ BootstrapFails(c) \/ Edited(c) \/ Answered(c)
      BY <2>1 DEF SignedIn, Bootstrapped, BootstrapFails, Edited, Answered, ClientMove
    <2>2. CASE Unauthorized(c)
      BY <2>2 DEF Unauthorized, ClientMove
    <2> QED BY <2>1, <2>2 DEF Answer
  <1>7. CASE Socket
    BY <1>7 DEF Socket, ClientMove
  <1> QED BY <1>1, <1>2, <1>3, <1>4, <1>5, <1>6, <1>7 DEF Next

(* Such a move keeps the client right, is a step of the link or none, and  *)
(* lets a page hear only what was sent to its own session.                 *)
LEMMA ClientStep ==
    ASSUME ClientInv, ListenerInv, ClientMove
    PROVE  /\ ClientInv' /\ ListenerInv'
           /\ Link!LinkNext \/ UNCHANGED Link!linkVars
           /\ heard' # heard /\ listener # NoSession => heard' = listener
  <1> USE SocketsAssumption
  <1>1. CASE UNCHANGED wsVars /\ listener' \in {listener, NoSession}
    BY <1>1 DEF wsVars, ClientInv, ListenerInv, Link!linkVars
  <1>2. ASSUME NEW t \in Sessions, Connect(t), listener' = t
        PROVE  /\ ClientInv' /\ ListenerInv' /\ heard' = heard
               /\ Link!LinkNext \/ UNCHANGED Link!linkVars
    BY <1>2, ConnectStep DEF ListenerInv, Link!LinkNext
  <1>3. CASE (Disconnect /\ UNCHANGED listener) \/ (Unload /\ listener' = NoSession)
    BY <1>3, DisconnectStep, UnloadStep DEF ListenerInv, Link!LinkNext
  <1>4. CASE SocketEvent /\ UNCHANGED listener
    BY <1>4, SocketEventStep DEF ListenerInv
  <1> QED BY <1>1, <1>2, <1>3, <1>4 DEF ClientMove

-----------------------------------------------------------------------------
(* The profile: what a request carries, and which answers may set it.      *)
LEMMA RequestSent ==
    ASSUME ProfileInv, NEW c \in Calls, calls' \subseteq calls \cup {c},
           UNCHANGED <<user, accessToken, editedLate>>,
           c.kind \in {"me", "login"} => c.user = Owner[c.token],
           c.kind # "data" => c.token \in Sessions
    PROVE  ProfileInv'
  <1>1. calls' \subseteq Calls
    BY DEF ProfileInv
  <1>2. ASSUME NEW d \in calls'
        PROVE  /\ d.kind \in {"me", "login"} => d.user = Owner[d.token]
               /\ d.kind # "data" => d.token \in Sessions
    <2>1. CASE d = c
      BY <2>1
    <2>2. CASE d \in calls
      BY <2>2 DEF ProfileInv
    <2> QED BY <2>1, <2>2
  <1> QED BY <1>1, <1>2 DEF ProfileInv, OwnProfile, IsAuthenticated

LEMMA ProfileStep ==
    ASSUME ProfileInv, [Next]_vars
    PROVE  ProfileInv'
  <1> USE SessionAssumption, SocketsAssumption DEF ProfileInv, OwnProfile, IsAuthenticated
  <1>1. CASE UNCHANGED <<user, accessToken, calls, editedLate>>
    BY <1>1
  <1>2. CASE BootstrapEffect
    <2>1. CASE accessToken = NoSession
      BY <1>2, <2>1, <1>1 DEF BootstrapEffect
    <2>2. CASE accessToken # NoSession
      <3> DEFINE c == Call("me", accessToken, Owner[accessToken])
      <3>1. /\ c \in Calls /\ c.kind = "me"
            /\ c.user = Owner[accessToken] /\ c.token = accessToken
        BY <2>2 DEF Call, Calls
      <3>2. calls' \subseteq calls \cup {c} /\ UNCHANGED <<user, accessToken, editedLate>>
        BY <1>2, <2>2 DEF BootstrapEffect
      <3> HIDE DEF c
      <3> QED BY <2>2, <3>1, <3>2, RequestSent
    <2> QED BY <2>1, <2>2
  <1>3. ASSUME NEW t \in Sessions, SubmitLogin(t) \/ ReturnFromOAuth(t)
        PROVE  ProfileInv'
    <2> DEFINE c == Call("login", t, Owner[t])
    <2>1. c \in Calls /\ c.kind = "login" /\ c.user = Owner[t] /\ c.token = t
      BY DEF Call, Calls
    <2>2. calls' \subseteq calls \cup {c} /\ UNCHANGED <<user, accessToken, editedLate>>
      BY <1>3 DEF SubmitLogin, ReturnFromOAuth, authVars
    <2> HIDE DEF c
    <2> QED BY <2>1, <2>2, RequestSent
  <1>4. CASE Fetch
    <2> DEFINE c == Call("data", accessToken, NoUser)
    <2>1. c \in Calls /\ c.kind = "data"
      BY <1>4 DEF Fetch, Call, Calls
    <2>2. calls' \subseteq calls \cup {c} /\ UNCHANGED <<user, accessToken, editedLate>>
      BY <1>4 DEF Fetch, authVars
    <2> HIDE DEF c
    <2> QED BY <2>1, <2>2, RequestSent
  <1>5. CASE EditProfile
    <2> DEFINE c == Call("edit", accessToken, user)
    <2>1. c \in Calls /\ c.kind = "edit" /\ c.token = accessToken
      BY <1>5 DEF EditProfile, Call, Calls
    <2>2. calls' \subseteq calls \cup {c} /\ UNCHANGED <<user, accessToken, editedLate>>
      BY <1>5 DEF EditProfile, authVars
    <2>3. accessToken \in Sessions
      BY <1>5 DEF EditProfile
    <2> HIDE DEF c
    <2> QED BY <2>1, <2>2, <2>3, RequestSent
  <1>6. CASE Logout \/ Reload
    BY <1>6 DEF Logout, Reload
  <1>7. ASSUME NEW c \in calls, SignedIn(c) \/ Bootstrapped(c) \/ BootstrapFails(c)
        PROVE  ProfileInv'
    BY <1>7 DEF SignedIn, Bootstrapped, BootstrapFails, Settled, Calls
  <1>8. ASSUME NEW c \in calls, Edited(c)
        PROVE  ProfileInv'
    BY <1>8 DEF Edited, Calls
  <1>9. ASSUME NEW c \in calls, Answered(c) \/ Unauthorized(c)
        PROVE  ProfileInv'
    BY <1>9 DEF Answered, Unauthorized, authVars
  <1>10. CASE PageEffect \/ GuardEffect \/ (\E route \in Visited : Visit(route)) \/ Socket
    BY <1>10, <1>1 DEF PageEffect, GuardEffect, Visit, Socket, authVars
  <1>11. CASE UNCHANGED vars
    BY <1>11, <1>1 DEF vars, authVars
  <1> HIDE DEF ProfileInv, OwnProfile, IsAuthenticated
  <1>12. ASSUME NEW c \in calls, Answer(c)
         PROVE  ProfileInv'
    BY <1>7, <1>8, <1>9, <1>12 DEF Answer
  <1> QED
    BY <1>2, <1>3, <1>4, <1>5, <1>6, <1>10, <1>11, <1>12 DEF Next, RunEffects

LEMMA InitSInv == Init => SInv
  BY SessionAssumption, SocketsAssumption
     DEF Init, WsInit, Unopened, Phases, SInv, ClientInv, ListenerInv, ProfileInv,
         OwnProfile, IsAuthenticated

LEMMA NextSInv == SInv /\ [Next]_vars => SInv'
  BY StepsMoveClient, ClientStep, ProfileStep DEF SInv

-----------------------------------------------------------------------------
(* The profile on show is the profile of the token that the requests carry *)
(* (AuthBootstrap in app/providers.tsx, request() in shared/api/http.ts),  *)
(* with the one exception OwnProfile names.                                *)
THEOREM ProfileIsOwn == Spec => []OwnProfile
  <1>1. SInv => OwnProfile
    BY DEF SInv, ProfileInv
  <1> QED BY <1>1, InitSInv, NextSInv, PTL DEF Spec

(* A page hears only what was sent to its own session, though sockets of   *)
(* other sessions may be open still (onmessage in shared/api/ws.ts).       *)
THEOREM PagesHearThemselves == Spec => HeardAsSelf
  <1>1. SInv /\ [Next]_vars =>
            [heard' # heard /\ listener # NoSession => heard' = listener]_vars
    BY StepsMoveClient, ClientStep DEF SInv
  <1> QED BY <1>1, InitSInv, NextSInv, PTL DEF Spec, HeardAsSelf

(* Sockets that outlive their session and timers that nobody cancels never *)
(* show: the client starts as the link does, and every step of a tab is a  *)
(* step of the link or none.                                               *)
THEOREM ClientImplementsLink ==
    Spec => Link!LinkInit /\ [][Link!LinkNext]_(Link!linkVars)
  <1>1. Init => Link!LinkInit
    BY DEF Init, WsInit, Link!LinkInit
  <1>2. SInv /\ [Next]_vars => [Link!LinkNext]_(Link!linkVars)
    BY StepsMoveClient, ClientStep DEF SInv
  <1> QED BY <1>1, <1>2, InitSInv, NextSInv, PTL DEF Spec
=============================================================================
