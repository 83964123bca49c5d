------------------------------ MODULE WsClient ------------------------------
(***************************************************************************)
(* The browser's WebSocket client (frontend/src/shared/api/ws.ts) and the  *)
(* sockets it has opened.  A socket that was replaced or abandoned lives   *)
(* on in the browser and goes on firing events; a reconnection timer is    *)
(* never cancelled.  Delays are not modelled: a pending timer may fire at  *)
(* any time.                                                               *)
(***************************************************************************)
EXTENDS Naturals, FiniteSets

CONSTANTS
    Sockets,    \* browser sockets that can exist at one time
    MaxStale,   \* bound on pending timers and abandoned sockets together
    NoSocket,
    Sessions,   \* the access tokens
    NoSession

ASSUME SocketsAssumption ==
    /\ NoSocket \notin Sockets /\ NoSession \notin Sessions
    /\ MaxStale \in Nat
    /\ Cardinality(Sockets) > MaxStale + 1

VARIABLES
    sock,             \* each socket's readyState and the token in its URL
    ws,               \* the client's current socket
    token,
    connectionState,
    timers,           \* reconnection timers that have not fired
    heard             \* the token of the socket whose event was delivered last

wsVars == <<sock, ws, token, connectionState, timers, heard>>

Phases == {"closed", "connecting", "open", "closing"}
ConnectionStates == {"idle", "connecting", "open", "disconnected", "error"}

Unopened == [phase |-> "closed", token |-> NoSession]
Free(table) == {s \in Sockets : table[s].phase = "closed"}
Abandoned == {s \in Sockets \ {ws} : sock[s].phase \in {"connecting", "open"}}

WsInit ==
    /\ sock = [s \in Sockets |-> Unopened]
    /\ ws = NoSocket
    /\ token = NoSession
    /\ connectionState = "idle"
    /\ timers = 0
    /\ heard = NoSession

Has(phases) == ws # NoSocket /\ sock[ws].phase \in phases

(* open(): dials a new socket for token t in the table of sockets given,   *)
(* unless nobody is signed in or a socket is being dialled already.  Which *)
(* free identifier the new socket gets makes no difference.                *)
Open(t, table, current) ==
    IF t = NoSession \/ (current # NoSocket /\ table[current].phase = "connecting")
    THEN /\ sock' = table
         /\ ws' = current
         /\ UNCHANGED connectionState
    ELSE LET s == CHOOSE f \in Free(table) : TRUE
         IN  /\ Free(table) # {}
             /\ sock' = [table EXCEPT ![s] = [phase |-> "connecting", token |-> t]]
             /\ ws' = s
             /\ connectionState' = "connecting"

(* close() on a socket: its close event is still to come.                  *)
Closing(s) ==
    IF s # NoSocket /\ sock[s].phase # "closed"
    THEN [sock EXCEPT ![s].phase = "closing"] ELSE sock

(* connect(token)                                                          *)
Connect(t) ==
    IF token = t /\ Has({"open", "connecting"})
    THEN UNCHANGED wsVars
    ELSE /\ IF ws # NoSocket /\ token # t
            THEN Open(t, Closing(ws), NoSocket)
            ELSE Open(t, sock, ws)
         /\ token' = t
         /\ UNCHANGED <<timers, heard>>

(* disconnect()                                                            *)
Disconnect ==
    /\ token' = NoSession
    /\ ws' = NoSocket
    /\ connectionState' = "idle"
    /\ sock' = Closing(ws)
    /\ UNCHANGED <<timers, heard>>

(* The timer reconnect() armed calls open(), whatever happened since.      *)
TimerFires ==
    /\ timers > 0
    /\ timers' = timers - 1
    /\ Open(token, sock, ws)
    /\ UNCHANGED <<token, heard>>

(* The handshake succeeds: onopen.                                         *)
OnOpen(s) ==
    /\ sock[s].phase = "connecting"
    /\ sock' = [sock EXCEPT ![s].phase = "open"]
    /\ connectionState' = IF ws = s THEN "open" ELSE connectionState
    /\ UNCHANGED <<ws, token, timers, heard>>

(* Mutant: an event of any open socket is dispatched.                      *)
OnMessageOfAny(s) ==
    /\ sock[s].phase = "open"
    /\ heard' = sock[s].token
    /\ UNCHANGED <<sock, ws, token, connectionState, timers>>

(* An event of the server arrives on an open socket: onmessage.            *)
OnMessage(s) ==
    /\ sock[s].phase = "open"
    /\ ws = s
    /\ heard' = sock[s].token
    /\ UNCHANGED <<sock, ws, token, connectionState, timers>>

(* The bound on losing the current connection.                             *)
MayLose(s) == ws = s => Cardinality(Abandoned) + timers < MaxStale

(* The server begins to close the connection.                              *)
ServerCloses(s) ==
    /\ sock[s].phase = "open"
    /\ MayLose(s)
    /\ sock' = [sock EXCEPT ![s].phase = "closing"]
    /\ UNCHANGED <<ws, token, connectionState, timers, heard>>

(* Mutant: the failure of a socket that was replaced is shown.             *)
OnErrorOfAny(s) ==
    /\ sock[s].phase # "closed"
    /\ MayLose(s)
    /\ sock' = [sock EXCEPT ![s].phase = "closing"]
    /\ connectionState' = "error"
    /\ UNCHANGED <<ws, token, timers, heard>>

(* The connection fails, also while it is being closed: onerror, with      *)
(* onclose to follow.                                                      *)
OnError(s) ==
    /\ sock[s].phase # "closed"
    /\ MayLose(s)
    /\ sock' = [sock EXCEPT ![s].phase = "closing"]
    /\ connectionState' = IF ws = s THEN "error" ELSE connectionState
    /\ UNCHANGED <<ws, token, timers, heard>>

(* onclose and reconnect().                                                *)
OnClose(s) ==
    /\ sock[s].phase = "closing"
    /\ sock' = [sock EXCEPT ![s] = Unopened]
    /\ IF ws = s
       THEN /\ ws' = NoSocket
            /\ connectionState' = IF token # NoSession THEN "disconnected" ELSE "idle"
            /\ timers' = IF token # NoSession THEN timers + 1 ELSE timers
       ELSE UNCHANGED <<ws, connectionState, timers>>
    /\ UNCHANGED <<token, heard>>

(* The page is loaded anew: sockets and timers are gone with it.           *)
Unload ==
    /\ sock' = [s \in Sockets |-> Unopened]
    /\ ws' = NoSocket
    /\ token' = NoSession
    /\ connectionState' = "idle"
    /\ timers' = 0
    /\ UNCHANGED heard

SocketEvent ==
    \/ TimerFires
    \/ \E s \in Sockets :
        OnOpen(s) \/ OnMessage(s) \/ ServerCloses(s) \/ OnError(s) \/ OnClose(s)

-----------------------------------------------------------------------------
(* The client's variables have their types; a lost link has a timer, and   *)
(* the current socket is the one the token was used for.                   *)
WsTypeOK ==
    /\ sock \in [Sockets -> [phase : Phases, token : Sessions \cup {NoSession}]]
    /\ ws \in Sockets \cup {NoSocket}
    /\ token \in Sessions \cup {NoSession}
    /\ connectionState \in ConnectionStates
    /\ timers \in 0..MaxStale
    /\ heard \in Sessions \cup {NoSession}
    /\ ws # NoSocket => sock[ws].phase # "closed" /\ sock[ws].token = token
    /\ connectionState = "disconnected" => timers > 0 /\ ws = NoSocket

(* The client implements the link.                                         *)
Link == INSTANCE WsLink WITH
            token <- token, connectionState <- connectionState, heard <- heard
ImplementsLink == Link!LinkSpec
=============================================================================
