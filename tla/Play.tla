-------------------------------- MODULE Play --------------------------------
(***************************************************************************)
(* One player's browser, from the lobby to the end of a game, against the  *)
(* server and the opponent: the matchmaking store and its hooks, the game  *)
(* store, and the hooks that load a game, follow its events and make moves *)
(* and premoves.  Below them is the link of WsLink: what is in flight on   *)
(* it is lost with it, and the server learns of the loss later, or, when   *)
(* the next connection is quicker, never.                                  *)
(*                                                                         *)
(* A position is a number of plies.  The server counts every change of the *)
(* game in ver, so that an older state can be told from a newer one.       *)
(***************************************************************************)
EXTENDS WsLink, Naturals, Sequences

CONSTANTS
    Me,        \* the one session of this browser
    MaxPlies,  \* bound on the game's length
    MaxVer,    \* bound on the game's changes
    MaxInbox,  \* bound on the events in flight to the browser
    MaxOutbox  \* bound on the commands in flight to the server

ASSUME PlayAssumption ==
    /\ Me \in Sessions /\ NoSession \notin Sessions
    /\ MaxPlies \in Nat /\ MaxVer \in Nat
    /\ MaxInbox \in Nat /\ MaxOutbox \in Nat

VARIABLES
    attached,   \* the server holds a connection for this player
    unnoticed,  \* that connection is gone and the server has yet to notice
    inbox, outbox,
    game,       \* the server's row
    entered,    \* the server's queue holds this player
    screen,     \* the page on show: the lobby, the game's, or another one
    queue,      \* queueStatus in the matchmaking store
    view,       \* the game store
    fetch,      \* the request for the game, and the state it was answered with
    premoveDue, \* the premove effect has yet to run for the latest state
    gap,        \* ver of the newest broadcast lost and not made up for, or 0
    slip,       \* how the answer to the present join went past the panel
    sentFrom,   \* the positions moves were sent from
    resent,     \* two moves were sent from one position
    misplaced   \* a move was played in another position than it was sent from

lineVars == <<attached, unnoticed, inbox, outbox>>
pageVars == <<screen, queue, view, fetch, premoveDue>>
history == <<gap, slip, sentFrom, resent, misplaced>>
vars == <<linkVars, lineVars, game, entered, pageVars, history>>

-----------------------------------------------------------------------------
Colors == {"white", "black"}
TurnAt(plies) == IF plies % 2 = 0 THEN "white" ELSE "black"
Statuses == {"active", "finished"}

(* initialState of the game store, and the store after setGame(id, null)   *)
(* and setLoading(true).                                                   *)
FreshGame == [plies |-> 0, status |-> "active", paused |-> FALSE, result |-> FALSE,
              color |-> "none", loading |-> TRUE, premove |-> FALSE,
              full |-> 0, newest |-> 0]

(* Mutant: the turn is not asked for.                                      *)
IsMyTurnByColor(v) == v.color # "none" /\ v.status = "active" /\ ~v.paused

IsMyTurn(v) == v.color = TurnAt(v.plies) /\ v.status = "active" /\ ~v.paused
CanQueuePremove(v) ==
    v.color \notin {"none", TurnAt(v.plies)} /\ v.status = "active" /\ ~v.paused

Snapshot == [plies |-> game.plies, status |-> game.status,
             paused |-> game.paused # "nobody", ver |-> game.ver]
NoFetch == [stage |-> "none", snap |-> [plies |-> 0, status |-> "active",
            paused |-> FALSE, ver |-> 0]]
Requested == [NoFetch EXCEPT !.stage = "asked"]

StateEvent(g) == [kind |-> "game_state", plies |-> g.plies, status |-> g.status,
                  paused |-> g.paused # "nobody", ver |-> g.ver, rated |-> FALSE]
OverEvent(g, rated) == [StateEvent(g) EXCEPT !.kind = "game_over", !.rated = rated]
Told(kind) == [kind |-> kind, plies |-> 0, status |-> "active", paused |-> FALSE,
               ver |-> 0, rated |-> FALSE]

(* What a join is answered with; the panel takes the errors for no answer. *)
JoinErrors == {"ALREADY_IN_QUEUE", "INTERNAL_ERROR"}
JoinAnswers == {"queue_joined", "match_found"} \cup JoinErrors

(* Mutant: a state event leaves the turn as it was, and with it the paused *)
(* flag.                                                                   *)
UpdateStateKeepingPause(v, m) ==
    [v EXCEPT !.plies = m.plies, !.status = m.status,
              !.full = m.ver, !.newest = m.ver]

(* updateState: everything but the result and the premove.                 *)
UpdateState(v, m) ==
    [v EXCEPT !.plies = m.plies, !.status = m.status, !.paused = m.paused,
              !.full = m.ver, !.newest = m.ver]

(* hydrateGame: everything, whatever events came since it was asked for.   *)
HydrateGame(v, s) ==
    [v EXCEPT !.plies = s.plies, !.status = s.status, !.paused = s.paused,
              !.result = (s.status = "finished"), !.color = game.me,
              !.loading = FALSE, !.premove = FALSE, !.full = s.ver]

(* setGameOver: the position stays, and is the final one unless a state    *)
(* between was missed.                                                     *)
SetGameOver(v, m) ==
    [v EXCEPT !.status = m.status, !.paused = m.paused, !.result = TRUE,
              !.premove = FALSE, !.newest = m.ver,
              !.full = IF @ + 1 >= m.ver THEN m.ver ELSE @]

(* The premove effect has something to do once the view is v.              *)
Due(v) == v.premove /\ IsMyTurn(v)

-----------------------------------------------------------------------------
(* The line.                                                               *)
Linked == attached /\ connectionState = "open"
HasRoom == Len(inbox) + 2 <= MaxInbox

(* These events do not reach the panel, and why: an answer it waits for    *)
(* may be among them.                                                      *)
Missed(events, why) ==
    slip' = IF queue = "joining" /\ \E i \in DOMAIN events : events[i].kind \in JoinAnswers
            THEN why ELSE slip

(* Events the server sends; without a line they are lost.                  *)
Push(events, g) ==
    IF Linked
    THEN inbox' = inbox \o events /\ UNCHANGED <<gap, slip>>
    ELSE /\ gap' = IF g.ver > game.ver THEN g.ver ELSE gap
         /\ Missed(events, "lost")
         /\ UNCHANGED inbox

(* What was in flight to the browser is lost.                              *)
LoseInbox ==
    /\ inbox' = <<>>
    /\ gap' = IF \E i \in DOMAIN inbox : inbox[i].ver > 0 THEN game.ver ELSE gap

(* Mutant: the lobby is not told that the line is down.                    *)
LinkDownUntold ==
    /\ Lose
    /\ LoseInbox
    /\ outbox' = <<>>
    /\ unnoticed' = attached
    /\ UNCHANGED <<attached, game, entered, pageVars, slip, sentFrom, resent, misplaced>>

(* onclose; the lobby, if it is on show, takes the panel out of the queue. *)
LinkDown ==
    /\ Lose
    /\ LoseInbox
    /\ outbox' = <<>>
    /\ unnoticed' = attached
    /\ queue' = IF screen = "lobby" THEN "idle" ELSE queue
    /\ slip' = IF queue' = "joining" THEN "left" ELSE slip
    /\ UNCHANGED <<attached, game, entered, screen, view, fetch, premoveDue,
                   sentFrom, resent, misplaced>>

LinkFails ==
    /\ Fail
    /\ LoseInbox
    /\ UNCHANGED <<attached, unnoticed, outbox, game, entered, pageVars,
                   slip, sentFrom, resent, misplaced>>

(* The retry after a loss, or one that replaces a working socket: the old  *)
(* one still carries what was sent, but is no longer listened to.          *)
LinkRetries ==
    /\ connectionState \in {"disconnected", "open"}
    /\ Retry
    /\ LoseInbox
    /\ Missed(inbox, "lost")
    /\ UNCHANGED <<attached, unnoticed, outbox, game, entered, pageVars,
                   sentFrom, resent, misplaced>>

(* The server accepts the connection: a game paused for this player goes   *)
(* on, and its room is told.  The end of an older connection will be none  *)
(* of the server's business.                                               *)
LinkUp ==
    /\ Established
    /\ attached' = TRUE
    /\ unnoticed' = FALSE
    /\ IF game.status = "active" /\ game.paused = "me"
       THEN /\ game' = [game EXCEPT !.paused = "nobody", !.ver = @ + 1]
            /\ inbox' = Append(inbox, StateEvent(game'))
       ELSE UNCHANGED <<game, inbox>>
    /\ UNCHANGED <<outbox, entered, pageVars, gap, slip, sentFrom, resent, misplaced>>

(* The server notices: leave_queue and mark_disconnected.                  *)
NoticeDrop ==
    /\ unnoticed
    /\ unnoticed' = FALSE
    /\ attached' = FALSE
    /\ entered' = FALSE
    /\ IF game.me # "none" /\ game.status = "active" /\ game.paused = "nobody"
       THEN /\ game.ver + 2 <= MaxVer
            /\ game' = [game EXCEPT !.paused = "me", !.ver = @ + 1]
            /\ gap' = game'.ver
       ELSE UNCHANGED <<game, gap>>
    /\ UNCHANGED <<linkVars, inbox, outbox, pageVars, slip, sentFrom, resent, misplaced>>

-----------------------------------------------------------------------------
(* Commands of the browser, and what send() refuses.                       *)
Send(command) ==
    /\ connectionState = "open"
    /\ Len(outbox) < MaxOutbox
    /\ outbox' = Append(outbox, command)

Command(kind) == [kind |-> kind, seen |-> 0]

(* The lobby.  Joining takes an open link and an idle panel, leaving an    *)
(* acknowledged place in the queue.                                        *)
JoinQueue ==
    /\ screen = "lobby"
    /\ queue \in {"idle", "matched"}
    /\ Send(Command("queue_join"))
    /\ queue' = "joining"
    /\ slip' = "none"
    /\ UNCHANGED <<linkVars, attached, unnoticed, inbox, game, entered, screen,
                   view, fetch, premoveDue, gap, sentFrom, resent, misplaced>>

LeaveQueue ==
    /\ screen = "lobby"
    /\ queue = "queued"
    /\ Send(Command("queue_leave"))
    /\ queue' = "idle"
    /\ UNCHANGED <<linkVars, attached, unnoticed, inbox, game, entered, screen,
                   view, fetch, premoveDue, history>>

(* Another page is opened: the lobby's handlers are removed, the panel's   *)
(* status stays in the store.                                              *)
LeaveLobby ==
    /\ screen = "lobby"
    /\ screen' = "elsewhere"
    /\ UNCHANGED <<linkVars, lineVars, game, entered, queue, view, fetch,
                   premoveDue, history>>

(* The lobby connects before it listens, so that a link it finds down is   *)
(* no longer shown as down.                                                *)
ReturnToLobby ==
    /\ screen = "elsewhere"
    /\ screen' = "lobby"
    /\ IF connectionState = "disconnected" THEN Retry ELSE UNCHANGED linkVars
    /\ UNCHANGED <<lineVars, game, entered, queue, view, fetch, premoveDue, history>>

(* Making moves.  A click or a drop cancels a queued premove first; an own *)
(* move is not shown before the server's state shows it.                   *)
SendMove ==
    /\ Send([kind |-> "move", seen |-> view.plies])
    /\ sentFrom' = sentFrom \cup {view.plies}
    /\ resent' = (resent \/ view.plies \in sentFrom)

OnBoard == screen = "game" /\ ~view.loading /\ ~premoveDue

SubmitMove ==
    /\ OnBoard
    /\ IsMyTurn(view)
    /\ SendMove
    /\ view' = [view EXCEPT !.premove = FALSE]
    /\ UNCHANGED <<linkVars, attached, unnoticed, inbox, game, entered, screen,
                   queue, fetch, premoveDue, gap, slip, misplaced>>

SetPremove ==
    /\ OnBoard
    /\ CanQueuePremove(view)
    /\ view' = [view EXCEPT !.premove = TRUE]
    /\ UNCHANGED <<linkVars, lineVars, game, entered, screen, queue, fetch,
                   premoveDue, history>>

ClearPremove ==
    /\ OnBoard
    /\ view.premove
    /\ view' = [view EXCEPT !.premove = FALSE]
    /\ UNCHANGED <<linkVars, lineVars, game, entered, screen, queue, fetch,
                   premoveDue, history>>

(* The premove effect: the position decides whether the premove is legal;  *)
(* what cannot be sent stays queued until the state changes again.         *)
PremoveEffect ==
    /\ premoveDue
    /\ premoveDue' = FALSE
    /\ \/ /\ view' = [view EXCEPT !.premove = FALSE]
          /\ UNCHANGED <<outbox, sentFrom, resent>>
       \/ /\ SendMove
          /\ view' = [view EXCEPT !.premove = FALSE]
       \/ /\ connectionState # "open"
          /\ UNCHANGED <<view, outbox, sentFrom, resent>>
    /\ UNCHANGED <<linkVars, attached, unnoticed, inbox, game, entered, screen,
                   queue, fetch, gap, slip, misplaced>>

Resign ==
    /\ OnBoard
    /\ view.status = "active"
    /\ Send(Command("resign"))
    /\ UNCHANGED <<linkVars, attached, unnoticed, inbox, game, entered, pageVars,
                   history>>

-----------------------------------------------------------------------------
(* The game page is mounted: setGame, setLoading and the request.  The     *)
(* same effect runs again when the profile in the user store changes.      *)
Mounted ==
    /\ view' = FreshGame
    /\ fetch' = Requested
    /\ premoveDue' = FALSE

Remount ==
    /\ screen = "game"
    /\ Mounted
    /\ UNCHANGED <<linkVars, lineVars, game, entered, screen, queue, history>>

FetchServed ==
    /\ fetch.stage = "asked"
    /\ fetch' = [stage |-> "answered", snap |-> Snapshot]
    /\ UNCHANGED <<linkVars, lineVars, game, entered, screen, queue, view,
                   premoveDue, history>>

FetchFails ==
    /\ fetch.stage = "asked"
    /\ fetch' = NoFetch
    /\ view' = [view EXCEPT !.loading = FALSE]
    /\ UNCHANGED <<linkVars, lineVars, game, entered, screen, queue, premoveDue, history>>

FetchArrives ==
    /\ fetch.stage = "answered"
    /\ view' = HydrateGame(view, fetch.snap)
    /\ fetch' = NoFetch
    /\ premoveDue' = FALSE
    /\ gap' = IF fetch.snap.ver >= gap THEN 0 ELSE gap
    /\ UNCHANGED <<linkVars, lineVars, game, entered, screen, queue, slip,
                   sentFrom, resent, misplaced>>

(* An event reaches the handlers of the page on show.                      *)
ToLobby(m) ==
    /\ screen = "lobby"
    /\ CASE m.kind = "match_found" ->
                /\ queue' = "matched" /\ screen' = "game" /\ Mounted
         [] m.kind = "queue_joined" ->
                queue' = "queued" /\ UNCHANGED <<screen, view, fetch, premoveDue>>
         [] m.kind = "NOT_IN_QUEUE" ->
                queue' = "idle" /\ UNCHANGED <<screen, view, fetch, premoveDue>>
         [] OTHER -> UNCHANGED pageVars
    /\ IF m.kind \in JoinErrors THEN Missed(<<m>>, "error") ELSE UNCHANGED slip

(* No handler of the other pages takes an event of the lobby or the game.  *)
ToAnotherPage(m) ==
    /\ screen = "elsewhere"
    /\ Missed(<<m>>, "left")
    /\ UNCHANGED pageVars

ToGame(m) ==
    /\ screen = "game"
    /\ UNCHANGED <<screen, queue, slip>>
    /\ IF m.kind = "game_over" /\ m.rated THEN Mounted
       ELSE /\ view' = CASE m.kind = "game_state" -> UpdateState(view, m)
                          [] m.kind = "game_over" -> SetGameOver(view, m)
                          [] OTHER -> view
            /\ premoveDue' = (Due(view') /\ (premoveDue \/ view' # view))
            /\ UNCHANGED fetch

Deliver ==
    /\ inbox # <<>>
    /\ ~premoveDue
    /\ Hear
    /\ inbox' = Tail(inbox)
    /\ ToLobby(Head(inbox)) \/ ToGame(Head(inbox)) \/ ToAnotherPage(Head(inbox))
    /\ gap' = IF Head(inbox).kind = "game_state" /\ Head(inbox).ver > gap THEN 0 ELSE gap
    /\ UNCHANGED <<attached, unnoticed, outbox, game, entered,
                   sentFrom, resent, misplaced>>

-----------------------------------------------------------------------------
(* The server takes a command.                                             *)
Taken(kind) ==
    /\ outbox # <<>>
    /\ Head(outbox).kind = kind
    /\ HasRoom
    /\ outbox' = Tail(outbox)
    /\ UNCHANGED <<linkVars, attached, unnoticed, pageVars, sentFrom, resent>>

TakeJoin ==
    /\ Taken("queue_join")
    /\ entered' = TRUE
    /\ Push(<<Told(IF entered THEN "ALREADY_IN_QUEUE" ELSE "queue_joined")>>, game)
    /\ UNCHANGED <<game, misplaced>>

TakeLeave ==
    /\ Taken("queue_leave")
    /\ entered' = FALSE
    /\ Push(IF entered THEN <<>> ELSE <<Told("NOT_IN_QUEUE")>>, game)
    /\ UNCHANGED <<game, misplaced>>

(* The handler of either raises, before or after it has changed the queue. *)
QueueCommandFails ==
    /\ \/ Taken("queue_join") /\ entered' \in {entered, TRUE}
       \/ Taken("queue_leave") /\ entered' \in {entered, FALSE}
    /\ Push(<<Told("INTERNAL_ERROR")>>, game)
    /\ UNCHANGED <<game, misplaced>>

(* A match is made, and both players are told.                             *)
Match ==
    /\ entered
    /\ game.me = "none"
    /\ HasRoom
    /\ entered' = FALSE
    /\ \E color \in Colors : game' = [game EXCEPT !.me = color]
    /\ Push(<<Told("match_found")>>, game)
    /\ UNCHANGED <<linkVars, attached, unnoticed, outbox, pageVars,
                   sentFrom, resent, misplaced>>

CanChange == game.me # "none" /\ game.status = "active" /\ game.ver < MaxVer

(* A move of either side is played; it ends the game or not.               *)
Played ==
    \E over \in BOOLEAN :
        /\ over \/ game.plies + 1 < MaxPlies
        /\ game' = [game EXCEPT !.plies = @ + 1, !.ver = @ + 1, !.paused = "nobody",
                                !.status = IF over THEN "finished" ELSE @]
        /\ Push(IF over THEN <<StateEvent(game'), OverEvent(game', TRUE)>>
                ELSE <<StateEvent(game')>>, game')

GameEnds ==
    /\ game' = [game EXCEPT !.status = "finished", !.paused = "nobody", !.ver = @ + 1]
    /\ \E rated \in BOOLEAN : Push(<<OverEvent(game', rated)>>, game')

Refused == Push(<<Told("refused")>>, game) /\ UNCHANGED <<game, misplaced>>

(* handle_move: a move sent from the position on the board is legal, one   *)
(* sent from an older position may be.                                     *)
TakeMove ==
    /\ Taken("move")
    /\ IF CanChange /\ TurnAt(game.plies) = game.me
       THEN \/ /\ Played
               /\ misplaced' = (misplaced \/ Head(outbox).seen # game.plies)
            \/ Head(outbox).seen # game.plies /\ Refused
       ELSE Refused
    /\ UNCHANGED entered

TakeResign ==
    /\ Taken("resign")
    /\ IF CanChange THEN GameEnds /\ UNCHANGED misplaced ELSE Refused
    /\ UNCHANGED entered

(* The opponent and the monitor.                                           *)
Others ==
    /\ CanChange
    /\ HasRoom
    /\ UNCHANGED <<linkVars, attached, unnoticed, outbox, entered, pageVars,
                   sentFrom, resent, misplaced>>

OpponentMoves ==
    Others /\ game.paused # "opponent" /\ TurnAt(game.plies) # game.me /\ Played

OpponentEnds == Others /\ GameEnds

OpponentDrops ==
    /\ Others
    /\ game.paused = "nobody" /\ game.ver + 2 <= MaxVer
    /\ game' = [game EXCEPT !.paused = "opponent", !.ver = @ + 1]
    /\ Push(<<StateEvent(game')>>, game')

OpponentReturns ==
    /\ Others
    /\ game.paused = "opponent"
    /\ game' = [game EXCEPT !.paused = "nobody", !.ver = @ + 1]
    /\ Push(<<StateEvent(game')>>, game')

-----------------------------------------------------------------------------
(* The browser shows the lobby, or was opened at a game's address.         *)
Init ==
    /\ token = Me /\ connectionState = "connecting" /\ heard = NoSession
    /\ attached = FALSE /\ unnoticed = FALSE
    /\ inbox = <<>> /\ outbox = <<>>
    /\ screen \in {"lobby", "game"}
    /\ game \in [plies : {0}, status : {"active"}, paused : {"nobody"}, ver : {0},
                 me : IF screen = "lobby" THEN {"none"} ELSE Colors]
    /\ entered = FALSE
    /\ queue = "idle"
    /\ view = FreshGame
    /\ fetch = IF screen = "game" THEN Requested ELSE NoFetch
    /\ premoveDue = FALSE
    /\ gap = 0 /\ slip = "none"
    /\ sentFrom = {} /\ resent = FALSE /\ misplaced = FALSE

Next ==
    \/ LinkDown \/ LinkFails \/ LinkRetries \/ LinkUp \/ NoticeDrop
    \/ JoinQueue \/ LeaveQueue \/ LeaveLobby \/ ReturnToLobby
    \/ SubmitMove \/ SetPremove \/ ClearPremove \/ PremoveEffect \/ Resign
    \/ Remount \/ FetchServed \/ FetchFails \/ FetchArrives \/ Deliver
    \/ TakeJoin \/ TakeLeave \/ QueueCommandFails \/ Match \/ TakeMove \/ TakeResign
    \/ OpponentMoves \/ OpponentEnds \/ OpponentDrops \/ OpponentReturns

(* The server answers what it was sent, the browser hands out what it was  *)
(* sent, and a close follows an error.                                     *)
Fairness ==
    /\ WF_vars(TakeJoin \/ TakeLeave \/ QueueCommandFails \/ TakeMove \/ TakeResign)
    /\ WF_vars(Deliver)
    /\ WF_vars(PremoveEffect)
    /\ WF_vars(connectionState = "error" /\ LinkDown)

Spec == Init /\ [][Next]_vars /\ Fairness

-----------------------------------------------------------------------------
(* Types; a premove is never left queued on a board that shows a result.   *)
TypeOK ==
    /\ token = Me /\ connectionState \in LinkStates /\ heard \in {Me, NoSession}
    /\ attached \in BOOLEAN /\ unnoticed \in BOOLEAN /\ entered \in BOOLEAN
    /\ Len(inbox) <= MaxInbox + 1 /\ Len(outbox) <= MaxOutbox
    /\ game \in [plies : 0..MaxPlies, status : Statuses, ver : 0..MaxVer,
                 paused : {"nobody", "me", "opponent"}, me : Colors \cup {"none"}]
    /\ screen \in {"lobby", "game", "elsewhere"}
    /\ slip \in {"none", "lost", "left", "error"}
    /\ queue \in {"idle", "joining", "queued", "matched"}
    /\ view \in [plies : 0..MaxPlies, status : Statuses, paused : BOOLEAN,
                 result : BOOLEAN, color : Colors \cup {"none"}, loading : BOOLEAN,
                 premove : BOOLEAN, full : 0..MaxVer, newest : 0..MaxVer]
    /\ view.result => ~view.premove
    /\ premoveDue => Due(view)

(* When nothing is in flight, the game page shows the game as the server   *)
(* has it: position, status, pause and result.  Two things only can keep   *)
(* it from that: a broadcast that was lost with its connection and that no *)
(* full state followed, and an answer to the page's own request that is    *)
(* older than an event already shown.                                      *)
Quiet == screen = "game" /\ inbox = <<>> /\ fetch.stage = "none" /\ view.color # "none"
InStepWithServer ==
    /\ view.plies = game.plies /\ view.status = game.status
    /\ view.paused = (game.paused # "nobody")
    /\ view.result = (game.status = "finished")
Overtaken == view.newest > view.full
ShowsThePresent == Quiet => InStepWithServer \/ gap > 0 \/ Overtaken

(* A move is played in the position it was chosen in, premoves included,   *)
(* unless the browser sent two moves from one position on show.            *)
MovesGoWhereAimed == misplaced => resent

(* A request to join the queue does not leave the panel waiting, where no  *)
(* button works: it is answered, matched, or given up with the connection. *)
(* Three things only do leave it so.  The answer is lost with a working    *)
(* socket that a late retry replaces.  It comes, or the connection goes,   *)
(* while another page is open: the lobby's handlers are gone and the       *)
(* status is not.  Or the answer is an error, which the panel shows        *)
(* without leaving "joining".                                              *)
JoinIsAnswered == queue = "joining" ~> queue # "joining" \/ slip # "none"
=============================================================================
