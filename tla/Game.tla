------------------------------- MODULE Game --------------------------------
(***************************************************************************)
(* One rated game as the program promises it: the service operations of    *)
(* GameService, each taking effect at once, the two players' sockets, the  *)
(* background monitor and the rating update.  GameStore splits the same    *)
(* operations into their database statements.                              *)
(*                                                                         *)
(* An operation reads the row and then the wall clock, so it is stamped    *)
(* with some instant between the previous stamp and now.  The monitor      *)
(* reads the clock first, and may judge a row by an instant before its     *)
(* last change.                                                            *)
(***************************************************************************)
EXTENDS GameRules, Sequences, FiniteSets

CONSTANTS
    MaxNow,     \* bound on the wall clock
    MaxPlies    \* bound on the number of moves played

ASSUME BoundAssumption == MaxNow \in Nat /\ MaxPlies \in Nat

VARIABLES
    game,       \* the row of table games
    moves,      \* the rows of table moves, in insertion order
    ratings,    \* each player's rating, as the change since the game began
    now,        \* the wall clock
    stamp,      \* the latest instant of an operation
    sock,       \* each player's WebSocket, as ws_endpoint steps through it
    since       \* when each player's socket last dropped

vars == <<game, moves, ratings, now, stamp, sock, since>>

\* up: mark_reconnected done, events are handled.  dropped: the socket closed.
\* down: mark_disconnected done.  joining: accepted, mark_reconnected to come.
Sockets == {"up", "dropped", "down", "joining"}

\* A scheduled or tournament game may start while a player is away.
Init ==
    /\ game = NewGame(0)
    /\ moves = <<>>
    /\ ratings = [p \in Players |-> 0]
    /\ now = 0
    /\ stamp = 0
    /\ sock \in [Players -> {"up", "down"}]
    /\ since = [p \in Players |-> 0]

-----------------------------------------------------------------------------
(* The environment. *)

Tick ==
    /\ now < MaxNow
    /\ now' = now + 1
    /\ UNCHANGED <<game, moves, ratings, stamp, sock, since>>

Drop(p) ==
    /\ sock[p] = "up"
    /\ sock' = [sock EXCEPT ![p] = "dropped"]
    /\ since' = [since EXCEPT ![p] = now]
    /\ UNCHANGED <<game, moves, ratings, now, stamp>>

Connect(p) ==
    /\ sock[p] = "down"
    /\ sock' = [sock EXCEPT ![p] = "joining"]
    /\ UNCHANGED <<game, moves, ratings, now, stamp, since>>

-----------------------------------------------------------------------------
(* The operations of GameService, stamped t. *)

Stamped(t) == t \in stamp..now /\ stamp' = t

MarkDisconnected(p, t) ==
    /\ sock[p] = "dropped"
    /\ Stamped(t)
    /\ t >= since[p]
    /\ game' = IF game.status = "active" THEN PauseForDisconnect(game, p, t) ELSE game
    /\ sock' = [sock EXCEPT ![p] = "down"]
    /\ UNCHANGED <<moves, ratings, now, since>>

\* Mutant: a player who comes back after the grace window is let in, and the
\* game is left to the monitor.
MarkReconnectedInTime(p, t) ==
    /\ sock[p] = "joining"
    /\ Stamped(t)
    /\ game' = IF /\ game.status = "active"
                  /\ game.disconnected_player_id = p
                  /\ game.disconnect_grace_deadline_at > t
               THEN ResumeAfterReconnect(game, t)
               ELSE game
    /\ sock' = [sock EXCEPT ![p] = "up"]
    /\ UNCHANGED <<moves, ratings, now, since>>

\* Only the recorded player resumes the game.
MarkReconnected(p, t) ==
    /\ sock[p] = "joining"
    /\ Stamped(t)
    /\ game' = IF game.status = "active" /\ game.disconnected_player_id = p
               THEN ResumeAfterReconnect(game, t)
               ELSE game
    /\ sock' = [sock EXCEPT ![p] = "up"]
    /\ UNCHANGED <<moves, ratings, now, since>>

\* Mutant: GameNotActive is not raised.
CommandOnAnyGame(p, t) ==
    /\ Stamped(t)
    /\ UNCHANGED <<ratings, now, sock, since>>

\* What a player may ask for while the game is active, over the current socket
\* or over another one that is still served.
Command(p, t) ==
    /\ game.status = "active"
    /\ Stamped(t)
    /\ UNCHANGED <<ratings, now, sock, since>>

MakeMove(p, outcome, t) ==
    /\ Command(p, t)
    /\ ~ClockHasExpired(game, t)
    /\ Turn(game) = p
    /\ Len(moves) < MaxPlies
    /\ outcome \in OutcomesAt(Len(moves) + 1)
    /\ moves' = Append(moves, [move_number |-> Len(moves) + 1, user |-> p])
    /\ game' = ApplyPlayerMove(game, outcome, t)

\* make_move finds the clock expired before it looks at who is asking.
ExpireOnMove(p, t) ==
    /\ Command(p, t)
    /\ ClockHasExpired(game, t)
    /\ game' = TimeoutGame(game, Turn(game), t, "clock_timeout")
    /\ UNCHANGED moves

Resign(p, t) ==
    /\ Command(p, t)
    /\ game' = ResignGame(game, p, t)
    /\ UNCHANGED moves

\* draw_accept needs no offer on record.
AgreeDraw(p, t) ==
    /\ Command(p, t)
    /\ game' = AcceptDraw(game, t)
    /\ UNCHANGED moves

-----------------------------------------------------------------------------
(* The monitor, and the update each finished game is given. *)

\* monitor_active_games takes its time before it lists the games.
JudgedAt(t) == stamp' = IF t > stamp THEN t ELSE stamp

MonitorGrace(t) ==
    /\ GraceHasExpired(game, t)
    /\ JudgedAt(t)
    /\ game' = ResolveGrace(game, Len(moves), t)
    /\ UNCHANGED <<moves, ratings, now, sock, since>>

MonitorClock(t) ==
    /\ ClockHasExpired(game, t)
    /\ JudgedAt(t)
    /\ game' = TimeoutGame(game, Turn(game), t, "clock_timeout")
    /\ UNCHANGED <<moves, ratings, now, sock, since>>

ApplyRating ==
    /\ RatingIsDue(game)
    /\ ratings' = [p \in Players |-> ratings[p] + RatingChange(game.result, p)]
    /\ game' = [game EXCEPT !.rating_after = TRUE]
    /\ UNCHANGED <<moves, now, stamp, sock, since>>

Next ==
    \/ Tick
    \/ \E p \in Players :
        \/ Drop(p)
        \/ Connect(p)
        \/ \E t \in stamp..now :
            \/ MarkDisconnected(p, t)
            \/ MarkReconnected(p, t)
            \/ \E outcome \in Outcomes : MakeMove(p, outcome, t)
            \/ ExpireOnMove(p, t)
            \/ Resign(p, t)
            \/ AgreeDraw(p, t)
    \/ \E t \in 0..now :
        \/ MonitorGrace(t)
        \/ MonitorClock(t)
    \/ ApplyRating

\* The monitor polls once a second with the current time.
MonitorNow == MonitorGrace(now) \/ MonitorClock(now)

Spec == Init /\ [][Next]_vars

FairSpec == Spec /\ WF_vars(MonitorNow)

-----------------------------------------------------------------------------
(* Properties. *)

\* Every variable keeps its type.
TypeOK ==
    /\ game \in Rows
    /\ moves \in Seq(MoveRows)
    /\ ratings \in [Players -> Int]
    /\ now \in Nat
    /\ stamp \in Nat
    /\ sock \in [Players -> Sockets]
    /\ since \in [Players -> Nat]

\* The columns agree with one another.  An active game has no result, and is
\* either running a clock or waiting for a named player inside a grace window,
\* so that some deadline always ends it.  A finished game waits for nobody, runs
\* no clock and, unless aborted, has a result (outcomes.py: _finish_game,
\* pause_for_disconnect, resume_after_reconnect).
ActiveRowConsistent ==
    game.status = "active" =>
        /\ game.result = "none"
        /\ game.termination_reason = "none"
        /\ ~game.rating_after
        /\ (game.last_clock_started_at = NoTime)
              <=> (game.disconnect_grace_deadline_at # NoTime)
        /\ (game.disconnected_player_id = NoOne)
              <=> (game.disconnect_grace_deadline_at = NoTime)

FinishedRowConsistent ==
    game.status # "active" =>
        /\ game.last_clock_started_at = NoTime
        /\ game.disconnected_player_id = NoOne
        /\ game.disconnect_grace_deadline_at = NoTime
        /\ (game.result = "none") <=> (game.status = "aborted")

RowConsistent == ActiveRowConsistent /\ FinishedRowConsistent

\* The player a paused game waits for really is away: no path through drops,
\* overwritten pauses, moves and reconnects leaves a connected player recorded
\* as disconnected (ws_endpoint, mark_disconnected, mark_reconnected).
PausedPlayerIsOffline ==
    game.disconnected_player_id # NoOne =>
        sock[game.disconnected_player_id] \in {"down", "joining"}

\* A player never holds more time than the time control gave: the initial time
\* and one increment for each move of theirs (apply_player_move is the only
\* code that adds time).
ClockBound ==
    \A p \in Players : TimeOf(game, p) <= InitialTime + Increment * MovesBy(moves, p)

\* The position on the row is the one the move rows lead to.
MoveLogAgrees == game.fen = Len(moves)

\* A rating is applied once, and for the result the game finished with.
RatedForFinalResult ==
    \A p \in Players :
        ratings[p] = IF game.rating_after THEN RatingChange(game.result, p) ELSE 0

\* A finished game stays as it finished, apart from its rating columns
\* (GameNotActive guards every operation).
FinishedIsFinal ==
    [][game.status # "active" =>
        [game' EXCEPT !.rating_after = FALSE] = [game EXCEPT !.rating_after = FALSE]]_vars

\* The grace window is honoured whoever opened, renewed or overwrote it: a
\* player loses by disconnect only after a whole grace period away, in a game
\* with at least two moves, and only a game with fewer is aborted
\* (monitor_active_games).
GraceResolutionEarned ==
    [][game.status = "active" =>
        /\ game'.termination_reason = "disconnect_timeout" =>
            \E p \in Players :
                /\ game'.result = WinFor(Opponent(p))
                /\ sock[p] # "up"
                /\ since[p] + GraceTime <= now
                /\ Len(moves) >= 2
        /\ game'.status = "aborted" => Len(moves) < 2]_vars

\* Thinking is the only thing that costs time: judged at the instant of the
\* operation, every operation leaves each player the time they had, plus the
\* increment for a move of their own, or nothing at all to a player it flags
\* (capture_clock_snapshot is taken before each change of last_clock_started_at).
TimeConserved ==
    [][\A p \in Players :
        LET before == SnapshotTime(game, p, stamp')
            after  == SnapshotTime(game', p, stamp')
            moved  == moves' # moves /\ p = Turn(game)
        IN  \/ after = before + (IF moved THEN Increment ELSE 0)
            \/ after = 0 /\ game'.status = "timeout" /\ game'.result = WinFor(Opponent(p))]_vars

\* A game whose clock or grace window has run out does not stay so: the monitor
\* finishes it, or the player comes back first.
OverdueIsSettled == Overdue(game, now) ~> ~Overdue(game, now)
=============================================================================
