----------------------------- MODULE GameRules -----------------------------
(***************************************************************************)
(* The pure rules of one game row: clocks, moves and lifecycle outcomes    *)
(* (backend/domains/game/domain).  Every operator takes a row and returns  *)
(* the row the Python function leaves behind; no operator has an effect.   *)
(*                                                                         *)
(* Abstractions.  A position is the number of half-moves played: that is   *)
(* all of the fen the lifecycle looks at (whose turn it is, and whether    *)
(* two rows hold the same position).  Instants and durations are counted   *)
(* in one unit.  white_id and black_id are the two colours.  The columns   *)
(* white_rating_after, black_rating_after and rating_applied_at are always *)
(* written together: rating_after says whether they are set.  ended_at     *)
(* and pgn are left out.                                                   *)
(***************************************************************************)
EXTENDS Integers, FiniteSets

CONSTANTS
    InitialTime,    \* initial_time_ms of the time control
    Increment,      \* increment_ms of the time control
    GraceTime       \* DEFAULT_DISCONNECT_GRACE_SECONDS

ASSUME ClockAssumption ==
    /\ InitialTime \in Nat \ {0}
    /\ Increment \in Nat
    /\ GraceTime \in Nat \ {0}

Players == {"white", "black"}
Opponent(p) == IF p = "white" THEN "black" ELSE "white"

\* None, for a timestamp column and for a player column.
NoTime == -1
NoOne == "none"

FinishedStatuses ==
    {"checkmate", "stalemate", "draw", "resigned", "timeout", "aborted"}
Statuses == {"active"} \cup FinishedStatuses
Results == {"1-0", "0-1", "1/2-1/2", "none"}
Reasons == {"none", "checkmate", "stalemate", "draw", "repetition",
            "resignation", "draw_agreement", "clock_timeout",
            "disconnect_timeout", "auto_abort"}

Rows == [status : Statuses,
         result : Results,
         termination_reason : Reasons,
         fen : Nat,
         white_time_ms : Nat,
         black_time_ms : Nat,
         last_clock_started_at : Nat \cup {NoTime},
         disconnected_player_id : Players \cup {NoOne},
         disconnect_grace_deadline_at : Nat \cup {NoTime},
         rating_after : BOOLEAN]

\* The rows of table moves, and how many of them are p's.
MoveRows == [move_number : Nat, user : Players]
MovesBy(ms, p) == Cardinality({i \in DOMAIN ms : ms[i].user = p})

\* Game.new: white's clock runs from the instant of creation.
NewGame(now) ==
    [status |-> "active", result |-> "none", termination_reason |-> "none",
     fen |-> 0, white_time_ms |-> InitialTime, black_time_ms |-> InitialTime,
     last_clock_started_at |-> now, disconnected_player_id |-> NoOne,
     disconnect_grace_deadline_at |-> NoTime, rating_after |-> FALSE]

TimeOf(g, p) == IF p = "white" THEN g.white_time_ms ELSE g.black_time_ms

-----------------------------------------------------------------------------
(* clock.py *)

Turn(g) == IF g.fen % 2 = 0 THEN "white" ELSE "black"

ActivePlayer(g) == IF g.status = "active" THEN Turn(g) ELSE NoOne

ClockIsRunning(g) ==
    /\ g.status = "active"
    /\ g.last_clock_started_at # NoTime
    /\ g.disconnect_grace_deadline_at = NoTime

\* The remaining time of p: the running clock is charged, never below zero,
\* and never for a negative elapsed time.
SnapshotTime(g, p, now) ==
    LET elapsed == now - g.last_clock_started_at
    IN  IF ~ClockIsRunning(g) \/ p # Turn(g) \/ elapsed <= 0
        THEN TimeOf(g, p)
        ELSE IF elapsed >= TimeOf(g, p) THEN 0 ELSE TimeOf(g, p) - elapsed

WithSnapshot(g, now) ==
    [g EXCEPT !.white_time_ms = SnapshotTime(g, "white", now),
              !.black_time_ms = SnapshotTime(g, "black", now)]

\* active_remaining_time_ms(g, now) <= 0
ClockHasExpired(g, now) ==
    /\ g.status = "active"
    /\ g.disconnect_grace_deadline_at = NoTime
    /\ SnapshotTime(g, Turn(g), now) = 0

-----------------------------------------------------------------------------
(* outcomes.py *)

ClearDisconnectState(g) ==
    [g EXCEPT !.disconnected_player_id = NoOne,
              !.disconnect_grace_deadline_at = NoTime]

FinishGame(g, status, result, reason) ==
    [ClearDisconnectState(g) EXCEPT !.status = status,
                                    !.result = result,
                                    !.termination_reason = reason,
                                    !.last_clock_started_at = NoTime]

WinFor(p) == IF p = "white" THEN "1-0" ELSE "0-1"

ResignGame(g, p, now) ==
    FinishGame(WithSnapshot(g, now), "resigned", WinFor(Opponent(p)), "resignation")

AcceptDraw(g, now) ==
    FinishGame(WithSnapshot(g, now), "draw", "1/2-1/2", "draw_agreement")

TimeoutGame(g, loser, now, reason) ==
    LET s == WithSnapshot(g, now)
        flagged == IF loser = "white" THEN [s EXCEPT !.white_time_ms = 0]
                                      ELSE [s EXCEPT !.black_time_ms = 0]
    IN  FinishGame(flagged, "timeout", WinFor(Opponent(loser)), reason)

AbortGame(g, now) ==
    FinishGame(WithSnapshot(g, now), "aborted", "none", "auto_abort")

\* Mutant: the pause forgets to charge the clock it stops.
PauseForDisconnectUncharged(g, p, now) ==
    [g EXCEPT !.last_clock_started_at = NoTime,
              !.disconnected_player_id = p,
              !.disconnect_grace_deadline_at = now + GraceTime]

PauseForDisconnect(g, p, now) ==
    [WithSnapshot(g, now) EXCEPT !.last_clock_started_at = NoTime,
                                 !.disconnected_player_id = p,
                                 !.disconnect_grace_deadline_at = now + GraceTime]

ResumeAfterReconnect(g, now) ==
    [ClearDisconnectState(g) EXCEPT !.last_clock_started_at = now]

\* What the board says after a move by p (python-chess).
ApplyBoardOutcome(g, p, outcome, now) ==
    CASE outcome = "checkmate"  -> FinishGame(g, "checkmate", WinFor(p), "checkmate")
      [] outcome = "stalemate"  -> FinishGame(g, "stalemate", "1/2-1/2", "stalemate")
      [] outcome = "draw"       -> FinishGame(g, "draw", "1/2-1/2", "draw")
      [] outcome = "repetition" -> FinishGame(g, "draw", "1/2-1/2", "repetition")
      [] outcome = "none"       -> [g EXCEPT !.last_clock_started_at = now]

\* Which outcomes the nth half-move can have: the shortest mate takes four.
Outcomes == {"none", "checkmate", "stalemate", "draw", "repetition"}
OutcomesAt(n) == IF n < 4 THEN {"none"} ELSE Outcomes

-----------------------------------------------------------------------------
(* moves.py and policies.py *)

\* Mutant: the move leaves the grace window of a paused game open.
ApplyPlayerMoveKeepingPause(g, outcome, now) ==
    LET s == WithSnapshot(g, now)
        paid == IF Turn(g) = "white" THEN [s EXCEPT !.white_time_ms = @ + Increment]
                                     ELSE [s EXCEPT !.black_time_ms = @ + Increment]
    IN  ApplyBoardOutcome([paid EXCEPT !.fen = @ + 1], Turn(g), outcome, now)

\* apply_player_move by the player whose turn it is.
ApplyPlayerMove(g, outcome, now) ==
    LET p == Turn(g)
        s == WithSnapshot(g, now)
        paid == IF p = "white" THEN [s EXCEPT !.white_time_ms = @ + Increment]
                               ELSE [s EXCEPT !.black_time_ms = @ + Increment]
        moved == [ClearDisconnectState(paid) EXCEPT !.fen = @ + 1]
    IN  ApplyBoardOutcome(moved, p, outcome, now)

MeaningfulStartMoveCount == 2
IsMeaningfullyStarted(moveCount) == moveCount >= MeaningfulStartMoveCount

\* monitor_active_games: a grace window that has run out, or a flagged clock.
GraceHasExpired(g, now) ==
    /\ g.status = "active"
    /\ g.disconnect_grace_deadline_at # NoTime
    /\ g.disconnect_grace_deadline_at <= now

\* Mutant: the loser of a grace window is the player to move, as for a clock.
GraceLoserToMove(g) == ActivePlayer(g)

\* The loser of an expired grace window when the disconnected player is unset
\* is the player to move.
GraceLoser(g) ==
    IF g.disconnected_player_id # NoOne THEN g.disconnected_player_id
                                        ELSE ActivePlayer(g)

\* Mutant: nothing is done about a game that has not really started.
ResolveGraceOfStartedGames(g, moveCount, now) ==
    IF IsMeaningfullyStarted(moveCount)
    THEN TimeoutGame(g, GraceLoser(g), now, "disconnect_timeout")
    ELSE g

ResolveGrace(g, moveCount, now) ==
    IF IsMeaningfullyStarted(moveCount)
    THEN TimeoutGame(g, GraceLoser(g), now, "disconnect_timeout")
    ELSE AbortGame(g, now)

Overdue(g, now) == GraceHasExpired(g, now) \/ ClockHasExpired(g, now)

\* A finished game's rating update is due (the early returns of
\* apply_game_rating).
RatingIsDue(g) ==
    /\ g.result # "none"
    /\ ~g.rating_after
    /\ g.status # "active"

\* The rating update of two players rated alike, with the Elo step of the winner as
\* the unit.
RatingChange(result, p) ==
    CASE result = WinFor(p)           -> 1
      [] result = WinFor(Opponent(p)) -> -1
      [] OTHER                        -> 0
=============================================================================
