---------------------------- MODULE Game_proofs ----------------------------
(***************************************************************************)
(* The safety properties of Game, for every time control, grace period and *)
(* bound on the clock and on the moves.                                    *)
(***************************************************************************)
EXTENDS Game, GameRules_proofs

-----------------------------------------------------------------------------
\* The window of a paused game began with the recorded player's absence.
GraceWindow ==
    game.disconnect_grace_deadline_at # NoTime =>
        since[game.disconnected_player_id] + GraceTime
            <= game.disconnect_grace_deadline_at

ClocksInOrder == stamp <= now /\ \A p \in Players : since[p] <= now

IInv ==
    /\ TypeOK
    /\ RowConsistent
    /\ PausedPlayerIsOffline
    /\ ClockBound
    /\ MoveLogAgrees
    /\ RatedForFinalResult
    /\ GraceWindow
    /\ ClocksInOrder

LEMMA InitIInv == Init => IInv
  <1>. SUFFICES ASSUME Init PROVE IInv
    OBVIOUS
  <1>1. game \in Rows
    BY NewGameType DEF Init
  <1>2. TypeOK
    BY <1>1 DEF Init, TypeOK, Sockets
  <1>3. RowConsistent
    BY DEF Init, RowConsistent, ActiveRowConsistent, FinishedRowConsistent,
           NewGame, NoTime, NoOne
  <1>4. PausedPlayerIsOffline /\ MoveLogAgrees /\ RatedForFinalResult /\ GraceWindow
    BY DEF Init, PausedPlayerIsOffline, MoveLogAgrees, RatedForFinalResult, GraceWindow,
           NewGame, NoTime, NoOne
  <1>5. ClockBound
    <2>1. ASSUME NEW p \in Players
          PROVE  MovesBy(<<>>, p) = 0
      <3>1. {i \in DOMAIN <<>> : <<>>[i].user = p} = {}
        OBVIOUS
      <3>. QED BY <3>1, FS_EmptySet DEF MovesBy
    <2>. QED
      BY <2>1, ClockAssumption DEF Init, ClockBound, TimeOf, NewGame
  <1>6. ClocksInOrder
    BY DEF Init, ClocksInOrder
  <1>. QED BY <1>2, <1>3, <1>4, <1>5, <1>6 DEF IInv

-----------------------------------------------------------------------------
\* The bound a player's time must stay under is a number.
LEMMA BoundType ==
    ASSUME TypeOK, NEW p \in Players
    PROVE  /\ MovesBy(moves, p) \in Nat
           /\ Increment * MovesBy(moves, p) \in Nat
           /\ TimeOf(game, p) \in Nat
  <1>1. MovesBy(moves, p) \in Nat
    BY MovesByAppend DEF TypeOK, MoveRows, Players
  <1>. QED
    BY <1>1, ClockAssumption DEF TimeOf, Rows, TypeOK

\* Taking time down, or leaving it, keeps the bound.
LEMMA ClockBoundKept ==
    ASSUME TypeOK, ClockBound, game' \in Rows, UNCHANGED moves,
           game'.white_time_ms <= game.white_time_ms,
           game'.black_time_ms <= game.black_time_ms
    PROVE  ClockBound'
  <1>. SUFFICES ASSUME NEW p \in Players
                PROVE  TimeOf(game', p) <= InitialTime + Increment * MovesBy(moves, p)
    BY DEF ClockBound
  <1>. DEFINE plus == Increment * MovesBy(moves, p)
  <1>1. TimeOf(game', p) <= TimeOf(game, p)
    BY DEF TimeOf
  <1>2. TimeOf(game, p) <= InitialTime + plus
    BY DEF ClockBound
  <1>3. plus \in Nat /\ TimeOf(game, p) \in Nat /\ TimeOf(game', p) \in Nat
    BY BoundType DEF TimeOf, Rows
  <1>4. TimeOf(game', p) <= InitialTime + plus
    <2>. HIDE DEF plus
    <2>. QED BY <1>1, <1>2, <1>3, ClockAssumption
  <1>. QED BY <1>4

\* An operation that ends the game keeps the invariant.
LEMMA EndKeepsIInv ==
    ASSUME IInv, game.status = "active", game' \in Rows, Ends(game, game'),
           stamp' \in Nat, stamp' <= now, UNCHANGED <<moves, ratings, now, sock, since>>
    PROVE  IInv'
  <1>. USE DEF IInv
  <1>1. TypeOK'
    BY DEF TypeOK
  <1>2. RowConsistent'
    BY DEF RowConsistent, ActiveRowConsistent, FinishedRowConsistent, Ends, FinishedStatuses
  <1>3. PausedPlayerIsOffline' /\ GraceWindow'
    BY DEF PausedPlayerIsOffline, GraceWindow, Ends
  <1>4. ClockBound'
    BY ClockBoundKept DEF Ends
  <1>5. MoveLogAgrees'
    BY DEF MoveLogAgrees, Ends
  <1>6. RatedForFinalResult'
    BY DEF RatedForFinalResult, Ends, RowConsistent, ActiveRowConsistent
  <1>7. ClocksInOrder'
    BY DEF ClocksInOrder
  <1>. QED BY <1>1, <1>2, <1>3, <1>4, <1>5, <1>6, <1>7

LEMMA EnvironmentKeepsIInv ==
    ASSUME IInv, Tick \/ \E p \in Players : Drop(p) \/ Connect(p)
    PROVE  IInv'
  <1>. USE DEF IInv
  <1>1. CASE Tick
    <2>1. TypeOK' /\ ClocksInOrder'
      BY <1>1 DEF Tick, TypeOK, ClocksInOrder
    <2>. QED
      BY <1>1, <2>1 DEF Tick, RowConsistent, ActiveRowConsistent, FinishedRowConsistent,
         PausedPlayerIsOffline, ClockBound, MoveLogAgrees, RatedForFinalResult, GraceWindow
  <1>2. ASSUME NEW p \in Players, Drop(p)
        PROVE  IInv'
    <2>1. TypeOK' /\ ClocksInOrder'
      BY <1>2 DEF Drop, TypeOK, ClocksInOrder, Sockets
    <2>2. game.disconnected_player_id # p
      BY <1>2 DEF Drop, PausedPlayerIsOffline, Players, NoOne
    <2>3. PausedPlayerIsOffline'
      BY <1>2, <2>2 DEF Drop, PausedPlayerIsOffline, TypeOK, Rows
    <2>4. GraceWindow'
      <3>1. game.disconnect_grace_deadline_at # NoTime =>
                game.disconnected_player_id \in Players \ {p}
        BY <2>2 DEF RowConsistent, ActiveRowConsistent, FinishedRowConsistent, TypeOK, Rows
      <3>. QED BY <1>2, <3>1 DEF Drop, GraceWindow, TypeOK
    <2>. QED
      BY <1>2, <2>1, <2>3, <2>4 DEF Drop, RowConsistent, ActiveRowConsistent,
         FinishedRowConsistent, ClockBound, MoveLogAgrees, RatedForFinalResult
  <1>3. ASSUME NEW p \in Players, Connect(p)
        PROVE  IInv'
    <2>1. TypeOK' /\ ClocksInOrder'
      BY <1>3 DEF Connect, TypeOK, ClocksInOrder, Sockets
    <2>2. PausedPlayerIsOffline'
      BY <1>3 DEF Connect, PausedPlayerIsOffline, TypeOK, Rows
    <2>. QED
      BY <1>3, <2>1, <2>2 DEF Connect, RowConsistent, ActiveRowConsistent,
         FinishedRowConsistent, ClockBound, MoveLogAgrees, RatedForFinalResult, GraceWindow
  <1>. QED BY <1>1, <1>2, <1>3

LEMMA DisconnectKeepsIInv ==
    ASSUME IInv, NEW p \in Players, NEW t \in Nat, MarkDisconnected(p, t)
    PROVE  IInv'
  <1>. USE DEF IInv
  <1>1. game' \in Rows
    BY PauseType DEF MarkDisconnected, TypeOK
  <1>2. TypeOK' /\ ClocksInOrder'
    BY <1>1 DEF MarkDisconnected, Stamped, TypeOK, ClocksInOrder, Sockets
  <1>3. CASE game.status # "active"
    <2>1. PausedPlayerIsOffline'
      BY <1>3 DEF MarkDisconnected, PausedPlayerIsOffline, RowConsistent, FinishedRowConsistent
    <2>. QED
      BY <1>2, <1>3, <2>1 DEF MarkDisconnected, RowConsistent, ActiveRowConsistent,
         FinishedRowConsistent, ClockBound, MoveLogAgrees, RatedForFinalResult, GraceWindow
  <1>4. CASE game.status = "active"
    <2>1. /\ game'.fen = game.fen
          /\ game'.status = game.status
          /\ game'.result = game.result
          /\ game'.termination_reason = game.termination_reason
          /\ game'.rating_after = game.rating_after
          /\ game'.last_clock_started_at = NoTime
          /\ game'.disconnected_player_id = p
          /\ game'.disconnect_grace_deadline_at = t + GraceTime
          /\ game'.white_time_ms <= game.white_time_ms
          /\ game'.black_time_ms <= game.black_time_ms
      <3>1. game' = PauseForDisconnect(game, p, t)
        BY <1>4 DEF MarkDisconnected
      <3>. QED BY <3>1, PauseColumns DEF TypeOK
    <2>2. RowConsistent'
      <3>1. t + GraceTime # NoTime /\ p # NoOne
        BY ClockAssumption DEF NoTime, NoOne, Players
      <3>. QED
        BY <1>4, <2>1, <3>1 DEF RowConsistent, ActiveRowConsistent, FinishedRowConsistent
    <2>3. PausedPlayerIsOffline'
      BY <2>1 DEF MarkDisconnected, PausedPlayerIsOffline, TypeOK
    <2>4. GraceWindow'
      BY <2>1, ClockAssumption DEF MarkDisconnected, GraceWindow, TypeOK
    <2>5. ClockBound'
      BY <1>1, <2>1, ClockBoundKept DEF MarkDisconnected
    <2>6. MoveLogAgrees' /\ RatedForFinalResult'
      BY <2>1 DEF MarkDisconnected, MoveLogAgrees, RatedForFinalResult
    <2>. QED BY <1>2, <2>2, <2>3, <2>4, <2>5, <2>6
  <1>. QED BY <1>3, <1>4

LEMMA ReconnectKeepsIInv ==
    ASSUME IInv, NEW p \in Players, NEW t \in Nat, MarkReconnected(p, t)
    PROVE  IInv'
  <1>. USE DEF IInv
  <1>1. game' \in Rows
    BY ResumeType DEF MarkReconnected, TypeOK
  <1>2. TypeOK' /\ ClocksInOrder'
    BY <1>1 DEF MarkReconnected, Stamped, TypeOK, ClocksInOrder, Sockets
  <1>3. CASE ~(game.status = "active" /\ game.disconnected_player_id = p)
    <2>1. PausedPlayerIsOffline'
      <3>1. game.disconnected_player_id # p
        BY <1>3 DEF RowConsistent, FinishedRowConsistent, TypeOK, NoOne, Players
      <3>. QED
        BY <1>3, <3>1 DEF MarkReconnected, PausedPlayerIsOffline, TypeOK, Rows
    <2>. QED
      BY <1>2, <1>3, <2>1 DEF MarkReconnected, RowConsistent, ActiveRowConsistent,
         FinishedRowConsistent, ClockBound, MoveLogAgrees, RatedForFinalResult, GraceWindow
  <1>4. CASE game.status = "active" /\ game.disconnected_player_id = p
    <2>1. /\ game'.fen = game.fen
          /\ game'.status = game.status
          /\ game'.result = game.result
          /\ game'.termination_reason = game.termination_reason
          /\ game'.rating_after = game.rating_after
          /\ game'.last_clock_started_at = t
          /\ game'.disconnected_player_id = NoOne
          /\ game'.disconnect_grace_deadline_at = NoTime
          /\ game'.white_time_ms = game.white_time_ms
          /\ game'.black_time_ms = game.black_time_ms
      <3>1. game' = ResumeAfterReconnect(game, t)
        BY <1>4 DEF MarkReconnected
      <3>. QED BY <3>1, ResumeColumns DEF TypeOK
    <2>2. RowConsistent'
      BY <1>4, <2>1 DEF RowConsistent, ActiveRowConsistent, FinishedRowConsistent, NoTime
    <2>3. PausedPlayerIsOffline' /\ GraceWindow'
      BY <2>1 DEF PausedPlayerIsOffline, GraceWindow
    <2>4. ClockBound'
      BY <1>1, <2>1, ClockBoundKept DEF MarkReconnected, TypeOK, Rows
    <2>5. MoveLogAgrees' /\ RatedForFinalResult'
      BY <2>1 DEF MarkReconnected, MoveLogAgrees, RatedForFinalResult
    <2>. QED BY <1>2, <2>2, <2>3, <2>4, <2>5
  <1>. QED BY <1>3, <1>4

LEMMA MoveKeepsIInv ==
    ASSUME IInv, NEW p \in Players, NEW outcome \in Outcomes, NEW t \in Nat,
           MakeMove(p, outcome, t)
    PROVE  IInv'
  <1>. USE DEF IInv
  <1>. DEFINE row == [move_number |-> Len(moves) + 1, user |-> p]
  <1>1. /\ game.status = "active"
        /\ Turn(game) = p
        /\ game' = ApplyPlayerMove(game, outcome, t)
        /\ moves' = Append(moves, row)
        /\ UNCHANGED <<ratings, now, sock, since>>
        /\ Stamped(t)
    BY DEF MakeMove, Command
  <1>2. game' \in Rows /\ Moves(game, game', t)
    BY <1>1, MoveType, MoveMoves DEF TypeOK
  <1>3. /\ moves \in Seq(MoveRows)
        /\ row \in MoveRows
        /\ Len(moves) \in Nat
    BY DEF TypeOK, MoveRows
  <1>4. /\ moves' \in Seq(MoveRows)
        /\ Len(moves') = Len(moves) + 1
    <2>. HIDE DEF row
    <2>. QED BY <1>1, <1>3
  <1>5. TypeOK' /\ ClocksInOrder'
    BY <1>1, <1>2, <1>4 DEF TypeOK, Stamped, ClocksInOrder, MoveRows
  <1>6. RowConsistent'
    BY <1>1, <1>2 DEF Moves, RowConsistent, ActiveRowConsistent, FinishedRowConsistent,
       FinishedStatuses, NoTime
  <1>7. PausedPlayerIsOffline' /\ GraceWindow'
    BY <1>2 DEF Moves, PausedPlayerIsOffline, GraceWindow
  <1>8. MoveLogAgrees'
    BY <1>2, <1>4 DEF Moves, MoveLogAgrees
  <1>9. RatedForFinalResult'
    BY <1>1, <1>2 DEF Moves, RatedForFinalResult, RowConsistent, ActiveRowConsistent
  <1>10. ClockBound'
    <2>. SUFFICES ASSUME NEW q \in Players
                  PROVE  TimeOf(game', q) <= InitialTime + Increment * MovesBy(moves', q)
      BY DEF ClockBound
    <2>. DEFINE n == MovesBy(moves, q)
                n2 == MovesBy(moves', q)
                add == IF q = p THEN Increment ELSE 0
    <2>1. n \in Nat /\ n2 = n + (IF p = q THEN 1 ELSE 0)
      BY <1>1, <1>3, MovesByAppend
    <2>2. TimeOf(game', q) <= TimeOf(game, q) + add
      BY <1>1, <1>2 DEF Moves, TimeOf, Players
    <2>3. TimeOf(game, q) <= InitialTime + Increment * n
      BY DEF ClockBound
    <2>4. TimeOf(game, q) \in Nat /\ TimeOf(game', q) \in Nat
      BY <1>2 DEF TimeOf, TypeOK, Rows
    <2>5. /\ Increment * n2 = Increment * n + add
          /\ Increment * n \in Nat
          /\ add \in Nat
      <3>. HIDE DEF n, n2
      <3>. QED BY <2>1, ClockAssumption
    <2>6. TimeOf(game', q) <= InitialTime + Increment * n2
      <3>. DEFINE a == Increment * n
                  b == Increment * n2
      <3>1. TimeOf(game, q) <= InitialTime + a /\ b = a + add /\ a \in Nat /\ b \in Nat
        BY <2>3, <2>5
      <3>2. TimeOf(game', q) <= InitialTime + b
        <4>. HIDE DEF a, b, add
        <4>. QED BY <2>2, <2>4, <2>5, <3>1, ClockAssumption
      <3>. QED BY <3>2
    <2>. QED BY <2>6
  <1>. QED BY <1>5, <1>6, <1>7, <1>8, <1>9, <1>10

LEMMA RatingKeepsIInv ==
    ASSUME IInv, ApplyRating
    PROVE  IInv'
  <1>. USE DEF IInv
  <1>1. /\ game.status # "active"
        /\ ~game.rating_after
        /\ game' = [game EXCEPT !.rating_after = TRUE]
        /\ UNCHANGED <<moves, now, stamp, sock, since>>
    BY DEF ApplyRating, RatingIsDue
  <1>2. /\ game' \in Rows
        /\ game'.rating_after
        /\ game'.status = game.status
        /\ game'.result = game.result
        /\ game'.termination_reason = game.termination_reason
        /\ game'.fen = game.fen
        /\ game'.white_time_ms = game.white_time_ms
        /\ game'.black_time_ms = game.black_time_ms
        /\ game'.last_clock_started_at = game.last_clock_started_at
        /\ game'.disconnected_player_id = game.disconnected_player_id
        /\ game'.disconnect_grace_deadline_at = game.disconnect_grace_deadline_at
    BY <1>1 DEF TypeOK, Rows
  <1>3. \A p \in Players : RatingChange(game.result, p) \in Int
    BY DEF RatingChange
  <1>4. TypeOK'
    BY <1>1, <1>2, <1>3 DEF ApplyRating, TypeOK
  <1>5. RatedForFinalResult'
    BY <1>1, <1>2, <1>3 DEF ApplyRating, RatedForFinalResult, TypeOK
  <1>6. ClockBound'
    BY <1>1, <1>2 DEF ClockBound, TimeOf
  <1>. QED
    BY <1>1, <1>2, <1>4, <1>5, <1>6 DEF RowConsistent, ActiveRowConsistent,
       FinishedRowConsistent, PausedPlayerIsOffline, MoveLogAgrees, GraceWindow, ClocksInOrder

-----------------------------------------------------------------------------
\* Every operation that ends a game, by action.
LEMMA EndingActions ==
    ASSUME IInv, NEW t \in 0..now,
           \/ \E p \in Players : ExpireOnMove(p, t) \/ Resign(p, t) \/ AgreeDraw(p, t)
           \/ MonitorGrace(t)
           \/ MonitorClock(t)
    PROVE  /\ game.status = "active"
           /\ game' \in Rows
           /\ Ends(game, game')
           /\ stamp' \in Nat /\ stamp' <= now
           /\ UNCHANGED <<moves, ratings, now, sock, since>>
  <1>. USE DEF IInv
  <1>1. /\ game \in Rows /\ Turn(game) \in Players /\ Len(moves) \in Nat
        /\ t \in Nat /\ stamp \in Nat /\ stamp <= now /\ t <= now
    BY TurnType DEF TypeOK, ClocksInOrder
  <1>2. CASE \E p \in Players : ExpireOnMove(p, t)
    BY <1>1, <1>2, TimeoutType, TimeoutEnds DEF ExpireOnMove, Command, Reasons, Stamped
  <1>3. CASE \E p \in Players : Resign(p, t)
    BY <1>1, <1>3, ResignType, ResignEnds DEF Resign, Command, Stamped
  <1>4. CASE \E p \in Players : AgreeDraw(p, t)
    BY <1>1, <1>4, DrawType, DrawEnds DEF AgreeDraw, Command, Stamped
  <1>5. CASE MonitorGrace(t)
    BY <1>1, <1>5, GraceType, GraceEnds DEF MonitorGrace, GraceHasExpired, JudgedAt
  <1>6. CASE MonitorClock(t)
    BY <1>1, <1>6, TimeoutType, TimeoutEnds
       DEF MonitorClock, ClockHasExpired, Reasons, JudgedAt
  <1>. QED BY <1>2, <1>3, <1>4, <1>5, <1>6

LEMMA NextKeepsIInv == IInv /\ [Next]_vars => IInv'
  <1>. SUFFICES ASSUME IInv, [Next]_vars PROVE IInv'
    OBVIOUS
  <1>1. CASE UNCHANGED vars
    BY <1>1 DEF IInv, vars, TypeOK, RowConsistent, ActiveRowConsistent,
       FinishedRowConsistent, PausedPlayerIsOffline, ClockBound, MoveLogAgrees,
       RatedForFinalResult, GraceWindow, ClocksInOrder
  <1>2. CASE Tick \/ \E p \in Players : Drop(p) \/ Connect(p)
    BY <1>2, EnvironmentKeepsIInv
  <1>3. stamp..now \subseteq Nat /\ stamp..now \subseteq 0..now
    BY DEF IInv, TypeOK
  <1>4. ASSUME NEW p \in Players, NEW t \in stamp..now, MarkDisconnected(p, t)
        PROVE  IInv'
    BY <1>3, <1>4, DisconnectKeepsIInv
  <1>5. ASSUME NEW p \in Players, NEW t \in stamp..now, MarkReconnected(p, t)
        PROVE  IInv'
    BY <1>3, <1>5, ReconnectKeepsIInv
  <1>6. ASSUME NEW p \in Players, NEW t \in stamp..now, NEW outcome \in Outcomes,
               MakeMove(p, outcome, t)
        PROVE  IInv'
    BY <1>3, <1>6, MoveKeepsIInv
  <1>7. ASSUME NEW t \in 0..now,
               \/ \E p \in Players : ExpireOnMove(p, t) \/ Resign(p, t) \/ AgreeDraw(p, t)
               \/ MonitorGrace(t)
               \/ MonitorClock(t)
        PROVE  IInv'
    BY <1>7, EndingActions, EndKeepsIInv
  <1>8. CASE ApplyRating
    BY <1>8, RatingKeepsIInv
  <1>. QED
    BY <1>1, <1>2, <1>3, <1>4, <1>5, <1>6, <1>7, <1>8 DEF Next

LEMMA SpecIInv == Spec => []IInv
  BY InitIInv, NextKeepsIInv, PTL DEF Spec

\* Type correctness: in particular no clock is ever below zero.
THEOREM TypeCorrect == Spec => []TypeOK
  <1>1. IInv => TypeOK
    BY DEF IInv
  <1>. QED BY <1>1, SpecIInv, PTL

\* The lifecycle columns of the row always agree with one another
\* (outcomes.py), so an active game always has a running clock or an open grace
\* window that will end it.
THEOREM RowsConsistent == Spec => []RowConsistent
  <1>1. IInv => RowConsistent
    BY DEF IInv
  <1>. QED BY <1>1, SpecIInv, PTL

\* A paused game waits for a player who is away.
THEOREM PausedOffline == Spec => []PausedPlayerIsOffline
  <1>1. IInv => PausedPlayerIsOffline
    BY DEF IInv
  <1>. QED BY <1>1, SpecIInv, PTL

\* No player holds more time than the time control gave.
THEOREM ClocksBounded == Spec => []ClockBound
  <1>1. IInv => ClockBound
    BY DEF IInv
  <1>. QED BY <1>1, SpecIInv, PTL

\* The row and the move log describe the same position, and the rating has been
\* applied at most once, for the result the game ended with.
THEOREM LogAndRatingAgree == Spec => [](MoveLogAgrees /\ RatedForFinalResult)
  <1>1. IInv => MoveLogAgrees /\ RatedForFinalResult
    BY DEF IInv
  <1>. QED BY <1>1, SpecIInv, PTL

-----------------------------------------------------------------------------
\* A finished game stays as it finished, apart from its rating columns.
THEOREM FinalityHolds == Spec => FinishedIsFinal
  <1>. DEFINE Final == game.status # "active" =>
                [game' EXCEPT !.rating_after = FALSE] = [game EXCEPT !.rating_after = FALSE]
  <1>1. IInv /\ [Next]_vars => [Final]_vars
    <2>. SUFFICES ASSUME IInv, Next, game.status # "active" PROVE Final
      OBVIOUS
    <2>1. game \in Rows
      BY DEF IInv, TypeOK
    <2>2. game' = game \/ game' = [game EXCEPT !.rating_after = TRUE]
      BY DEF Next, Tick, Drop, Connect, MarkDisconnected, MarkReconnected, MakeMove,
         ExpireOnMove, Resign, AgreeDraw, Command, MonitorGrace, MonitorClock,
         GraceHasExpired, ClockHasExpired, ApplyRating
    <2>. QED BY <2>1, <2>2 DEF Rows
  <1>. QED BY <1>1, SpecIInv, PTL DEF Spec, FinishedIsFinal

\* How FinishGame names the end it gives a game.
LEMMA EndNamed ==
    ASSUME NEW g \in Rows, NEW status, NEW result, NEW reason
    PROVE  LET f == FinishGame(g, status, result, reason)
           IN  /\ f.status = status
               /\ f.result = result
               /\ f.termination_reason = reason
  BY DEF FinishGame, ClearDisconnectState, Rows

\* A grace window is resolved against the recorded player when two moves were
\* played, and by an abort when fewer were.
LEMMA GraceNamed ==
    ASSUME NEW g \in Rows, NEW count \in Nat, NEW t \in Nat,
           g.disconnected_player_id \in Players
    PROVE  LET f == ResolveGrace(g, count, t)
           IN  /\ count >= 2 =>
                    /\ f.status = "timeout"
                    /\ f.result = WinFor(Opponent(g.disconnected_player_id))
               /\ count < 2 =>
                    /\ f.status = "aborted"
                    /\ f.termination_reason = "auto_abort"
  <1>. DEFINE p == g.disconnected_player_id
              s == WithSnapshot(g, t)
              flagged == IF p = "white" THEN [s EXCEPT !.white_time_ms = 0]
                                        ELSE [s EXCEPT !.black_time_ms = 0]
  <1>1. s \in Rows /\ flagged \in Rows
    BY WithSnapshotType DEF Rows
  <1>2. GraceLoser(g) = p
    BY DEF GraceLoser, NoOne, Players
  <1>3. AbortGame(g, t) = FinishGame(s, "aborted", "none", "auto_abort")
    BY DEF AbortGame
  <1>4. TimeoutGame(g, p, t, "disconnect_timeout")
            = FinishGame(flagged, "timeout", WinFor(Opponent(p)), "disconnect_timeout")
    BY DEF TimeoutGame
  <1>5. ResolveGrace(g, count, t) = IF count >= 2
            THEN FinishGame(flagged, "timeout", WinFor(Opponent(p)), "disconnect_timeout")
            ELSE FinishGame(s, "aborted", "none", "auto_abort")
    BY <1>2, <1>3, <1>4 DEF ResolveGrace, IsMeaningfullyStarted, MeaningfulStartMoveCount
  <1>. HIDE DEF s, flagged, p
  <1>. QED BY <1>1, <1>5, EndNamed DEF p

\* A flagged clock is named as such.
LEMMA TimeoutNamed ==
    ASSUME NEW g \in Rows, NEW p \in Players, NEW t \in Nat, NEW reason
    PROVE  LET f == TimeoutGame(g, p, t, reason)
           IN  /\ f.status = "timeout"
               /\ f.result = WinFor(Opponent(p))
               /\ f.termination_reason = reason
  <1>. DEFINE s == WithSnapshot(g, t)
              flagged == IF p = "white" THEN [s EXCEPT !.white_time_ms = 0]
                                        ELSE [s EXCEPT !.black_time_ms = 0]
  <1>1. flagged \in Rows
    BY WithSnapshotType DEF Rows
  <1>2. TimeoutGame(g, p, t, reason)
            = FinishGame(flagged, "timeout", WinFor(Opponent(p)), reason)
    BY DEF TimeoutGame
  <1>. HIDE DEF flagged
  <1>. QED BY <1>1, <1>2, EndNamed

\* The grace window is honoured: nobody loses by disconnect before a whole grace
\* period away, nor in a game of fewer than two moves, and only those abort.
THEOREM GraceHonoured == Spec => GraceResolutionEarned
  <1>. DEFINE Earned == game.status = "active" =>
                /\ game'.termination_reason = "disconnect_timeout" =>
                    \E p \in Players :
                        /\ game'.result = WinFor(Opponent(p))
                        /\ sock[p] # "up"
                        /\ since[p] + GraceTime <= now
                        /\ Len(moves) >= 2
                /\ game'.status = "aborted" => Len(moves) < 2
              Other == /\ game'.termination_reason # "disconnect_timeout"
                       /\ game'.status # "aborted"
  <1>1. IInv /\ [Next]_vars => [Earned]_vars
    <2>. SUFFICES ASSUME IInv, Next, game.status = "active" PROVE Earned
      OBVIOUS
    <2>1. /\ game \in Rows
          /\ game.termination_reason = "none"
          /\ Len(moves) \in Nat
          /\ stamp \in Nat /\ now \in Nat
          /\ \A p \in Players : since[p] \in Nat
          /\ Turn(game) \in Players
      BY TurnType DEF IInv, TypeOK, RowConsistent, ActiveRowConsistent
    <2>2. CASE UNCHANGED game
      BY <2>1, <2>2
    <2>3. CASE Tick \/ ApplyRating \/ \E p \in Players : Drop(p) \/ Connect(p)
      BY <2>1, <2>2, <2>3 DEF Tick, ApplyRating, RatingIsDue, Drop, Connect
    <2>4. ASSUME NEW p \in Players, NEW t \in stamp..now,
                 MarkDisconnected(p, t) \/ MarkReconnected(p, t)
          PROVE  Other
      <3>1. t \in Nat
        BY <2>1
      <3>. QED
        BY <2>1, <2>4, <3>1, PauseColumns, ResumeColumns DEF MarkDisconnected, MarkReconnected
    <2>5. ASSUME NEW p \in Players, NEW t \in stamp..now, NEW outcome \in Outcomes,
                 MakeMove(p, outcome, t)
          PROVE  Other
      <3>1. t \in Nat
        BY <2>1
      <3>2. Moves(game, game', t)
        BY <2>1, <2>5, <3>1, MoveMoves DEF MakeMove
      <3>. QED BY <2>1, <3>2 DEF Moves, FinishedStatuses
    <2>6. ASSUME NEW p \in Players, NEW t \in stamp..now,
                 ExpireOnMove(p, t) \/ Resign(p, t) \/ AgreeDraw(p, t)
          PROVE  Other
      <3>1. t \in Nat /\ WithSnapshot(game, t) \in Rows
        BY <2>1, WithSnapshotType
      <3>. QED
        BY <2>1, <2>6, <3>1, TimeoutNamed, EndNamed
           DEF ExpireOnMove, Resign, AgreeDraw, ResignGame, AcceptDraw
    <2>7. ASSUME NEW t \in 0..now, MonitorClock(t)
          PROVE  Other
      BY <2>1, <2>7, TimeoutNamed DEF MonitorClock
    <2>8. ASSUME NEW t \in 0..now, MonitorGrace(t)
          PROVE  Earned
      <3>. DEFINE p == game.disconnected_player_id
      <3>1. /\ t \in Nat /\ t <= now
            /\ game.disconnect_grace_deadline_at # NoTime
            /\ game.disconnect_grace_deadline_at <= t
            /\ game' = ResolveGrace(game, Len(moves), t)
        BY <2>1, <2>8 DEF MonitorGrace, GraceHasExpired
      <3>2. p \in Players /\ p # NoOne
        BY <2>1, <3>1 DEF IInv, RowConsistent, ActiveRowConsistent, Rows
      <3>3. sock[p] # "up" /\ since[p] + GraceTime <= game.disconnect_grace_deadline_at
        BY <3>1, <3>2 DEF IInv, PausedPlayerIsOffline, GraceWindow
      <3>4. since[p] + GraceTime <= now
        <4>1. game.disconnect_grace_deadline_at \in Int
          BY <2>1 DEF Rows, NoTime
        <4>. HIDE DEF p
        <4>. QED BY <2>1, <3>1, <3>2, <3>3, <4>1, ClockAssumption
      <3>5. /\ Len(moves) >= 2 => /\ game'.status = "timeout"
                                  /\ game'.result = WinFor(Opponent(p))
            /\ Len(moves) < 2 => /\ game'.status = "aborted"
                                 /\ game'.termination_reason = "auto_abort"
        BY <2>1, <3>1, <3>2, GraceNamed
      <3>. HIDE DEF p
      <3>. QED BY <2>1, <3>2, <3>3, <3>4, <3>5
    <2>. QED
      BY <2>3, <2>4, <2>5, <2>6, <2>7, <2>8 DEF Next
  <1>. QED BY <1>1, SpecIInv, PTL DEF Spec, GraceResolutionEarned

-----------------------------------------------------------------------------
\* A clock that stands, or that was started at this very instant, shows the time
\* on the row.
LEMMA JudgedAsWritten ==
    ASSUME NEW g \in Rows, NEW p \in Players, NEW t \in Nat,
           ~ClockIsRunning(g) \/ g.last_clock_started_at = t
    PROVE  SnapshotTime(g, p, t) = TimeOf(g, p)
  <1>1. CASE ~ClockIsRunning(g)
    BY <1>1 DEF SnapshotTime
  <1>2. CASE g.last_clock_started_at = t
    <2>1. t - g.last_clock_started_at <= 0
      BY <1>2
    <2>. QED BY <2>1 DEF SnapshotTime
  <1>. QED BY <1>1, <1>2

\* A snapshot writes what the clocks show.
LEMMA SnapshotWritten ==
    ASSUME NEW g \in Rows, NEW p \in Players, NEW t \in Nat
    PROVE  TimeOf(WithSnapshot(g, t), p) = SnapshotTime(g, p, t)
  BY DEF TimeOf, WithSnapshot, Players, Rows

\* Finishing stops both clocks where they are.
LEMMA FinishStops ==
    ASSUME NEW g \in Rows, NEW p \in Players, NEW t \in Nat,
           NEW status \in FinishedStatuses, NEW result \in Results, NEW reason \in Reasons
    PROVE  SnapshotTime(FinishGame(g, status, result, reason), p, t) = TimeOf(g, p)
  <1>. DEFINE f == FinishGame(g, status, result, reason)
  <1>1. f \in Rows
    BY FinishType DEF Statuses
  <1>2. f.last_clock_started_at = NoTime /\ TimeOf(f, p) = TimeOf(g, p)
    BY DEF FinishGame, ClearDisconnectState, TimeOf, Rows
  <1>3. ~ClockIsRunning(f)
    BY <1>2 DEF ClockIsRunning
  <1>. QED BY <1>1, <1>2, <1>3, JudgedAsWritten

\* Nobody's time changes when a game ends, but for the player who is flagged.
LEMMA EndsConserve ==
    ASSUME NEW g \in Rows, NEW p \in Players, NEW t \in Nat, NEW loser \in Players
    PROVE  /\ SnapshotTime(ResignGame(g, loser, t), p, t) = SnapshotTime(g, p, t)
           /\ SnapshotTime(AcceptDraw(g, t), p, t) = SnapshotTime(g, p, t)
           /\ SnapshotTime(AbortGame(g, t), p, t) = SnapshotTime(g, p, t)
           /\ \A reason \in Reasons :
                SnapshotTime(TimeoutGame(g, loser, t, reason), p, t)
                    = IF p = loser THEN 0 ELSE SnapshotTime(g, p, t)
  <1>. DEFINE s == WithSnapshot(g, t)
              flagged == IF loser = "white" THEN [s EXCEPT !.white_time_ms = 0]
                                            ELSE [s EXCEPT !.black_time_ms = 0]
  <1>1. s \in Rows /\ TimeOf(s, p) = SnapshotTime(g, p, t)
    BY WithSnapshotType, SnapshotWritten
  <1>2. flagged \in Rows
    BY <1>1 DEF Rows
  <1>3. TimeOf(flagged, p) = IF p = loser THEN 0 ELSE TimeOf(s, p)
    BY <1>1 DEF TimeOf, Players, Rows
  <1>4. WinFor(Opponent(loser)) \in Results /\ "1/2-1/2" \in Results /\ "none" \in Results
    BY WinForType DEF Results, WinFor
  <1>5. SnapshotTime(ResignGame(g, loser, t), p, t) = TimeOf(s, p)
    BY <1>1, <1>4, FinishStops DEF ResignGame, FinishedStatuses, Reasons
  <1>6. SnapshotTime(AcceptDraw(g, t), p, t) = TimeOf(s, p)
    BY <1>1, <1>4, FinishStops DEF AcceptDraw, FinishedStatuses, Reasons
  <1>7. SnapshotTime(AbortGame(g, t), p, t) = TimeOf(s, p)
    BY <1>1, <1>4, FinishStops DEF AbortGame, FinishedStatuses, Reasons
  <1>8. ASSUME NEW reason \in Reasons
        PROVE  SnapshotTime(TimeoutGame(g, loser, t, reason), p, t) = TimeOf(flagged, p)
    <2>1. TimeoutGame(g, loser, t, reason)
            = FinishGame(flagged, "timeout", WinFor(Opponent(loser)), reason)
      BY DEF TimeoutGame
    <2>. HIDE DEF flagged
    <2>. QED BY <1>2, <1>4, <2>1, FinishStops DEF FinishedStatuses
  <1>. HIDE DEF flagged, s
  <1>. QED BY <1>1, <1>3, <1>5, <1>6, <1>7, <1>8

\* A move pays its increment to the player who moved, to nobody else.
LEMMA MoveConserves ==
    ASSUME NEW g \in Rows, NEW p \in Players, NEW t \in Nat, NEW outcome \in Outcomes
    PROVE  SnapshotTime(ApplyPlayerMove(g, outcome, t), p, t)
             = SnapshotTime(g, p, t) + (IF p = Turn(g) THEN Increment ELSE 0)
  <1>. DEFINE s == WithSnapshot(g, t)
              paid == IF Turn(g) = "white"
                      THEN [s EXCEPT !.white_time_ms = @ + Increment]
                      ELSE [s EXCEPT !.black_time_ms = @ + Increment]
              moved == [ClearDisconnectState(paid) EXCEPT !.fen = @ + 1]
              kept == [moved EXCEPT !.last_clock_started_at = t]
  <1>1. s \in Rows /\ TimeOf(s, p) = SnapshotTime(g, p, t) /\ TimeOf(s, p) \in Nat
    BY WithSnapshotType, SnapshotWritten DEF TimeOf, Rows
  <1>2. paid \in Rows
    BY <1>1, ClockAssumption DEF Rows
  <1>3. TimeOf(paid, p) = TimeOf(s, p) + (IF p = Turn(g) THEN Increment ELSE 0)
    BY <1>1, ClockAssumption DEF TimeOf, Players, Rows, Turn
  <1>4. moved \in Rows /\ TimeOf(moved, p) = TimeOf(paid, p)
    <2>. HIDE DEF paid
    <2>1. /\ ClearDisconnectState(paid) \in Rows
          /\ TimeOf(ClearDisconnectState(paid), p) = TimeOf(paid, p)
      BY <1>2, ClearType DEF ClearDisconnectState, TimeOf, Rows
    <2>. QED BY <2>1 DEF TimeOf, Rows
  <1>5. /\ kept \in Rows /\ kept.last_clock_started_at = t
        /\ TimeOf(kept, p) = TimeOf(moved, p)
    BY ZenonT(30), <1>4 DEF Rows, TimeOf
  <1>6. ApplyPlayerMove(g, outcome, t) = ApplyBoardOutcome(moved, Turn(g), outcome, t)
    BY DEF ApplyPlayerMove
  <1>7. SnapshotTime(ApplyBoardOutcome(moved, Turn(g), outcome, t), p, t) = TimeOf(moved, p)
    <2>1. CASE outcome = "none"
      <3>1. ApplyBoardOutcome(moved, Turn(g), outcome, t) = kept
        BY <2>1 DEF ApplyBoardOutcome
      <3>. HIDE DEF kept, moved
      <3>. QED BY <1>5, <3>1, JudgedAsWritten
    <2>2. CASE outcome # "none"
      <3>. HIDE DEF moved
      <3>1. PICK status \in FinishedStatuses, result \in Results, reason \in Reasons :
                ApplyBoardOutcome(moved, Turn(g), outcome, t)
                    = FinishGame(moved, status, result, reason)
        BY <2>2 DEF ApplyBoardOutcome, Outcomes, FinishedStatuses, Results, Reasons, WinFor
      <3>. QED BY <1>4, <3>1, FinishStops
    <2>. QED BY <2>1, <2>2
  <1>. HIDE DEF kept, moved, paid, s
  <1>. QED BY <1>1, <1>3, <1>4, <1>6, <1>7

\* Pausing writes what the clocks show and stops them; resuming starts them at
\* what the row says.
LEMMA PauseConserves ==
    ASSUME NEW g \in Rows, NEW p \in Players, NEW t \in Nat, NEW q \in Players
    PROVE  SnapshotTime(PauseForDisconnect(g, q, t), p, t) = SnapshotTime(g, p, t)
  <1>. DEFINE f == PauseForDisconnect(g, q, t)
  <1>1. f \in Rows
    BY PauseType
  <1>2. WithSnapshot(g, t) \in Rows
    BY WithSnapshotType
  <1>3. f.last_clock_started_at = NoTime /\ TimeOf(f, p) = TimeOf(WithSnapshot(g, t), p)
    BY <1>2 DEF PauseForDisconnect, TimeOf, Rows
  <1>4. ~ClockIsRunning(f)
    BY <1>3 DEF ClockIsRunning
  <1>. QED BY <1>1, <1>3, <1>4, JudgedAsWritten, SnapshotWritten

LEMMA ResumeConserves ==
    ASSUME NEW g \in Rows, NEW p \in Players, NEW t \in Nat, ~ClockIsRunning(g)
    PROVE  SnapshotTime(ResumeAfterReconnect(g, t), p, t) = SnapshotTime(g, p, t)
  <1>. DEFINE f == ResumeAfterReconnect(g, t)
  <1>1. f \in Rows
    BY ResumeType
  <1>2. f.last_clock_started_at = t /\ TimeOf(f, p) = TimeOf(g, p)
    BY DEF ResumeAfterReconnect, ClearDisconnectState, TimeOf, Rows
  <1>. QED BY <1>1, <1>2, JudgedAsWritten

\* A clock that is not running shows the same at every instant: those of a
\* finished row, those of a paused game, and that of the player not to move.
LEMMA StoppedShows ==
    ASSUME NEW g \in Rows, NEW f \in Rows, Ends(g, f), NEW p \in Players,
           NEW t \in Nat, NEW u \in Nat
    PROVE  /\ SnapshotTime(f, p, u) = SnapshotTime(f, p, t)
           /\ ~ClockIsRunning(g) \/ p # Turn(g)
                => SnapshotTime(g, p, u) = SnapshotTime(g, p, t)
  <1>1. ~ClockIsRunning(f)
    BY DEF Ends, ClockIsRunning, FinishedStatuses
  <1>2. SnapshotTime(f, p, u) = TimeOf(f, p) /\ SnapshotTime(f, p, t) = TimeOf(f, p)
    BY <1>1, JudgedAsWritten
  <1>3. ~ClockIsRunning(g) \/ p # Turn(g)
            => SnapshotTime(g, p, u) = TimeOf(g, p) /\ SnapshotTime(g, p, t) = TimeOf(g, p)
    BY DEF SnapshotTime
  <1>. QED BY <1>2, <1>3

\* Judged at the instant of an operation, no operation takes or gives time, but
\* for the increment of a move and the player it flags: pauses, resumptions and
\* moves each charge the running clock once (capture_clock_snapshot in clock.py).
THEOREM TimeIsConserved == Spec => TimeConserved
  <1>. DEFINE Kept(p) ==
                LET before == SnapshotTime(game, p, stamp')
                    after  == SnapshotTime(game', p, stamp')
                    moved  == moves' # moves /\ p = Turn(game)
                IN  \/ after = before + (IF moved THEN Increment ELSE 0)
                    \/ after = 0 /\ game'.status = "timeout" /\ game'.result = WinFor(Opponent(p))
              Same(p) == /\ SnapshotTime(game', p, stamp') = SnapshotTime(game, p, stamp')
                         /\ moves' = moves
  <1>1. IInv /\ [Next]_vars => [\A p \in Players : Kept(p)]_vars
    <2>. SUFFICES ASSUME IInv, Next, NEW p \in Players PROVE Kept(p)
      OBVIOUS
    <2>1. /\ game \in Rows /\ Len(moves) \in Nat /\ moves \in Seq(MoveRows)
          /\ stamp \in Nat /\ now \in Nat /\ Turn(game) \in Players
      BY TurnType DEF IInv, TypeOK
    <2>2. ASSUME NEW t \in stamp..now
          PROVE  t \in Nat /\ SnapshotTime(game, p, t) \in Nat
      <3>1. t \in Nat
        BY <2>1
      <3>. QED BY <2>1, <3>1, SnapshotType
    <2>3. stamp' \in Nat /\ SnapshotTime(game, p, stamp') \in Nat
      <3>1. stamp' \in Nat
        BY <2>1, NextKeepsIInv DEF IInv, TypeOK
      <3>. QED BY <2>1, <3>1, SnapshotType
    <2>4. Same(p) => Kept(p)
      BY <2>3
    <2>5. CASE UNCHANGED <<game, moves>>
      BY <2>4, <2>5
    <2>6. CASE ApplyRating
      <3>1. /\ game.status # "active" /\ game' \in Rows /\ game'.status = game.status
            /\ TimeOf(game', p) = TimeOf(game, p) /\ moves' = moves
        BY <2>1, <2>6 DEF ApplyRating, RatingIsDue, Rows, TimeOf
      <3>2. ~ClockIsRunning(game) /\ ~ClockIsRunning(game')
        BY <3>1 DEF ClockIsRunning
      <3>. QED BY <2>1, <2>3, <2>4, <3>1, <3>2, JudgedAsWritten
    <2>7. ASSUME NEW q \in Players, NEW t \in stamp..now, MarkDisconnected(q, t)
          PROVE  Kept(p)
      BY <2>1, <2>2, <2>4, <2>5, <2>7, PauseConserves DEF MarkDisconnected, Stamped
    <2>8. ASSUME NEW q \in Players, NEW t \in stamp..now, MarkReconnected(q, t)
          PROVE  Kept(p)
      <3>1. game.status = "active" /\ game.disconnected_player_id = q => ~ClockIsRunning(game)
        BY DEF IInv, RowConsistent, ActiveRowConsistent, ClockIsRunning, NoOne, Players
      <3>. QED
        BY <2>1, <2>2, <2>4, <2>5, <2>8, <3>1, ResumeConserves DEF MarkReconnected, Stamped
    <2>9. ASSUME NEW q \in Players, NEW t \in stamp..now, NEW outcome \in Outcomes,
                 MakeMove(q, outcome, t)
          PROVE  Kept(p)
      <3>1. /\ stamp' = t /\ game' = ApplyPlayerMove(game, outcome, t)
            /\ moves' = Append(moves, [move_number |-> Len(moves) + 1, user |-> q])
        BY <2>9 DEF MakeMove, Command, Stamped
      <3>2. moves' # moves
        BY <2>1, <3>1
      <3>. QED BY <2>1, <2>2, <3>1, <3>2, MoveConserves
    <2>10. ASSUME NEW loser \in Players, NEW t \in stamp..now, NEW reason \in Reasons,
                  game' = TimeoutGame(game, loser, t, reason), stamp' = t, moves' = moves
           PROVE  Kept(p)
      <3>1. game'.status = "timeout" /\ game'.result = WinFor(Opponent(loser))
        BY <2>1, <2>2, <2>10, TimeoutNamed
      <3>. QED BY <2>1, <2>2, <2>4, <2>10, <3>1, EndsConserve
    <2>11. ASSUME NEW q \in Players, NEW t \in stamp..now,
                  ExpireOnMove(q, t) \/ Resign(q, t) \/ AgreeDraw(q, t)
           PROVE  Kept(p)
      <3>1. CASE ExpireOnMove(q, t)
        BY <2>1, <2>10, <3>1 DEF ExpireOnMove, Command, Stamped, Reasons
      <3>2. CASE Resign(q, t) \/ AgreeDraw(q, t)
        BY <2>1, <2>2, <2>4, <3>2, EndsConserve DEF Resign, AgreeDraw, Command, Stamped
      <3>. QED BY <2>11, <3>1, <3>2
    <2>12. ASSUME NEW t \in 0..now, MonitorClock(t)
           PROVE  Kept(p)
      <3>. DEFINE loser == Turn(game)
      <3>1. /\ game' = TimeoutGame(game, loser, t, "clock_timeout") /\ moves' = moves
            /\ game' \in Rows /\ Ends(game, game') /\ t \in Nat
        BY <2>1, <2>12, EndingActions DEF MonitorClock
      <3>2. game'.status = "timeout" /\ game'.result = WinFor(Opponent(loser))
        BY <2>1, <3>1, TimeoutNamed
      <3>3. SnapshotTime(game', p, t) = IF p = loser THEN 0 ELSE SnapshotTime(game, p, t)
        BY <2>1, <3>1, EndsConserve DEF Reasons
      <3>4. SnapshotTime(game', p, stamp') = SnapshotTime(game', p, t)
        BY <2>1, <2>3, <3>1, StoppedShows
      <3>5. p # loser => SnapshotTime(game, p, stamp') = SnapshotTime(game, p, t)
        BY <2>1, <2>3, <3>1, StoppedShows
      <3>. HIDE DEF loser
      <3>. QED BY <2>4, <3>1, <3>2, <3>3, <3>4, <3>5
    <2>13. ASSUME NEW t \in 0..now, MonitorGrace(t)
           PROVE  Kept(p)
      <3>1. /\ game' = ResolveGrace(game, Len(moves), t) /\ moves' = moves
            /\ game' \in Rows /\ Ends(game, game') /\ t \in Nat
            /\ game.status = "active" /\ game.disconnect_grace_deadline_at # NoTime
        BY <2>1, <2>13, EndingActions DEF MonitorGrace, GraceHasExpired
      <3>2. ~ClockIsRunning(game)
        BY <3>1 DEF IInv, RowConsistent, ActiveRowConsistent, ClockIsRunning
      <3>3. /\ SnapshotTime(game', p, stamp') = SnapshotTime(game', p, t)
            /\ SnapshotTime(game, p, stamp') = SnapshotTime(game, p, t)
        BY <2>1, <2>3, <3>1, <3>2, StoppedShows
      <3>4. CASE IsMeaningfullyStarted(Len(moves))
        <4>. DEFINE loser == GraceLoser(game)
        <4>1. loser \in Players
          BY <2>1, <3>1 DEF GraceLoser, ActivePlayer, Rows, NoOne
        <4>2. game' = TimeoutGame(game, loser, t, "disconnect_timeout")
          BY <3>1, <3>4 DEF ResolveGrace
        <4>. HIDE DEF loser
        <4>3. game'.status = "timeout" /\ game'.result = WinFor(Opponent(loser))
          BY <2>1, <3>1, <4>1, <4>2, TimeoutNamed
        <4>4. SnapshotTime(game', p, t) = IF p = loser THEN 0 ELSE SnapshotTime(game, p, t)
          BY <2>1, <3>1, <4>1, <4>2, EndsConserve DEF Reasons
        <4>. QED BY <2>4, <3>1, <3>3, <4>3, <4>4
      <3>5. CASE ~IsMeaningfullyStarted(Len(moves))
        <4>1. SnapshotTime(AbortGame(game, t), p, t) = SnapshotTime(game, p, t)
          BY <2>1, <3>1, EndsConserve
        <4>. QED BY <2>4, <3>1, <3>3, <3>5, <4>1 DEF ResolveGrace
      <3>. QED BY <3>4, <3>5
    <2>14. CASE Tick \/ \E q \in Players : Drop(q) \/ Connect(q)
      BY <2>5, <2>14 DEF Tick, Drop, Connect
    <2>. QED
      BY <2>6, <2>7, <2>8, <2>9, <2>11, <2>12, <2>13, <2>14 DEF Next
  <1>. QED BY <1>1, SpecIInv, PTL DEF Spec, TimeConserved
=============================================================================
