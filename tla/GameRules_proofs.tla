-------------------------- MODULE GameRules_proofs --------------------------
(***************************************************************************)
(* What the rules of a game row keep and bound, for every time control.    *)
(***************************************************************************)
EXTENDS GameRules, Sequences, FiniteSetTheorems, TLAPS

\* Each rule yields a row: in particular no clock goes below zero.
LEMMA SnapshotType ==
    ASSUME NEW g \in Rows, NEW p \in Players, NEW now \in Nat
    PROVE  /\ SnapshotTime(g, p, now) \in Nat
           /\ SnapshotTime(g, p, now) <= TimeOf(g, p)
  BY SMT DEF SnapshotTime, TimeOf, ClockIsRunning, Rows, NoTime, Players

LEMMA WithSnapshotType ==
    ASSUME NEW g \in Rows, NEW now \in Nat
    PROVE  WithSnapshot(g, now) \in Rows
  <1>1. /\ SnapshotTime(g, "white", now) \in Nat
        /\ SnapshotTime(g, "black", now) \in Nat
    BY SnapshotType DEF Players
  <1>. QED
    BY <1>1 DEF WithSnapshot, Rows

LEMMA NewGameType ==
    ASSUME NEW now \in Nat
    PROVE  NewGame(now) \in Rows
  BY ClockAssumption DEF NewGame, Rows, Statuses, Results, Reasons, Players, NoOne, NoTime

LEMMA ClearType ==
    ASSUME NEW g \in Rows
    PROVE  ClearDisconnectState(g) \in Rows
  BY DEF ClearDisconnectState, Rows

LEMMA FinishType ==
    ASSUME NEW g \in Rows, NEW status \in Statuses, NEW result \in Results,
           NEW reason \in Reasons
    PROVE  FinishGame(g, status, result, reason) \in Rows
  BY DEF FinishGame, ClearDisconnectState, Rows, NoOne, NoTime

LEMMA WinForType ==
    ASSUME NEW p \in Players
    PROVE  /\ WinFor(p) \in Results /\ WinFor(p) # "none"
           /\ Opponent(p) \in Players /\ Opponent(p) # p
  BY DEF WinFor, Results, Players, Opponent

LEMMA ResignType ==
    ASSUME NEW g \in Rows, NEW p \in Players, NEW now \in Nat
    PROVE  ResignGame(g, p, now) \in Rows
  BY WithSnapshotType, WinForType, FinishType
     DEF ResignGame, Statuses, FinishedStatuses, Reasons

LEMMA DrawType ==
    ASSUME NEW g \in Rows, NEW now \in Nat
    PROVE  AcceptDraw(g, now) \in Rows
  BY WithSnapshotType, FinishType
     DEF AcceptDraw, Statuses, FinishedStatuses, Reasons, Results

LEMMA TimeoutType ==
    ASSUME NEW g \in Rows, NEW p \in Players, NEW now \in Nat, NEW reason \in Reasons
    PROVE  TimeoutGame(g, p, now, reason) \in Rows
  <1>. DEFINE s == WithSnapshot(g, now)
  <1>1. /\ [s EXCEPT !.white_time_ms = 0] \in Rows
        /\ [s EXCEPT !.black_time_ms = 0] \in Rows
    BY WithSnapshotType DEF Rows
  <1>. QED
    BY <1>1, WinForType, FinishType DEF TimeoutGame, Statuses, FinishedStatuses

LEMMA AbortType ==
    ASSUME NEW g \in Rows, NEW now \in Nat
    PROVE  AbortGame(g, now) \in Rows
  BY WithSnapshotType, FinishType
     DEF AbortGame, Statuses, FinishedStatuses, Reasons, Results

LEMMA PauseType ==
    ASSUME NEW g \in Rows, NEW p \in Players, NEW now \in Nat
    PROVE  PauseForDisconnect(g, p, now) \in Rows
  <1>. DEFINE s == WithSnapshot(g, now)
              deadline == now + GraceTime
  <1>1. s \in Rows /\ deadline \in Nat
    BY WithSnapshotType, ClockAssumption
  <1>2. [s EXCEPT !.last_clock_started_at = NoTime,
                  !.disconnected_player_id = p,
                  !.disconnect_grace_deadline_at = deadline] \in Rows
    <2>. HIDE DEF s, deadline
    <2>. QED BY <1>1 DEF Rows
  <1>. QED
    BY <1>2 DEF PauseForDisconnect

LEMMA ResumeType ==
    ASSUME NEW g \in Rows, NEW now \in Nat
    PROVE  ResumeAfterReconnect(g, now) \in Rows
  BY DEF ResumeAfterReconnect, ClearDisconnectState, Rows, NoOne, NoTime

LEMMA TurnType ==
    ASSUME NEW g \in Rows
    PROVE  Turn(g) \in Players
  BY DEF Turn, Players

LEMMA MoveType ==
    ASSUME NEW g \in Rows, NEW outcome \in Outcomes, NEW now \in Nat
    PROVE  ApplyPlayerMove(g, outcome, now) \in Rows
  <1>. DEFINE s == WithSnapshot(g, now)
              paid == IF Turn(g) = "white" THEN [s EXCEPT !.white_time_ms = @ + Increment]
                                           ELSE [s EXCEPT !.black_time_ms = @ + Increment]
              moved == [ClearDisconnectState(paid) EXCEPT !.fen = @ + 1]
  <1>1. s \in Rows
    BY WithSnapshotType
  <1>2. paid \in Rows
    BY <1>1, ClockAssumption DEF Rows
  <1>3. moved \in Rows
    <2>1. ClearDisconnectState(paid) \in Rows
      BY <1>2, ClearType
    <2>. HIDE DEF paid
    <2>. QED BY <2>1 DEF Rows
  <1>4. ApplyBoardOutcome(moved, Turn(g), outcome, now) \in Rows
    <2>. HIDE DEF moved
    <2>1. CASE outcome = "none"
      BY <1>3, <2>1 DEF ApplyBoardOutcome, Rows
    <2>2. CASE outcome # "none"
      BY <1>3, <2>2, TurnType, WinForType, FinishType
         DEF ApplyBoardOutcome, Outcomes, Statuses, FinishedStatuses, Reasons, Results
    <2>. QED BY <2>1, <2>2
  <1>. QED
    BY <1>4 DEF ApplyPlayerMove

LEMMA GraceType ==
    ASSUME NEW g \in Rows, NEW count \in Nat, NEW now \in Nat, g.status = "active"
    PROVE  ResolveGrace(g, count, now) \in Rows
  <1>1. GraceLoser(g) \in Players
    BY TurnType DEF GraceLoser, ActivePlayer, Rows
  <1>. QED
    BY <1>1, TimeoutType, AbortType DEF ResolveGrace, Reasons

-----------------------------------------------------------------------------
\* f is what an operation that ends g leaves: it waits for nobody, runs no
\* clock, has a result unless aborted, and neither the position, the rating
\* columns nor a clock (except downwards) has changed.
Ends(g, f) ==
    /\ f.status \in FinishedStatuses
    /\ f.last_clock_started_at = NoTime
    /\ f.disconnected_player_id = NoOne
    /\ f.disconnect_grace_deadline_at = NoTime
    /\ (f.result = "none") <=> (f.status = "aborted")
    /\ f.fen = g.fen
    /\ f.rating_after = g.rating_after
    /\ f.white_time_ms <= g.white_time_ms
    /\ f.black_time_ms <= g.black_time_ms

LEMMA SnapshotColumns ==
    ASSUME NEW g \in Rows, NEW now \in Nat
    PROVE  LET s == WithSnapshot(g, now)
           IN  /\ s.fen = g.fen
               /\ s.status = g.status
               /\ s.result = g.result
               /\ s.termination_reason = g.termination_reason
               /\ s.last_clock_started_at = g.last_clock_started_at
               /\ s.disconnected_player_id = g.disconnected_player_id
               /\ s.disconnect_grace_deadline_at = g.disconnect_grace_deadline_at
               /\ s.rating_after = g.rating_after
               /\ s.white_time_ms <= g.white_time_ms
               /\ s.black_time_ms <= g.black_time_ms
  <1>1. /\ SnapshotTime(g, "white", now) <= g.white_time_ms
        /\ SnapshotTime(g, "black", now) <= g.black_time_ms
    BY SnapshotType DEF Players, TimeOf
  <1>. QED
    BY <1>1 DEF WithSnapshot, Rows

\* FinishGame ends a row whose clocks were taken down from g's.
LEMMA FinishEnds ==
    ASSUME NEW g \in Rows, NEW s \in Rows,
           s.fen = g.fen, s.rating_after = g.rating_after,
           s.white_time_ms <= g.white_time_ms, s.black_time_ms <= g.black_time_ms,
           NEW status \in FinishedStatuses, NEW result \in Results,
           NEW reason \in Reasons, (result = "none") <=> (status = "aborted")
    PROVE  Ends(g, FinishGame(s, status, result, reason))
  BY DEF Ends, FinishGame, ClearDisconnectState, Rows

LEMMA ResignEnds ==
    ASSUME NEW g \in Rows, NEW p \in Players, NEW now \in Nat
    PROVE  Ends(g, ResignGame(g, p, now))
  BY WithSnapshotType, SnapshotColumns, WinForType, FinishEnds
     DEF ResignGame, FinishedStatuses, Reasons

LEMMA DrawEnds ==
    ASSUME NEW g \in Rows, NEW now \in Nat
    PROVE  Ends(g, AcceptDraw(g, now))
  BY WithSnapshotType, SnapshotColumns, FinishEnds
     DEF AcceptDraw, FinishedStatuses, Reasons, Results

LEMMA AbortEnds ==
    ASSUME NEW g \in Rows, NEW now \in Nat
    PROVE  Ends(g, AbortGame(g, now))
  BY WithSnapshotType, SnapshotColumns, FinishEnds
     DEF AbortGame, FinishedStatuses, Reasons, Results

LEMMA TimeoutEnds ==
    ASSUME NEW g \in Rows, NEW p \in Players, NEW now \in Nat, NEW reason \in Reasons
    PROVE  Ends(g, TimeoutGame(g, p, now, reason))
  <1>. DEFINE s == WithSnapshot(g, now)
              flagged == IF p = "white" THEN [s EXCEPT !.white_time_ms = 0]
                                        ELSE [s EXCEPT !.black_time_ms = 0]
  <1>1. s \in Rows
    BY WithSnapshotType
  <1>2. /\ flagged \in Rows
        /\ flagged.fen = s.fen
        /\ flagged.rating_after = s.rating_after
        /\ flagged.white_time_ms <= s.white_time_ms
        /\ flagged.black_time_ms <= s.black_time_ms
    <2>. HIDE DEF s
    <2>. QED BY <1>1 DEF Rows
  <1>3. /\ s.fen = g.fen
        /\ s.rating_after = g.rating_after
        /\ s.white_time_ms <= g.white_time_ms
        /\ s.black_time_ms <= g.black_time_ms
    BY SnapshotColumns
  <1>4. /\ flagged.white_time_ms <= g.white_time_ms
        /\ flagged.black_time_ms <= g.black_time_ms
    <2>. HIDE DEF s, flagged
    <2>. QED BY <1>1, <1>2, <1>3 DEF Rows
  <1>5. /\ WinFor(Opponent(p)) \in Results
        /\ WinFor(Opponent(p)) # "none"
    BY WinForType
  <1>6. Ends(g, FinishGame(flagged, "timeout", WinFor(Opponent(p)), reason))
    <2>. HIDE DEF s, flagged
    <2>. QED BY <1>2, <1>3, <1>4, <1>5, FinishEnds DEF FinishedStatuses
  <1>. QED
    BY <1>6 DEF TimeoutGame

LEMMA GraceEnds ==
    ASSUME NEW g \in Rows, NEW count \in Nat, NEW now \in Nat, g.status = "active"
    PROVE  Ends(g, ResolveGrace(g, count, now))
  <1>1. GraceLoser(g) \in Players
    BY TurnType DEF GraceLoser, ActivePlayer, Rows
  <1>. QED
    BY <1>1, TimeoutEnds, AbortEnds DEF ResolveGrace, Reasons

\* A move advances the position by one half-move, clears the disconnect state,
\* adds the increment to the mover only, and either leaves the game active with
\* the clock restarted or ends it with a result.
Moves(g, m, now) ==
    /\ m.fen = g.fen + 1
    /\ m.rating_after = g.rating_after
    /\ m.disconnected_player_id = NoOne
    /\ m.disconnect_grace_deadline_at = NoTime
    /\ m.white_time_ms <= g.white_time_ms + (IF Turn(g) = "white" THEN Increment ELSE 0)
    /\ m.black_time_ms <= g.black_time_ms + (IF Turn(g) = "black" THEN Increment ELSE 0)
    /\ \/ /\ m.status = g.status
          /\ m.result = g.result
          /\ m.termination_reason = g.termination_reason
          /\ m.last_clock_started_at = now
       \/ /\ m.status \in FinishedStatuses \ {"aborted", "timeout"}
          /\ m.result # "none"
          /\ m.termination_reason # "disconnect_timeout"
          /\ m.last_clock_started_at = NoTime

LEMMA MoveMoves ==
    ASSUME NEW g \in Rows, NEW outcome \in Outcomes, NEW now \in Nat
    PROVE  Moves(g, ApplyPlayerMove(g, outcome, now), now)
  <1>. DEFINE s == WithSnapshot(g, now)
              paid == IF Turn(g) = "white" THEN [s EXCEPT !.white_time_ms = @ + Increment]
                                           ELSE [s EXCEPT !.black_time_ms = @ + Increment]
              moved == [ClearDisconnectState(paid) EXCEPT !.fen = @ + 1]
              wplus == IF Turn(g) = "white" THEN Increment ELSE 0
              bplus == IF Turn(g) = "black" THEN Increment ELSE 0
              final == ApplyBoardOutcome(moved, Turn(g), outcome, now)
  <1>1. s \in Rows
    BY WithSnapshotType
  <1>2. /\ paid \in Rows
        /\ paid.fen = s.fen
        /\ paid.status = s.status
        /\ paid.result = s.result
        /\ paid.termination_reason = s.termination_reason
        /\ paid.rating_after = s.rating_after
        /\ paid.white_time_ms = s.white_time_ms + wplus
        /\ paid.black_time_ms = s.black_time_ms + bplus
    <2>. HIDE DEF s
    <2>. QED BY <1>1, TurnType, ClockAssumption DEF Rows, Players
  <1>3. /\ paid.fen = g.fen
        /\ paid.status = g.status
        /\ paid.result = g.result
        /\ paid.termination_reason = g.termination_reason
        /\ paid.rating_after = g.rating_after
        /\ paid.white_time_ms <= g.white_time_ms + wplus
        /\ paid.black_time_ms <= g.black_time_ms + bplus
    <2>1. /\ s.white_time_ms <= g.white_time_ms
          /\ s.black_time_ms <= g.black_time_ms
          /\ s.fen = g.fen
          /\ s.status = g.status
          /\ s.result = g.result
          /\ s.termination_reason = g.termination_reason
          /\ s.rating_after = g.rating_after
      BY SnapshotColumns
    <2>2. wplus \in Nat /\ bplus \in Nat
      BY ClockAssumption
    <2>. HIDE DEF s, paid, wplus, bplus
    <2>. QED BY <1>1, <1>2, <2>1, <2>2 DEF Rows
  <1>4. /\ moved \in Rows
        /\ moved.fen = g.fen + 1
        /\ moved.status = g.status
        /\ moved.result = g.result
        /\ moved.termination_reason = g.termination_reason
        /\ moved.rating_after = g.rating_after
        /\ moved.disconnected_player_id = NoOne
        /\ moved.disconnect_grace_deadline_at = NoTime
        /\ moved.white_time_ms <= g.white_time_ms + wplus
        /\ moved.black_time_ms <= g.black_time_ms + bplus
    <2>. DEFINE c == ClearDisconnectState(paid)
    <2>1. /\ c \in Rows
          /\ c = [paid EXCEPT !.disconnected_player_id = NoOne,
                             !.disconnect_grace_deadline_at = NoTime]
      BY <1>2, ClearType DEF ClearDisconnectState
    <2>2. /\ c.fen = g.fen
          /\ c.status = g.status
          /\ c.result = g.result
          /\ c.termination_reason = g.termination_reason
          /\ c.rating_after = g.rating_after
          /\ c.disconnected_player_id = NoOne
          /\ c.disconnect_grace_deadline_at = NoTime
          /\ c.white_time_ms <= g.white_time_ms + wplus
          /\ c.black_time_ms <= g.black_time_ms + bplus
      <3>. HIDE DEF s, paid, wplus, bplus, c
      <3>. QED BY <1>2, <1>3, <2>1 DEF Rows
    <2>3. moved = [c EXCEPT !.fen = @ + 1]
      OBVIOUS
    <2>. HIDE DEF s, paid, wplus, bplus, c, moved
    <2>4. c \in Rows
      BY <2>1
    <2>5. moved \in Rows
      BY <2>4, <2>3 DEF Rows
    <2>6. /\ moved.fen = c.fen + 1
          /\ moved.status = c.status
          /\ moved.result = c.result
          /\ moved.termination_reason = c.termination_reason
          /\ moved.rating_after = c.rating_after
          /\ moved.disconnected_player_id = c.disconnected_player_id
          /\ moved.disconnect_grace_deadline_at = c.disconnect_grace_deadline_at
          /\ moved.white_time_ms = c.white_time_ms
          /\ moved.black_time_ms = c.black_time_ms
      BY <2>4, <2>3 DEF Rows
    <2>. QED BY <2>2, <2>5, <2>6
  <1>5. /\ final.fen = moved.fen
        /\ final.rating_after = moved.rating_after
        /\ final.disconnected_player_id = NoOne
        /\ final.disconnect_grace_deadline_at = NoTime
        /\ final.white_time_ms = moved.white_time_ms
        /\ final.black_time_ms = moved.black_time_ms
        /\ \/ /\ final.status = moved.status
              /\ final.result = moved.result
              /\ final.termination_reason = moved.termination_reason
              /\ final.last_clock_started_at = now
           \/ /\ final.status \in FinishedStatuses \ {"aborted", "timeout"}
              /\ final.result # "none"
              /\ final.termination_reason # "disconnect_timeout"
              /\ final.last_clock_started_at = NoTime
    <2>. HIDE DEF moved
    <2>1. CASE outcome = "none"
      BY <1>4, <2>1 DEF ApplyBoardOutcome, Rows
    <2>2. CASE outcome # "none"
      <3>1. WinFor(Turn(g)) # "none"
        BY TurnType, WinForType
      <3>2. ASSUME NEW st, NEW re, NEW rs
            PROVE  LET f == FinishGame(moved, st, re, rs)
                   IN  /\ f.status = st
                       /\ f.result = re
                       /\ f.termination_reason = rs
                       /\ f.fen = moved.fen
                       /\ f.rating_after = moved.rating_after
                       /\ f.disconnected_player_id = NoOne
                       /\ f.disconnect_grace_deadline_at = NoTime
                       /\ f.last_clock_started_at = NoTime
                       /\ f.white_time_ms = moved.white_time_ms
                       /\ f.black_time_ms = moved.black_time_ms
        BY <1>4 DEF FinishGame, ClearDisconnectState, Rows
      <3>. QED
        BY <2>2, <3>1, <3>2 DEF ApplyBoardOutcome, Outcomes, FinishedStatuses
    <2>. QED BY <2>1, <2>2
  <1>6. final = ApplyPlayerMove(g, outcome, now)
    BY DEF ApplyPlayerMove
  <1>. HIDE DEF final, moved
  <1>. QED
    BY <1>4, <1>5, <1>6 DEF Moves

\* A pause stops the clock and opens a window for p; nothing else moves.
LEMMA PauseColumns ==
    ASSUME NEW g \in Rows, NEW p \in Players, NEW now \in Nat
    PROVE  LET f == PauseForDisconnect(g, p, now)
           IN  /\ f.fen = g.fen
               /\ f.status = g.status
               /\ f.result = g.result
               /\ f.termination_reason = g.termination_reason
               /\ f.rating_after = g.rating_after
               /\ f.last_clock_started_at = NoTime
               /\ f.disconnected_player_id = p
               /\ f.disconnect_grace_deadline_at = now + GraceTime
               /\ f.white_time_ms <= g.white_time_ms
               /\ f.black_time_ms <= g.black_time_ms
  <1>. DEFINE s == WithSnapshot(g, now)
              f == PauseForDisconnect(g, p, now)
  <1>1. s \in Rows
    BY WithSnapshotType
  <1>2. /\ s.fen = g.fen
        /\ s.status = g.status
        /\ s.result = g.result
        /\ s.termination_reason = g.termination_reason
        /\ s.rating_after = g.rating_after
        /\ s.white_time_ms <= g.white_time_ms
        /\ s.black_time_ms <= g.black_time_ms
    BY SnapshotColumns
  <1>3. f = [s EXCEPT !.last_clock_started_at = NoTime,
                      !.disconnected_player_id = p,
                      !.disconnect_grace_deadline_at = now + GraceTime]
    BY DEF PauseForDisconnect
  <1>4. /\ f.fen = s.fen
        /\ f.status = s.status
        /\ f.result = s.result
        /\ f.termination_reason = s.termination_reason
        /\ f.rating_after = s.rating_after
        /\ f.last_clock_started_at = NoTime
        /\ f.disconnected_player_id = p
        /\ f.disconnect_grace_deadline_at = now + GraceTime
        /\ f.white_time_ms = s.white_time_ms
        /\ f.black_time_ms = s.black_time_ms
    <2>. HIDE DEF s, f
    <2>. QED BY <1>1, <1>3 DEF Rows
  <1>. HIDE DEF s
  <1>. QED BY <1>2, <1>4

\* A resumption closes the window and restarts the clock; nothing else moves.
LEMMA ResumeColumns ==
    ASSUME NEW g \in Rows, NEW now \in Nat
    PROVE  LET f == ResumeAfterReconnect(g, now)
           IN  /\ f.fen = g.fen
               /\ f.status = g.status
               /\ f.result = g.result
               /\ f.termination_reason = g.termination_reason
               /\ f.rating_after = g.rating_after
               /\ f.last_clock_started_at = now
               /\ f.disconnected_player_id = NoOne
               /\ f.disconnect_grace_deadline_at = NoTime
               /\ f.white_time_ms = g.white_time_ms
               /\ f.black_time_ms = g.black_time_ms
  BY DEF ResumeAfterReconnect, ClearDisconnectState, Rows

-----------------------------------------------------------------------------
\* A move adds one to the moves of its player and nothing to the opponent's.
LEMMA MovesByAppend ==
    ASSUME NEW ms \in Seq(MoveRows), NEW p \in Players,
           NEW u \in Players, NEW n \in Nat
    PROVE  /\ MovesBy(ms, p) \in Nat
           /\ MovesBy(Append(ms, [move_number |-> n, user |-> u]), p)
                = MovesBy(ms, p) + (IF u = p THEN 1 ELSE 0)
  <1>. DEFINE row == [move_number |-> n, user |-> u]
              new == Append(ms, row)
              S == {i \in DOMAIN ms : ms[i].user = p}
              T == {i \in DOMAIN new : new[i].user = p}
  <1>1. IsFiniteSet(S) /\ Cardinality(S) \in Nat
    <2>1. IsFiniteSet(1..Len(ms))
      BY FS_Interval
    <2>2. S \subseteq 1..Len(ms)
      OBVIOUS
    <2>. QED BY <2>1, <2>2, FS_Subset, FS_CardinalityType
  <1>2. /\ Len(ms) \in Nat
        /\ row \in MoveRows
        /\ DOMAIN ms = 1..Len(ms)
        /\ DOMAIN new = 1..(Len(ms) + 1)
        /\ new[Len(ms) + 1] = row
        /\ \A i \in 1..Len(ms) : new[i] = ms[i]
    BY DEF MoveRows
  <1>3. /\ MovesBy(ms, p) = Cardinality(S)
        /\ MovesBy(Append(ms, [move_number |-> n, user |-> u]), p) = Cardinality(T)
    BY DEF MovesBy
  <1>4. CASE u = p
    <2>1. T = S \cup {Len(ms) + 1} /\ Len(ms) + 1 \notin S
      BY <1>2, <1>4
    <2>. HIDE DEF S, T
    <2>. QED
      BY <1>1, <1>3, <1>4, <2>1, FS_AddElement
  <1>5. CASE u # p
    <2>1. T = S
      BY <1>2, <1>5
    <2>. HIDE DEF S, T
    <2>. QED
      BY <1>1, <1>3, <1>5, <2>1
  <1>. QED
    BY <1>4, <1>5
=============================================================================
