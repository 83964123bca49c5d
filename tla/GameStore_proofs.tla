-------------------------- MODULE GameStore_proofs --------------------------
(***************************************************************************)
(* What survives the races of GameStore, for any number of monitors, of    *)
(* sockets of a player and of handlers in flight: the types, and the bound *)
(* on the players' clocks.  And what holds when handlers run one at a      *)
(* time: the promises of Game, since the statements of a handler together  *)
(* are one operation of Game, which takes effect at the flush, or none.    *)
(***************************************************************************)
EXTENDS GameStore, GameRules_proofs, FiniteSetTheorems

\* The moves that the row held by h counts beyond those committed: its own, once
\* it has applied it.
Credit(label, j, h, p) ==
    IF label # "moves" /\ j.op = "move" /\ PlayerOf(h) = p THEN 1 ELSE 0

\* The row j held by h at label gives nobody more time than the committed moves
\* and that credit allow.
Within(ms, label, j, h) ==
    \A p \in Players :
        TimeOf(j.row, p)
            <= InitialTime + Increment * (MovesBy(ms, p) + Credit(label, j, h, p))

\* Only players move, and only the player to move has got past the turn check.
Disciplined(label, j, h) ==
    /\ j.op = "move" => h \in Commanders
    /\ label = "moves" /\ h \in Commanders => j.op = "move" /\ Turn(j.row) = PlayerOf(h)
    /\ label = "moves" /\ h \notin Commanders => j.op # "move" /\ j.row.status = "active"

StoreInv ==
    /\ TypeOK
    /\ ClockBound
    /\ \A h \in Handlers : Within(moves, pc[h], job[h], h) /\ Disciplined(pc[h], job[h], h)

\* Every socket is some player's, and the current one goes by the player's name.
LEMMA PlayerOfType ==
    /\ \A h \in Handlers : PlayerOf(h) \in Players
    /\ \A p \in Players : PlayerOf(p) = p /\ p \in Commanders
    /\ \A h \in Commanders : h \in Handlers /\ h \notin Monitors
    /\ \A m \in Monitors : m \in Handlers /\ m \notin Commanders /\ m \notin Players
  BY StoreAssumption DEF PlayerOf, Players, Commanders, Handlers

LEMMA ColumnsKnown ==
    Columns = {"status", "result", "termination_reason", "fen", "white_time_ms",
               "black_time_ms", "last_clock_started_at", "disconnected_player_id",
               "disconnect_grace_deadline_at", "rating_after"}
  BY DEF Columns, NoRow, NewGame

LEMMA NoJobType ==
    /\ NoRow \in Rows
    /\ NoJob \in Jobs
    /\ NoJob.op = "none"
    /\ \A p \in Players : TimeOf(NoJob.row, p) = InitialTime
  <1>1. NoRow \in Rows
    BY NewGameType DEF NoRow
  <1>2. NoJob \in Jobs /\ NoJob.op = "none" /\ NoJob.row = NoRow
    BY <1>1 DEF NoJob, Jobs, Ops
  <1>. QED
    BY <1>1, <1>2 DEF TimeOf, NoRow, NewGame

LEMMA HoldingType ==
    ASSUME NEW op \in Ops, NEW at \in Nat, NEW row \in Rows
    PROVE  /\ Holding(op, at, row) \in Jobs
           /\ Holding(op, at, row).op = op
           /\ Holding(op, at, row).row = row
           /\ Holding(op, at, row).at = at
  BY NoJobType DEF Holding, Jobs

\* A flush leaves each column as the entity or as the committed row had it.
LEMMA OverwriteType ==
    ASSUME NEW row \in Rows, NEW j \in Jobs
    PROVE  /\ Overwrite(row, j) \in Rows
           /\ Overwrite(row, j).white_time_ms \in {row.white_time_ms, j.row.white_time_ms}
           /\ Overwrite(row, j).black_time_ms \in {row.black_time_ms, j.row.black_time_ms}
  <1>. DEFINE o == Overwrite(row, j)
              e == j.row
              d == j.dirty
  <1>1. e \in Rows
    BY DEF Jobs
  <1>2. o = [c \in {"status", "result", "termination_reason", "fen", "white_time_ms",
                    "black_time_ms", "last_clock_started_at", "disconnected_player_id",
                    "disconnect_grace_deadline_at", "rating_after"} |->
                IF c \in d THEN e[c] ELSE row[c]]
    BY ColumnsKnown DEF Overwrite
  <1>. HIDE DEF o, e, d
  <1>3. o \in Rows
    BY <1>1, <1>2 DEF Rows
  <1>4. o.white_time_ms \in {row.white_time_ms, e.white_time_ms}
    BY <1>1, <1>2 DEF Rows
  <1>5. o.black_time_ms \in {row.black_time_ms, e.black_time_ms}
    BY <1>1, <1>2 DEF Rows
  <1>. QED BY <1>3, <1>4, <1>5 DEF o, e

\* Bounds are numbers, and grow with the moves they count.
LEMMA BoundGrows ==
    ASSUME NEW m \in Nat, NEW n \in Nat, m <= n, NEW x \in Nat,
           x <= InitialTime + Increment * m
    PROVE  x <= InitialTime + Increment * n
  <1>1. Increment * m <= Increment * n
    BY ClockAssumption
  <1>2. Increment * m \in Nat /\ Increment * n \in Nat
    BY ClockAssumption
  <1>. DEFINE a == Increment * m
              b == Increment * n
  <1>3. x <= InitialTime + a /\ a <= b /\ a \in Nat /\ b \in Nat
    BY <1>1, <1>2
  <1>4. x <= InitialTime + b
    <2>. HIDE DEF a, b
    <2>. QED BY <1>3, ClockAssumption
  <1>. QED BY <1>4

\* A handler that takes or changes what it holds, and commits nothing, keeps the
\* invariant if what it holds does.
LEMMA HoldKeeps ==
    ASSUME StoreInv, NEW h \in Handlers, NEW label \in Awaits, NEW j \in Jobs,
           Hold(h, label, j), Within(moves, label, j, h), Disciplined(label, j, h),
           UNCHANGED <<game, moves, ratings, now, stamp, sock, since>>,
           disturbances' \in Nat
    PROVE  StoreInv'
  <1>1. TypeOK'
    BY DEF StoreInv, TypeOK, Hold, Goto
  <1>2. ClockBound'
    BY DEF StoreInv, ClockBound
  <1>3. ASSUME NEW k \in Handlers
        PROVE  Within(moves', pc'[k], job'[k], k) /\ Disciplined(pc'[k], job'[k], k)
    <2>1. CASE k = h
      BY <2>1 DEF StoreInv, TypeOK, Hold, Goto
    <2>2. CASE k # h
      <3>1. pc'[k] = pc[k] /\ job'[k] = job[k]
        BY <2>2 DEF StoreInv, TypeOK, Hold, Goto
      <3>. QED BY <3>1 DEF StoreInv
    <2>. QED BY <2>1, <2>2
  <1>. QED BY <1>1, <1>2, <1>3 DEF StoreInv

LEMMA CountType ==
    ASSUME TypeOK, NEW p \in Players, NEW label, NEW j, NEW h
    PROVE  /\ MovesBy(moves, p) \in Nat
           /\ Credit(label, j, h, p) \in {0, 1}
           /\ MovesBy(moves, p) + Credit(label, j, h, p) \in Nat
  <1>1. MovesBy(moves, p) \in Nat
    <2>1. moves \in Seq(MoveRows) /\ p \in Players /\ 0 \in Nat
      BY DEF TypeOK
    <2>. QED BY <2>1, MovesByAppend
  <1>2. Credit(label, j, h, p) \in {0, 1}
    BY DEF Credit
  <1>. HIDE DEF Credit
  <1>. QED BY <1>1, <1>2

\* What gives nobody more time than the committed row, or than a new game, is
\* within the bound.
LEMMA DownWithin ==
    ASSUME TypeOK, ClockBound, NEW label, NEW j \in Jobs, NEW h,
           \A p \in Players : TimeOf(j.row, p) <= TimeOf(game, p)
    PROVE  Within(moves, label, j, h)
  <1>. SUFFICES ASSUME NEW p \in Players
                PROVE  TimeOf(j.row, p) <= InitialTime
                        + Increment * (MovesBy(moves, p) + Credit(label, j, h, p))
    BY DEF Within
  <1>. DEFINE m == MovesBy(moves, p)
              n == MovesBy(moves, p) + Credit(label, j, h, p)
              k == Increment * m
  <1>1. m \in Nat /\ n \in Nat /\ m <= n
    BY CountType
  <1>2. TimeOf(game, p) <= InitialTime + k
    BY DEF ClockBound
  <1>3. k \in Nat
    BY <1>1, ClockAssumption
  <1>4. TimeOf(j.row, p) \in Nat /\ TimeOf(game, p) \in Nat
    BY DEF TimeOf, TypeOK, Jobs, Rows
  <1>5. TimeOf(j.row, p) <= InitialTime + k
    <2>. HIDE DEF k
    <2>. QED BY <1>2, <1>3, <1>4, ClockAssumption
  <1>6. TimeOf(j.row, p) <= InitialTime + Increment * n
    <2>. HIDE DEF m, n
    <2>. QED BY <1>1, <1>4, <1>5, BoundGrows
  <1>. QED BY <1>6

LEMMA FreshWithin ==
    ASSUME TypeOK, NEW label, NEW j, NEW h,
           \A p \in Players : TimeOf(j.row, p) = InitialTime
    PROVE  Within(moves, label, j, h)
  <1>. SUFFICES ASSUME NEW p \in Players
                PROVE  InitialTime <= InitialTime
                        + Increment * (MovesBy(moves, p) + Credit(label, j, h, p))
    BY DEF Within
  <1>. DEFINE n == MovesBy(moves, p) + Credit(label, j, h, p)
  <1>1. n \in Nat
    BY CountType
  <1>2. InitialTime <= InitialTime + Increment * 0
    BY ClockAssumption
  <1>3. InitialTime <= InitialTime + Increment * n
    <2>. HIDE DEF n
    <2>. QED BY <1>1, <1>2, ClockAssumption, BoundGrows
  <1>. QED BY <1>3

LEMMA EndsDown ==
    ASSUME NEW g, NEW f, Ends(g, f)
    PROVE  \A p \in Players : TimeOf(f, p) <= TimeOf(g, p)
  BY DEF Ends, TimeOf

\* The operations that compute their entity from the committed row.
LEMMA StartKeeps ==
    ASSUME StoreInv, NEW h \in Handlers, NEW op \in Ops, NEW at \in Nat,
           NEW row \in Rows, NEW label \in Awaits,
           \A p \in Players : TimeOf(row, p) <= TimeOf(game, p),
           op = "move" => h \in Commanders,
           label = "moves" => \/ h \in Commanders /\ op = "move" /\ Turn(row) = PlayerOf(h)
                              \/ /\ h \notin Commanders /\ op # "move"
                                 /\ row.status = "active",
           Hold(h, label, Holding(op, at, row)),
           UNCHANGED <<game, moves, ratings, now, stamp, sock, since>>,
           disturbances' \in Nat
    PROVE  StoreInv'
  <1>. DEFINE j == Holding(op, at, row)
  <1>1. j \in Jobs /\ j.op = op /\ j.row = row
    BY HoldingType
  <1>2. Within(moves, label, j, h)
    <2>. HIDE DEF j
    <2>. QED BY <1>1, DownWithin DEF StoreInv
  <1>3. Disciplined(label, j, h)
    BY <1>1 DEF Disciplined
  <1>. QED
    BY <1>1, <1>2, <1>3, HoldKeeps

LEMMA ReturnKeeps ==
    ASSUME StoreInv, NEW h \in Handlers, Return(h),
           UNCHANGED <<game, moves, ratings, now, stamp, sock, since>>,
           disturbances' \in Nat
    PROVE  StoreInv'
  <1>1. Within(moves, "idle", NoJob, h)
    BY NoJobType, FreshWithin DEF StoreInv
  <1>2. Disciplined("idle", NoJob, h)
    BY NoJobType DEF Disciplined
  <1>. QED
    BY <1>1, <1>2, NoJobType, HoldKeeps DEF Return, Awaits

LEMMA CommandsKeep ==
    ASSUME StoreInv, NEW h \in Commanders,
           StartMove(h) \/ StartMoveOnFlaggedClock(h) \/ StartResign(h) \/ StartAgreeDraw(h)
    PROVE  StoreInv'
  <1>1. /\ h \in Handlers /\ PlayerOf(h) \in Players
        /\ game \in Rows /\ now \in Nat /\ Turn(game) \in Players
    BY TurnType, PlayerOfType DEF StoreInv, TypeOK
  <1>0. ReadForCommand(h) => disturbances' \in Nat
    BY DEF ReadForCommand, Disturb, StoreInv, TypeOK
  <1>2. CASE StartMove(h)
    <2>1. \A q \in Players : TimeOf(game, q) <= TimeOf(game, q)
      BY <1>1 DEF TimeOf, Rows
    <2>. QED
      BY <1>0, <1>1, <1>2, <2>1, StartKeeps DEF StartMove, ReadForCommand, committed, Ops, Awaits
  <1>3. CASE StartMoveOnFlaggedClock(h)
    <2>. DEFINE f == TimeoutGame(game, Turn(game), now, "clock_timeout")
    <2>1. f \in Rows /\ \A q \in Players : TimeOf(f, q) <= TimeOf(game, q)
      BY <1>1, TimeoutType, TimeoutEnds, EndsDown DEF Reasons
    <2>. QED
      BY <1>0, <1>1, <1>3, <2>1, StartKeeps
         DEF StartMoveOnFlaggedClock, ReadForCommand, committed, Ops, Awaits
  <1>4. CASE StartResign(h)
    <2>. DEFINE f == ResignGame(game, PlayerOf(h), now)
    <2>1. f \in Rows /\ \A q \in Players : TimeOf(f, q) <= TimeOf(game, q)
      BY <1>1, ResignType, ResignEnds, EndsDown
    <2>. QED
      BY <1>0, <1>1, <1>4, <2>1, StartKeeps DEF StartResign, ReadForCommand, committed, Ops, Awaits
  <1>5. CASE StartAgreeDraw(h)
    <2>. DEFINE f == AcceptDraw(game, now)
    <2>1. f \in Rows /\ \A q \in Players : TimeOf(f, q) <= TimeOf(game, q)
      BY <1>1, DrawType, DrawEnds, EndsDown
    <2>. QED
      BY <1>0, <1>1, <1>5, <2>1, StartKeeps DEF StartAgreeDraw, ReadForCommand, committed, Ops, Awaits
  <1>. QED BY <1>2, <1>3, <1>4, <1>5

LEMMA MarksKeep ==
    ASSUME StoreInv, NEW p \in Players,
           StartMarkDisconnected(p) \/ StartMarkReconnected(p)
    PROVE  StoreInv'
  <1>1. p \in Handlers /\ game \in Rows /\ now \in Nat
    BY PlayerOfType DEF StoreInv, TypeOK
  <1>0. disturbances' \in Nat
    BY DEF StartMarkDisconnected, StartMarkReconnected, StoreInv, TypeOK
  <1>2. CASE StartMarkDisconnected(p)
    <2>. DEFINE f == PauseForDisconnect(game, p, now)
    <2>1. f \in Rows
      BY <1>1, PauseType
    <2>2. f.white_time_ms <= game.white_time_ms /\ f.black_time_ms <= game.black_time_ms
      BY <1>1, PauseColumns
    <2>3. \A q \in Players : TimeOf(f, q) <= TimeOf(game, q)
      <3>. HIDE DEF f
      <3>. QED BY <2>2 DEF TimeOf
    <2>. QED
      BY <1>0, <1>1, <1>2, <2>1, <2>3, StartKeeps DEF StartMarkDisconnected, committed, Ops, Awaits
  <1>3. CASE StartMarkReconnected(p)
    <2>. DEFINE f == ResumeAfterReconnect(game, now)
    <2>1. f \in Rows /\ \A q \in Players : TimeOf(f, q) <= TimeOf(game, q)
      <3>1. f \in Rows
        BY <1>1, ResumeType
      <3>2. f.white_time_ms = game.white_time_ms /\ f.black_time_ms = game.black_time_ms
        BY <1>1, ResumeColumns
      <3>3. game.white_time_ms \in Nat /\ game.black_time_ms \in Nat
        BY <1>1 DEF Rows
      <3>. HIDE DEF f
      <3>. QED BY <3>1, <3>2, <3>3 DEF TimeOf
    <2>. QED
      BY <1>0, <1>1, <1>3, <2>1, StartKeeps DEF StartMarkReconnected, committed, Ops, Awaits
  <1>. QED BY <1>2, <1>3

\* Steps that leave every row, committed or held, as it was.
LEMMA QuietKeeps ==
    ASSUME StoreInv, TypeOK', UNCHANGED <<game, moves, pc, job>>
    PROVE  StoreInv'
  BY DEF StoreInv, ClockBound, Within, Disciplined

LEMMA SocketsKeep ==
    ASSUME StoreInv, NEW p \in Players,
           Tick \/ Drop(p) \/ Connect(p) \/ NothingToPause(p) \/ NothingToResume(p)
    PROVE  StoreInv'
  <1>1. TypeOK
    BY DEF StoreInv
  <1>2. CASE Tick
    <2>1. TypeOK'
      BY <1>1, <1>2 DEF Tick, TypeOK, committed
    <2>. QED BY <1>2, <2>1, QuietKeeps DEF Tick, committed
  <1>3. CASE Drop(p)
    <2>1. TypeOK'
      BY <1>1, <1>3 DEF Drop, Disturb, TypeOK, committed
    <2>. QED BY <1>3, <2>1, QuietKeeps DEF Drop, committed
  <1>4. CASE Connect(p)
    <2>1. TypeOK'
      BY <1>1, <1>4 DEF Connect, TypeOK, committed
    <2>. QED BY <1>4, <2>1, QuietKeeps DEF Connect, committed
  <1>5. CASE NothingToPause(p)
    <2>1. TypeOK'
      BY <1>1, <1>5 DEF NothingToPause, TypeOK, committed
    <2>. QED BY <1>5, <2>1, QuietKeeps DEF NothingToPause, committed
  <1>6. CASE NothingToResume(p)
    <2>1. TypeOK'
      BY <1>1, <1>6 DEF NothingToResume, TypeOK, committed
    <2>. QED BY <1>6, <2>1, QuietKeeps DEF NothingToResume, committed
  <1>. QED BY <1>2, <1>3, <1>4, <1>5, <1>6

\* A move pays its player one increment, which the move row it is about to
\* insert accounts for.
LEMMA ReadMovesKeeps ==
    ASSUME StoreInv, NEW h \in Commanders, ReadMoves(h)
    PROVE  StoreInv'
  <1>1. PICK outcome \in OutcomesAt(Len(moves) + 1) :
            Hold(h, "select", [job[h] EXCEPT
                !.count = Len(moves),
                !.row = ApplyPlayerMove(job[h].row, outcome, job[h].at)])
    BY DEF ReadMoves
  <1>. DEFINE g == job[h].row
              f == ApplyPlayerMove(g, outcome, job[h].at)
              j == [job[h] EXCEPT !.count = Len(moves), !.row = f]
  <1>2. h \in Handlers /\ job[h] \in Jobs /\ Len(moves) \in Nat
    BY PlayerOfType DEF StoreInv, TypeOK
  <1>3. g \in Rows /\ job[h].at \in Nat /\ outcome \in Outcomes
    BY <1>1, <1>2 DEF Jobs, OutcomesAt, Outcomes
  <1>4. f \in Rows /\ Moves(g, f, job[h].at)
    BY <1>3, MoveType, MoveMoves
  <1>5. pc[h] = "moves" /\ job[h].op = "move" /\ Turn(g) = PlayerOf(h)
    BY <1>2 DEF ReadMoves, StoreInv, Disciplined
  <1>6. j \in Jobs /\ j.op = "move" /\ j.row = f
    <2>. HIDE DEF f
    <2>. QED BY <1>2, <1>4, <1>5 DEF Jobs
  <1>7. Within(moves, "select", j, h)
    <2>. SUFFICES ASSUME NEW q \in Players
                  PROVE  TimeOf(f, q) <= InitialTime
                            + Increment * (MovesBy(moves, q) + Credit("select", j, h, q))
      BY <1>6 DEF Within
    <2>. DEFINE m == MovesBy(moves, q)
                c == IF PlayerOf(h) = q THEN 1 ELSE 0
    <2>1. m \in Nat /\ Credit("moves", job[h], h, q) = 0 /\ Credit("select", j, h, q) = c
      BY <1>6, CountType DEF Credit, StoreInv
    <2>2. TimeOf(g, q) <= InitialTime + Increment * m
      <3>1. Within(moves, "moves", job[h], h)
        BY <1>2, <1>5 DEF StoreInv
      <3>2. TimeOf(g, q) <= InitialTime + Increment * (m + 0)
        BY <2>1, <3>1 DEF Within
      <3>. HIDE DEF m
      <3>. QED BY <2>1, <3>2
    <2>3. TimeOf(f, q) <= TimeOf(g, q) + (IF PlayerOf(h) = q THEN Increment ELSE 0)
      <3>. HIDE DEF f, g
      <3>. QED BY <1>4, <1>5, PlayerOfType DEF Moves, TimeOf, Players
    <2>4. TimeOf(f, q) \in Nat /\ TimeOf(g, q) \in Nat
      <3>. HIDE DEF f, g
      <3>. QED BY <1>3, <1>4 DEF TimeOf, Rows
    <2>5. Increment * (m + c) = Increment * m + (IF PlayerOf(h) = q THEN Increment ELSE 0)
      <3>. HIDE DEF m
      <3>. QED BY <2>1, ClockAssumption
    <2>6. Increment * m \in Nat
      <3>. HIDE DEF m
      <3>. QED BY <2>1, ClockAssumption
    <2>7. TimeOf(f, q) <= InitialTime + Increment * (m + c)
      <3>. DEFINE a == Increment * m
                  b == Increment * (m + c)
                  x == TimeOf(f, q)
                  y == TimeOf(g, q)
      <3>1. /\ a \in Nat /\ b = a + (IF PlayerOf(h) = q THEN Increment ELSE 0)
            /\ x <= y + (IF PlayerOf(h) = q THEN Increment ELSE 0) /\ y <= InitialTime + a
            /\ x \in Nat /\ y \in Nat
        BY <2>2, <2>3, <2>4, <2>5, <2>6
      <3>. HIDE DEF a, b, x, y
      <3>2. x <= InitialTime + b
        BY <3>1, ClockAssumption
      <3>. QED BY <3>2 DEF b, x
    <2>. QED BY <2>1, <2>7
  <1>8. Disciplined("select", j, h)
    BY <1>6 DEF Disciplined
  <1>. HIDE DEF f
  <1>9. Hold(h, "select", j)
    BY <1>1 DEF f
  <1>. QED
    BY <1>2, <1>6, <1>7, <1>8, <1>9, HoldKeeps
       DEF ReadMoves, committed, Awaits, StoreInv, TypeOK

LEMMA MonitorKeeps ==
    ASSUME StoreInv, NEW m \in Monitors,
           StartMonitor(m) \/ ListActive(m) \/ CountMoves(m)
    PROVE  StoreInv'
  <1>1. m \in Handlers /\ m \notin Commanders
    BY PlayerOfType
  <1>0. disturbances' \in Nat
    BY DEF StartMonitor, ListActive, CountMoves, StoreInv, TypeOK
  <1>2. job[m] \in Jobs /\ game \in Rows /\ now \in Nat /\ Turn(game) \in Players
    BY <1>1, TurnType DEF StoreInv, TypeOK
  <1>3. job[m].at \in Nat /\ job[m].row \in Rows
    BY <1>2 DEF Jobs
  <1>4. CASE StartMonitor(m)
    <2>1. Hold(m, "list", Holding("none", now, NoRow))
      BY <1>4 DEF StartMonitor
    <2>. DEFINE j == Holding("none", now, NoRow)
    <2>2. j \in Jobs /\ j.op = "none" /\ j.row = NoRow
      <3>1. "none" \in Ops /\ NoRow \in Rows
        BY NoJobType DEF Ops
      <3>. QED BY <1>2, <3>1, HoldingType
    <2>3. \A p \in Players : TimeOf(NoRow, p) = InitialTime
      BY DEF TimeOf, NoRow, NewGame
    <2>4. Within(moves, "list", j, m) /\ Disciplined("list", j, m)
      <3>. HIDE DEF j
      <3>. QED BY <2>2, <2>3, FreshWithin DEF StoreInv, Disciplined
    <2>. QED
      BY <1>0, <1>1, <1>4, <2>1, <2>2, <2>4, HoldKeeps DEF StartMonitor, committed, Awaits
  <1>5. CASE ListActive(m)
    <2>. DEFINE at == job[m].at
                f == TimeoutGame(game, Turn(game), at, "clock_timeout")
    <2>1. CASE GraceHasExpired(game, at) /\ Hold(m, "moves", Holding("grace", at, game))
      <3>0. game.status = "active"
        BY <2>1 DEF GraceHasExpired
      <3>1. \A q \in Players : TimeOf(game, q) <= TimeOf(game, q)
        BY <1>2 DEF TimeOf, Rows
      <3>. QED
        BY <1>0, <1>1, <1>2, <1>3, <1>5, <2>1, <3>0, <3>1, StartKeeps
           DEF ListActive, committed, Ops, Awaits
    <2>2. CASE Hold(m, "select", Holding("timeout", at, f))
      <3>1. f \in Rows /\ \A q \in Players : TimeOf(f, q) <= TimeOf(game, q)
        BY <1>2, <1>3, TimeoutType, TimeoutEnds, EndsDown DEF Reasons
      <3>. HIDE DEF f
      <3>. QED
        BY <1>0, <1>1, <1>3, <1>5, <2>2, <3>1, StartKeeps DEF ListActive, committed, Ops, Awaits
    <2>3. CASE Return(m)
      BY <1>0, <1>1, <1>5, <2>3, ReturnKeeps DEF ListActive, committed
    <2>. QED BY <1>5, <2>1, <2>2, <2>3 DEF ListActive
  <1>6. CASE CountMoves(m)
    <2>. DEFINE g == job[m].row
                f == ResolveGrace(g, Len(moves), job[m].at)
                j == [job[m] EXCEPT !.row = f]
    <2>0. pc[m] = "moves"
      BY <1>6 DEF CountMoves
    <2>1. Hold(m, "select", j)
      BY <1>6 DEF CountMoves
    <2>2. g.status = "active" /\ job[m].op # "move"
      BY <1>1, <2>0 DEF StoreInv, Disciplined
    <2>3. f \in Rows /\ \A q \in Players : TimeOf(f, q) <= TimeOf(g, q)
      <3>1. Len(moves) \in Nat
        BY DEF StoreInv, TypeOK
      <3>. QED BY <1>3, <2>2, <3>1, GraceType, GraceEnds, EndsDown
    <2>4. j \in Jobs /\ j.op = job[m].op /\ j.row = f
      <3>. HIDE DEF f
      <3>. QED BY <1>2, <2>3 DEF Jobs
    <2>5. Within(moves, "select", j, m)
      <3>. SUFFICES ASSUME NEW q \in Players
                    PROVE  TimeOf(f, q) <= InitialTime
                              + Increment * (MovesBy(moves, q) + Credit("select", j, m, q))
        BY <2>4 DEF Within
      <3>. DEFINE n == MovesBy(moves, q) + Credit("select", j, m, q)
                  b == Increment * n
      <3>1. Credit("select", j, m, q) = Credit("moves", job[m], m, q)
        <4>. HIDE DEF j
        <4>. QED BY <2>2, <2>4 DEF Credit
      <3>2. TimeOf(g, q) <= InitialTime + b
        BY <1>1, <2>0, <3>1 DEF StoreInv, Within
      <3>3. n \in Nat
        BY CountType DEF StoreInv
      <3>4. b \in Nat
        <4>. HIDE DEF n
        <4>. QED BY <3>3, ClockAssumption
      <3>5. TimeOf(f, q) \in Nat /\ TimeOf(g, q) \in Nat
        <4>1. f \in Rows /\ g \in Rows
          BY <1>3, <2>3
        <4>. HIDE DEF f, g
        <4>. QED BY <4>1 DEF TimeOf, Rows
      <3>6. TimeOf(f, q) <= InitialTime + b
        <4>1. TimeOf(f, q) <= TimeOf(g, q)
          BY <2>3
        <4>. HIDE DEF f, g, b
        <4>. QED BY <3>2, <3>4, <3>5, <4>1, ClockAssumption
      <3>. QED BY <3>6
    <2>6. Disciplined("select", j, m)
      <3>. HIDE DEF j
      <3>. QED BY <2>2, <2>4 DEF Disciplined
    <2>. HIDE DEF j
    <2>. QED
      BY <1>0, <1>1, <1>6, <2>1, <2>4, <2>5, <2>6, HoldKeeps DEF CountMoves, committed, Awaits
  <1>. QED BY <1>4, <1>5, <1>6

LEMMA SelectKeeps ==
    ASSUME StoreInv, NEW h \in Handlers, Select(h)
    PROVE  StoreInv'
  <1>. DEFINE d == Dirty(job[h], game)
              j == [job[h] EXCEPT !.dirty = d]
  <1>1. job[h] \in Jobs /\ pc[h] = "select"
    BY DEF StoreInv, TypeOK, Select
  <1>2. d \in SUBSET Columns
    BY ColumnsKnown DEF Dirty, StampedColumns
  <1>. HIDE DEF d
  <1>3. j \in Jobs /\ j.op = job[h].op /\ j.row = job[h].row
    BY <1>1, <1>2 DEF Jobs
  <1>. HIDE DEF j
  <1>4. Within(moves, "flush", j, h)
    BY <1>1, <1>3 DEF StoreInv, Within, Credit
  <1>5. Disciplined("flush", j, h)
    BY <1>1, <1>3 DEF StoreInv, Disciplined
  <1>6. Hold(h, "flush", j)
    BY DEF Select, d, j
  <1>. QED
    BY <1>3, <1>4, <1>5, <1>6, HoldKeeps
       DEF Select, committed, Awaits, StoreInv, TypeOK

\* The commit of what a handler holds.  A move adds the row that the increment
\* it holds was for; everybody else's bound can only have grown.
LEMMA FlushKeeps ==
    ASSUME StoreInv, NEW h \in Handlers, Flush(h)
    PROVE  StoreInv'
  <1>. DEFINE j == job[h]
              row == [move_number |-> j.count + 1, user |-> PlayerOf(h)]
              label == AfterCommit(h)
  <1>1. TypeOK /\ j \in Jobs /\ pc[h] = "flush"
    BY DEF StoreInv, TypeOK, Flush
  <1>2. PlayerOf(h) \in Players
    BY PlayerOfType
  <1>3. game' = Overwrite(game, j)
    BY DEF Flush
  <1>4. /\ game' \in Rows
        /\ game'.white_time_ms \in {game.white_time_ms, j.row.white_time_ms}
        /\ game'.black_time_ms \in {game.black_time_ms, j.row.black_time_ms}
    BY <1>1, <1>3, OverwriteType DEF TypeOK
  <1>5. /\ moves' = IF j.op = "move" THEN Append(moves, row) ELSE moves
        /\ moves' \in Seq(MoveRows)
    <2>1. moves' = IF j.op = "move" THEN Append(moves, row) ELSE moves
      BY DEF Flush
    <2>2. j.op = "move" => row \in MoveRows
      BY <1>1, <1>2 DEF MoveRows, Jobs
    <2>. HIDE DEF row
    <2>. QED BY <1>1, <2>1, <2>2 DEF TypeOK
  <1>6. label \in Awaits
    BY DEF AfterCommit, Awaits
  <1>. HIDE DEF label
  <1>7. /\ pc' = [pc EXCEPT ![h] = label]
        /\ job' = [job EXCEPT ![h] = NoJob]
        /\ stamp' \in {stamp, j.at}
        /\ UNCHANGED <<ratings, now, since, disturbances>>
    BY DEF Flush, Hold, Goto, label
  <1>8. sock' \in [Players -> {"up", "dropped", "down", "joining"}]
    BY <1>1 DEF Flush, TypeOK
  <1>9. TypeOK'
    BY <1>1, <1>4, <1>5, <1>6, <1>7, <1>8, NoJobType DEF TypeOK, Jobs
  <1>10. ASSUME NEW p \in Players
         PROVE  /\ MovesBy(moves', p)
                      = MovesBy(moves, p) + (IF j.op = "move" /\ PlayerOf(h) = p THEN 1 ELSE 0)
                /\ MovesBy(moves, p) \in Nat /\ MovesBy(moves', p) \in Nat
    <2>0. moves \in Seq(MoveRows) /\ MovesBy(moves, p) \in Nat
      BY <1>1, CountType DEF TypeOK
    <2>1. CASE j.op = "move"
      <3>1. PlayerOf(h) \in Players /\ j.count + 1 \in Nat
        BY <1>1, <1>2, <2>1 DEF Jobs
      <3>2. MovesBy(Append(moves, row), p) = MovesBy(moves, p) + (IF PlayerOf(h) = p THEN 1 ELSE 0)
        BY <2>0, <3>1, MovesByAppend
      <3>. HIDE DEF row
      <3>. QED BY <1>5, <2>0, <2>1, <3>2
    <2>2. CASE j.op # "move"
      BY <1>5, <2>0, <2>2
    <2>. QED BY <2>1, <2>2
  <1>11. ASSUME NEW p \in Players
         PROVE  TimeOf(game', p) <= InitialTime + Increment * MovesBy(moves', p)
    <2>. DEFINE n == MovesBy(moves, p)
                m == MovesBy(moves', p)
                x == TimeOf(game, p)
                y == TimeOf(j.row, p)
    <2>1. n \in Nat /\ m \in Nat /\ n <= m
      BY <1>10
    <2>2. x <= InitialTime + Increment * n
      BY DEF StoreInv, ClockBound
    <2>3. y <= InitialTime + Increment * m
      <3>1. Within(moves, "flush", j, h)
        BY <1>1 DEF StoreInv
      <3>2. y <= InitialTime + Increment * (n + Credit("flush", j, h, p))
        BY <3>1 DEF Within
      <3>3. n + Credit("flush", j, h, p) = m
        BY <1>10 DEF Credit
      <3>. HIDE DEF n, m, y, j
      <3>. QED BY <3>2, <3>3
    <2>4. x \in Nat /\ y \in Nat
      BY <1>1 DEF TimeOf, TypeOK, Jobs, Rows
    <2>5. TimeOf(game', p) \in {x, y}
      BY <1>4 DEF TimeOf
    <2>6. x <= InitialTime + Increment * m
      <3>. HIDE DEF n, m, x
      <3>. QED BY <2>1, <2>2, <2>4, BoundGrows
    <2>. HIDE DEF m, x, y
    <2>7. TimeOf(game', p) <= InitialTime + Increment * m
      BY <2>3, <2>5, <2>6
    <2>. QED BY <2>7 DEF m
  <1>12. ClockBound'
    BY <1>11 DEF ClockBound
  <1>13. ASSUME NEW k \in Handlers
         PROVE  Within(moves', pc'[k], job'[k], k) /\ Disciplined(pc'[k], job'[k], k)
    <2>1. CASE k = h
      <3>1. job'[k] = NoJob /\ pc'[k] = label /\ label # "moves"
        BY <1>1, <1>7, <2>1 DEF TypeOK, label, AfterCommit
      <3>2. Disciplined(label, NoJob, k)
        BY <3>1, NoJobType DEF Disciplined
      <3>3. Within(moves', label, NoJob, k)
        <4>. SUFFICES ASSUME NEW p \in Players
                      PROVE  InitialTime <= InitialTime
                              + Increment * (MovesBy(moves', p) + Credit(label, NoJob, k, p))
          BY NoJobType DEF Within
        <4>1. MovesBy(moves', p) \in Nat /\ Credit(label, NoJob, k, p) = 0
          BY <1>10, NoJobType DEF Credit
        <4>. DEFINE n == MovesBy(moves', p) + Credit(label, NoJob, k, p)
        <4>2. n \in Nat
          BY <4>1
        <4>3. InitialTime <= InitialTime + Increment * n
          <5>. HIDE DEF n
          <5>. QED BY <4>2, ClockAssumption, BoundGrows
        <4>. QED BY <4>3
      <3>. QED BY <3>1, <3>2, <3>3
    <2>2. CASE k # h
      <3>1. pc'[k] = pc[k] /\ job'[k] = job[k]
        BY <1>1, <1>7, <2>2 DEF TypeOK
      <3>2. Within(moves, pc[k], job[k], k) /\ Disciplined(pc[k], job[k], k)
        BY DEF StoreInv
      <3>3. job[k] \in Jobs
        BY <1>1 DEF TypeOK
      <3>4. Within(moves', pc[k], job[k], k)
        <4>. SUFFICES ASSUME NEW p \in Players
                      PROVE  TimeOf(job[k].row, p) <= InitialTime
                              + Increment * (MovesBy(moves', p) + Credit(pc[k], job[k], k, p))
          BY DEF Within
        <4>. DEFINE c == Credit(pc[k], job[k], k, p)
                    n == MovesBy(moves, p) + c
                    m == MovesBy(moves', p) + c
                    x == TimeOf(job[k].row, p)
        <4>1. c \in {0, 1}
          BY DEF Credit
        <4>2. n \in Nat /\ m \in Nat /\ n <= m
          <5>. HIDE DEF c, j
          <5>. QED BY <1>10, <4>1
        <4>3. x \in Nat
          BY <3>3 DEF TimeOf, Jobs, Rows
        <4>4. x <= InitialTime + Increment * n
          BY <3>2 DEF Within
        <4>5. x <= InitialTime + Increment * m
          <5>. HIDE DEF n, m, x
          <5>. QED BY <4>2, <4>3, <4>4, BoundGrows
        <4>. QED BY <4>5
      <3>. QED BY <3>1, <3>2, <3>4
    <2>. QED BY <2>1, <2>2
  <1>. QED BY <1>9, <1>12, <1>13 DEF StoreInv

LEMMA RatingKeeps ==
    ASSUME StoreInv, NEW h \in Handlers,
           ReadForRating(h) \/ ReadUsers(h) \/ WriteRating(h)
    PROVE  StoreInv'
  <1>1. TypeOK /\ job[h] \in Jobs /\ game \in Rows
    BY DEF StoreInv, TypeOK
  <1>0. disturbances' \in Nat
    BY DEF ReadForRating, ReadUsers, WriteRating, StoreInv, TypeOK
  <1>2. CASE ReadForRating(h)
    <2>1. CASE Return(h)
      BY <1>0, <1>2, <2>1, ReturnKeeps DEF ReadForRating, committed
    <2>2. CASE Hold(h, "users", Holding("none", 0, game))
      <3>1. \A q \in Players : TimeOf(game, q) <= TimeOf(game, q)
        BY <1>1 DEF TimeOf, Rows
      <3>. QED
        BY <1>0, <1>1, <1>2, <2>2, <3>1, StartKeeps DEF ReadForRating, committed, Ops, Awaits
    <2>. QED BY <1>2, <2>1, <2>2 DEF ReadForRating
  <1>3. CASE ReadUsers(h)
    <2>. DEFINE j == [job[h] EXCEPT !.rates = ratings]
    <2>1. pc[h] = "users" /\ Hold(h, "rate_flush", j)
      BY <1>3 DEF ReadUsers
    <2>2. j \in Jobs /\ j.op = job[h].op /\ j.row = job[h].row
      BY <1>1 DEF Jobs, TypeOK
    <2>. HIDE DEF j
    <2>3. Within(moves, "rate_flush", j, h)
      BY <2>1, <2>2 DEF StoreInv, Within, Credit
    <2>4. Disciplined("rate_flush", j, h)
      BY <2>2 DEF StoreInv, Disciplined
    <2>. QED
      BY <1>0, <1>3, <2>1, <2>2, <2>3, <2>4, HoldKeeps DEF ReadUsers, committed, Awaits
  <1>4. CASE WriteRating(h)
    <2>1. /\ game' \in Rows
          /\ game'.white_time_ms = game.white_time_ms
          /\ game'.black_time_ms = game.black_time_ms
      BY <1>1, <1>4 DEF WriteRating, Rows
    <2>2. ratings' \in [Players -> Int]
      <3>1. job[h].rates \in [Players -> Int] /\ ratings \in [Players -> Int]
        BY <1>1 DEF Jobs, TypeOK
      <3>2. \A p \in Players : RatingChange(job[h].row.result, p) \in Int
        BY DEF RatingChange
      <3>. QED BY <1>4, <3>1, <3>2 DEF WriteRating
    <2>3. /\ pc' = [pc EXCEPT ![h] = "idle"]
          /\ job' = [job EXCEPT ![h] = NoJob]
          /\ UNCHANGED <<moves, now, stamp, sock, since, disturbances>>
      BY <1>4 DEF WriteRating, Return, Hold, Goto
    <2>4. TypeOK'
      BY <1>1, <2>1, <2>2, <2>3, NoJobType DEF TypeOK, Awaits
    <2>5. ClockBound'
      <3>1. \A p \in Players : TimeOf(game', p) = TimeOf(game, p)
        BY <2>1 DEF TimeOf
      <3>. QED BY <2>3, <3>1 DEF StoreInv, ClockBound
    <2>6. ASSUME NEW k \in Handlers
          PROVE  Within(moves', pc'[k], job'[k], k) /\ Disciplined(pc'[k], job'[k], k)
      <3>1. CASE k = h
        <4>1. job'[k] = NoJob /\ pc'[k] = "idle"
          BY <1>1, <2>3, <3>1 DEF TypeOK
        <4>2. Within(moves, "idle", NoJob, k) /\ Disciplined("idle", NoJob, k)
          BY <1>1, NoJobType, FreshWithin DEF Disciplined
        <4>. QED BY <2>3, <4>1, <4>2
      <3>2. CASE k # h
        <4>1. job'[k] = job[k] /\ pc'[k] = pc[k]
          BY <1>1, <2>3, <3>2 DEF TypeOK
        <4>. QED BY <2>3, <4>1 DEF StoreInv
      <3>. QED BY <3>1, <3>2
    <2>. QED BY <2>4, <2>5, <2>6 DEF StoreInv
  <1>. QED BY <1>2, <1>3, <1>4

LEMMA StoreInit == Init => StoreInv
  <1>. SUFFICES ASSUME Init PROVE StoreInv
    OBVIOUS
  <1>1. /\ game = NewGame(0) /\ moves = <<>> /\ ratings = [p \in Players |-> 0]
        /\ now = 0 /\ stamp = 0 /\ since = [p \in Players |-> 0] /\ disturbances = 0
        /\ sock \in [Players -> {"up", "down"}]
        /\ pc = [h \in Handlers |-> "idle"] /\ job = [h \in Handlers |-> NoJob]
    BY DEF Init, Promise!Init, Promise!NewGame, NewGame, Promise!Players, Players,
           Promise!NoOne, NoOne, Promise!NoTime, NoTime
  <1>2. TypeOK
    <2>1. game \in Rows
      BY <1>1, NewGameType
    <2>2. sock \in [Players -> {"up", "dropped", "down", "joining"}]
      BY <1>1
    <2>3. moves \in Seq(MoveRows)
      BY <1>1
    <2>. QED BY <1>1, <2>1, <2>2, <2>3, NoJobType DEF TypeOK, Awaits
  <1>3. ClockBound
    <2>1. \A p \in Players : TimeOf(game, p) = InitialTime /\ MovesBy(moves, p) \in Nat
      BY <1>1, <1>2, CountType DEF TimeOf, NewGame
    <2>2. ASSUME NEW p \in Players
          PROVE  InitialTime <= InitialTime + Increment * MovesBy(moves, p)
      <3>. DEFINE n == MovesBy(moves, p)
      <3>1. n \in Nat
        BY <2>1
      <3>. HIDE DEF n
      <3>2. InitialTime <= InitialTime + Increment * n
        BY <3>1, ClockAssumption, BoundGrows
      <3>. QED BY <3>2 DEF n
    <2>. QED BY <2>1, <2>2 DEF ClockBound
  <1>4. ASSUME NEW h \in Handlers
        PROVE  Within(moves, pc[h], job[h], h) /\ Disciplined(pc[h], job[h], h)
    <2>1. pc[h] = "idle" /\ job[h] = NoJob
      BY <1>1
    <2>2. Within(moves, "idle", NoJob, h) /\ Disciplined("idle", NoJob, h)
      BY <1>2, NoJobType, FreshWithin DEF Disciplined
    <2>. QED BY <2>1, <2>2
  <1>. QED BY <1>2, <1>3, <1>4 DEF StoreInv

LEMMA StoreStep == StoreInv /\ [Next]_vars => StoreInv'
  <1>. SUFFICES ASSUME StoreInv, [Next]_vars PROVE StoreInv'
    OBVIOUS
  <1>1. CASE Tick
    BY <1>1, SocketsKeep DEF Players
  <1>2. ASSUME NEW p \in Players,
               Drop(p) \/ Connect(p) \/ NothingToPause(p) \/ NothingToResume(p)
        PROVE  StoreInv'
    BY <1>2, SocketsKeep
  <1>3. ASSUME NEW p \in Players, StartMarkDisconnected(p) \/ StartMarkReconnected(p)
        PROVE  StoreInv'
    BY <1>3, MarksKeep
  <1>4. ASSUME NEW h \in Commanders,
               \/ StartMove(h) \/ StartMoveOnFlaggedClock(h) \/ StartResign(h)
               \/ StartAgreeDraw(h) \/ ReadMoves(h)
        PROVE  StoreInv'
    BY <1>4, CommandsKeep, ReadMovesKeeps
  <1>5. ASSUME NEW m \in Monitors, MonitorStep(m) PROVE StoreInv'
    BY <1>5, MonitorKeeps DEF MonitorStep
  <1>6. ASSUME NEW h \in Handlers, Continue(h) PROVE StoreInv'
    BY <1>6, SelectKeeps, FlushKeeps, RatingKeeps DEF Continue
  <1>7. CASE UNCHANGED vars
    <2>1. TypeOK'
      BY <1>7 DEF StoreInv, TypeOK, vars
    <2>. QED BY <1>7, <2>1, QuietKeeps DEF vars
  <1>. QED
    BY <1>1, <1>2, <1>3, <1>4, <1>5, <1>6, <1>7 DEF Next, PlayerStep

\* The inductive invariant holds in every reachable state: beside the types, every
\* row a handler or a monitor holds in memory, however stale, is one whose clocks
\* the rules may still be applied to.
THEOREM StoreInvariant == Spec => []StoreInv
  BY StoreInit, StoreStep, PTL DEF Spec

\* Every column, every row a handler holds and every rating stays in its type,
\* whatever the interleaving of handlers, monitors, drops and reconnections.
THEOREM StoreTypeCorrect == Spec => []TypeOK
  <1>1. StoreInv => TypeOK
    BY DEF StoreInv
  <1>. QED BY <1>1, StoreInvariant, PTL

\* No interleaving of the read-modify-write handlers gives a player more time
\* than the initial time and one increment per committed move: a handler that
\* overwrites the row with what it read earlier can take time back, never add it.
THEOREM StoreClocksBounded == Spec => []ClockBound
  <1>1. StoreInv => ClockBound
    BY DEF StoreInv
  <1>. QED BY <1>1, StoreInvariant, PTL

-----------------------------------------------------------------------------
(* One handler at a time. *)

\* The handler h may still do for its player what the player asked for.
Asks(h) == h \in Commanders /\ game.status = "active"

MayMove(h, at) ==
    /\ Asks(h)
    /\ ~ClockHasExpired(game, at)
    /\ Turn(game) = PlayerOf(h)
    /\ Len(moves) < MaxPlies

\* After its first statement the handler holds the present row, and the check it
\* has passed still passes.
Intends(h, j) ==
    /\ j.row = game
    /\ \/ j.op = "move" /\ MayMove(h, j.at)
       \/ j.op = "grace" /\ h \in Monitors /\ GraceHasExpired(game, j.at)

\* Before its flush the handler holds what its operation makes of the present row.
Computed(h, j) ==
    \/ /\ j.op = "move" /\ MayMove(h, j.at) /\ j.count = Len(moves)
       /\ \E outcome \in OutcomesAt(Len(moves) + 1) :
            j.row = ApplyPlayerMove(game, outcome, j.at)
    \/ /\ j.op = "timeout" /\ ClockHasExpired(game, j.at)
       /\ Asks(h) \/ h \in Monitors
       /\ j.row = TimeoutGame(game, Turn(game), j.at, "clock_timeout")
    \/ j.op = "resign" /\ Asks(h) /\ j.row = ResignGame(game, PlayerOf(h), j.at)
    \/ j.op = "draw" /\ Asks(h) /\ j.row = AcceptDraw(game, j.at)
    \/ /\ j.op = "disconnect" /\ h \in Players /\ sock[h] = "dropped"
       /\ since[h] <= j.at /\ game.status = "active"
       /\ j.row = PauseForDisconnect(game, h, j.at)
    \/ /\ j.op = "reconnect" /\ h \in Players /\ sock[h] = "joining"
       /\ game.status = "active" /\ game.disconnected_player_id = h
       /\ j.row = ResumeAfterReconnect(game, j.at)
    \/ /\ j.op = "grace" /\ h \in Monitors /\ GraceHasExpired(game, j.at)
       /\ j.row = ResolveGrace(game, Len(moves), j.at)

\* What a handler holds, at each of its awaits, is fresh.
Fresh(h, label, j) ==
    /\ label \in {"list", "moves", "select", "flush"} => j.at \in stamp..now
    /\ label = "moves" => Intends(h, j)
    /\ label \in {"select", "flush"} => Computed(h, j)
    /\ label = "flush" =>
            \A c \in Columns : c \notin j.dirty => j.row[c] = game[c]
    /\ label \in {"users", "rate_flush"} => RatingIsDue(game) /\ j.row = game
    /\ label = "rate_flush" => j.rates = ratings

OneAtATime == \A h, k \in Handlers : pc[h] # "idle" /\ pc[k] # "idle" => h = k
InOrder == stamp <= now /\ \A p \in Players : since[p] <= now

Serial == OneAtATime /\ InOrder /\ \A h \in Handlers : Fresh(h, pc[h], job[h])

\* A step of Game, or none.
Promised == [Promise!Next]_(Promise!vars)

-----------------------------------------------------------------------------
\* Game's own instance of the rules is the one the handlers use.
LEMMA SamePlayers == Promise!Players = Players /\ Promise!Outcomes = Outcomes
BY DEF Promise!Players, Players, Promise!Outcomes, Outcomes

LEMMA SameChecks ==
    ASSUME NEW g, NEW t
    PROVE  /\ Promise!ClockHasExpired(g, t) = ClockHasExpired(g, t)
           /\ Promise!GraceHasExpired(g, t) = GraceHasExpired(g, t)
           /\ Promise!Turn(g) = Turn(g)
           /\ Promise!RatingIsDue(g) = RatingIsDue(g)
           /\ \A n : Promise!OutcomesAt(n) = OutcomesAt(n)
BY DEF Promise!ClockHasExpired, ClockHasExpired, Promise!GraceHasExpired, GraceHasExpired,
       Promise!Turn, Turn, Promise!RatingIsDue, RatingIsDue,
       Promise!OutcomesAt, OutcomesAt, Promise!Outcomes, Outcomes,
       Promise!SnapshotTime, SnapshotTime, Promise!ClockIsRunning, ClockIsRunning,
       Promise!TimeOf, TimeOf, Promise!NoTime, NoTime

LEMMA SameOutcomes ==
    ASSUME NEW g, NEW p, NEW t, NEW r
    PROVE  /\ Promise!TimeoutGame(g, p, t, r) = TimeoutGame(g, p, t, r)
           /\ Promise!ResignGame(g, p, t) = ResignGame(g, p, t)
           /\ Promise!AcceptDraw(g, t) = AcceptDraw(g, t)
           /\ Promise!AbortGame(g, t) = AbortGame(g, t)
           /\ Promise!PauseForDisconnect(g, p, t) = PauseForDisconnect(g, p, t)
           /\ Promise!ResumeAfterReconnect(g, t) = ResumeAfterReconnect(g, t)
BY DEF Promise!TimeoutGame, TimeoutGame, Promise!ResignGame, ResignGame,
       Promise!AcceptDraw, AcceptDraw, Promise!AbortGame, AbortGame,
       Promise!PauseForDisconnect, PauseForDisconnect,
       Promise!ResumeAfterReconnect, ResumeAfterReconnect,
       Promise!FinishGame, FinishGame, Promise!ClearDisconnectState, ClearDisconnectState,
       Promise!WinFor, WinFor, Promise!Opponent, Opponent,
       Promise!WithSnapshot, WithSnapshot, Promise!SnapshotTime, SnapshotTime,
       Promise!ClockIsRunning, ClockIsRunning, Promise!Turn, Turn,
       Promise!TimeOf, TimeOf, Promise!NoTime, NoTime, Promise!NoOne, NoOne

LEMMA SameGrace ==
    ASSUME NEW g, NEW n, NEW t
    PROVE  Promise!ResolveGrace(g, n, t) = ResolveGrace(g, n, t)
<1>1. Promise!GraceLoser(g) = GraceLoser(g)
  BY DEF Promise!GraceLoser, GraceLoser, Promise!ActivePlayer, ActivePlayer,
         Promise!Turn, Turn, Promise!NoOne, NoOne
<1>2. Promise!IsMeaningfullyStarted(n) = IsMeaningfullyStarted(n)
  BY DEF Promise!IsMeaningfullyStarted, IsMeaningfullyStarted,
         Promise!MeaningfulStartMoveCount, MeaningfulStartMoveCount
<1> QED  BY <1>1, <1>2, SameOutcomes DEF Promise!ResolveGrace, ResolveGrace

LEMMA SameMove ==
    ASSUME NEW g, NEW outcome, NEW t
    PROVE  Promise!ApplyPlayerMove(g, outcome, t) = ApplyPlayerMove(g, outcome, t)
BY DEF Promise!ApplyPlayerMove, ApplyPlayerMove, Promise!ApplyBoardOutcome, ApplyBoardOutcome,
       Promise!FinishGame, FinishGame, Promise!ClearDisconnectState, ClearDisconnectState,
       Promise!WinFor, WinFor, Promise!WithSnapshot, WithSnapshot,
       Promise!SnapshotTime, SnapshotTime, Promise!ClockIsRunning, ClockIsRunning,
       Promise!Turn, Turn, Promise!TimeOf, TimeOf, Promise!NoTime, NoTime,
       Promise!NoOne, NoOne

LEMMA SameRating ==
    ASSUME NEW r, NEW p
    PROVE  Promise!RatingChange(r, p) = RatingChange(r, p)
BY DEF Promise!RatingChange, RatingChange, Promise!WinFor, WinFor,
       Promise!Opponent, Opponent

-----------------------------------------------------------------------------
Alone(h) == \A k \in Handlers : k # h => pc[k] = "idle"

LEMMA AloneWhenBusy ==
    ASSUME Serial, NEW h \in Handlers, pc[h] # "idle"
    PROVE  Alone(h)
BY DEF Serial, OneAtATime, Alone

LEMMA AloneAtStart ==
    ASSUME MaxInFlight <= 1, Serial, NEW h \in Handlers, Start(h)
    PROVE  Alone(h)
<1> DEFINE busy == {k \in Handlers : pc[k] # "idle"}
<1>1. SUFFICES ASSUME NEW k \in Handlers, pc[k] # "idle" PROVE FALSE  BY DEF Alone
<1>2. busy = {k}  BY <1>1 DEF Serial, OneAtATime
<1>3. Cardinality(busy) = 1  BY <1>2, FS_Singleton
<1>4. Cardinality(busy) < MaxInFlight  BY DEF Start
<1> HIDE DEF busy
<1> QED  BY <1>3, <1>4, StoreAssumption

\* A step that commits nothing and leaves h with a fresh job is no step of Game.
LEMMA QuietHold ==
    ASSUME TypeOK, Serial, NEW h \in Handlers, Alone(h), NEW label, NEW j,
           Hold(h, label, j), UNCHANGED <<committed, now, stamp, sock, since>>,
           Fresh(h, label, j)
    PROVE  Serial' /\ Promised
<1>1. pc'[h] = label /\ job'[h] = j  BY DEF Hold, Goto, TypeOK
<1>2. \A k \in Handlers : k # h => pc'[k] = "idle"  BY DEF Hold, Goto, TypeOK, Alone
<1>3. UNCHANGED <<game, moves, ratings, now, stamp, sock, since>>  BY DEF committed
<1>4. Fresh(h, label, j)'
  BY <1>3 DEF Fresh, Intends, Computed, MayMove, Asks
<1>5. \A k \in Handlers : Fresh(k, pc[k], job[k])'
  <2>1. ASSUME NEW k \in Handlers, k # h PROVE Fresh(k, pc[k], job[k])'
    BY <1>2, <2>1 DEF Fresh
  <2>2. Fresh(h, pc[h], job[h])'  BY <1>1, <1>4 DEF Fresh, Intends, Computed, MayMove, Asks
  <2> QED  BY <2>1, <2>2
<1>6. OneAtATime' /\ InOrder'  BY <1>2, <1>3 DEF OneAtATime, InOrder, Serial
<1>7. Promised  BY <1>3 DEF Promised, Promise!vars
<1> QED  BY <1>5, <1>6, <1>7 DEF Serial

LEMMA HoldingIs ==
    ASSUME NEW op, NEW at, NEW row
    PROVE  /\ Holding(op, at, row).op = op
           /\ Holding(op, at, row).at = at
           /\ Holding(op, at, row).row = row
BY DEF Holding, NoJob

\* The first statement of a handler.
LEMMA CommandsAreFresh ==
    ASSUME MaxInFlight <= 1, TypeOK, Serial, NEW h \in Commanders,
           \/ StartMove(h) \/ StartMoveOnFlaggedClock(h) \/ StartResign(h)
           \/ StartAgreeDraw(h)
    PROVE  Serial' /\ Promised
<1>1. h \in Handlers /\ now \in stamp..now
  BY PlayerOfType DEF Serial, InOrder, TypeOK
<1>2. ReadForCommand(h)
  BY DEF StartMove, StartMoveOnFlaggedClock, StartResign, StartAgreeDraw
<1>3. Asks(h) /\ Start(h) /\ UNCHANGED <<committed, now, stamp, sock, since>>
  BY <1>2 DEF ReadForCommand, Asks
<1>4. Alone(h)  BY <1>1, <1>3, AloneAtStart
<1>5. CASE StartMove(h)
  <2>1. Fresh(h, "moves", Holding("move", now, game))
    BY <1>1, <1>3, <1>5, HoldingIs DEF StartMove, Fresh, Intends, MayMove
  <2> QED  BY <1>1, <1>3, <1>4, <1>5, <2>1, QuietHold DEF StartMove
<1>6. CASE StartMoveOnFlaggedClock(h)
  <2> DEFINE j == Holding("timeout", now, TimeoutGame(game, Turn(game), now, "clock_timeout"))
  <2>1. Computed(h, j)
    BY <1>3, <1>6, HoldingIs DEF StartMoveOnFlaggedClock, Computed
  <2>2. Fresh(h, "select", j)  BY <1>1, <2>1, HoldingIs DEF Fresh
  <2> QED  BY <1>1, <1>3, <1>4, <1>6, <2>2, QuietHold DEF StartMoveOnFlaggedClock
<1>7. CASE StartResign(h)
  <2> DEFINE j == Holding("resign", now, ResignGame(game, PlayerOf(h), now))
  <2>1. Computed(h, j)  BY <1>3, HoldingIs DEF Computed
  <2>2. Fresh(h, "select", j)  BY <1>1, <2>1, HoldingIs DEF Fresh
  <2> QED  BY <1>1, <1>3, <1>4, <1>7, <2>2, QuietHold DEF StartResign
<1>8. CASE StartAgreeDraw(h)
  <2> DEFINE j == Holding("draw", now, AcceptDraw(game, now))
  <2>1. Computed(h, j)  BY <1>3, HoldingIs DEF Computed
  <2>2. Fresh(h, "select", j)  BY <1>1, <2>1, HoldingIs DEF Fresh
  <2> QED  BY <1>1, <1>3, <1>4, <1>8, <2>2, QuietHold DEF StartAgreeDraw
<1> QED  BY <1>5, <1>6, <1>7, <1>8

LEMMA MarksAreFresh ==
    ASSUME MaxInFlight <= 1, TypeOK, Serial, NEW p \in Players,
           StartMarkDisconnected(p) \/ StartMarkReconnected(p)
    PROVE  Serial' /\ Promised
<1>1. p \in Handlers /\ now \in stamp..now /\ since[p] <= now
  BY PlayerOfType DEF Serial, InOrder, TypeOK
<1>2. Alone(p) /\ UNCHANGED <<committed, now, stamp, sock, since>>
  <2>1. Start(p) /\ UNCHANGED <<committed, now, stamp, sock, since>>
    BY DEF StartMarkDisconnected, StartMarkReconnected
  <2> QED  BY <1>1, <2>1, AloneAtStart
<1>3. CASE StartMarkDisconnected(p)
  <2> DEFINE j == Holding("disconnect", now, PauseForDisconnect(game, p, now))
  <2>1. Computed(p, j)
    BY <1>1, <1>3, HoldingIs DEF StartMarkDisconnected, Computed
  <2>2. Fresh(p, "select", j)  BY <1>1, <2>1, HoldingIs DEF Fresh
  <2> QED  BY <1>1, <1>2, <1>3, <2>2, QuietHold DEF StartMarkDisconnected
<1>4. CASE StartMarkReconnected(p)
  <2> DEFINE j == Holding("reconnect", now, ResumeAfterReconnect(game, now))
  <2>1. Computed(p, j)  BY <1>4, HoldingIs DEF StartMarkReconnected, Computed
  <2>2. Fresh(p, "select", j)  BY <1>1, <2>1, HoldingIs DEF Fresh
  <2> QED  BY <1>1, <1>2, <1>4, <2>2, QuietHold DEF StartMarkReconnected
<1> QED  BY <1>3, <1>4

\* The reads in the middle of a handler find what its first statement found.
LEMMA ReadMovesIsFresh ==
    ASSUME TypeOK, Serial, NEW h \in Commanders, ReadMoves(h)
    PROVE  Serial' /\ Promised
<1>1. /\ h \in Handlers /\ h \notin Monitors /\ pc[h] = "moves"
      /\ UNCHANGED <<committed, now, stamp, sock, since>>
  BY PlayerOfType DEF ReadMoves
<1>2. Alone(h)  BY <1>1, AloneWhenBusy
<1>3. PICK outcome \in OutcomesAt(Len(moves) + 1) :
        Hold(h, "select", [job[h] EXCEPT
            !.count = Len(moves),
            !.row = ApplyPlayerMove(job[h].row, outcome, job[h].at)])
  BY DEF ReadMoves
<1> DEFINE j == [job[h] EXCEPT
                    !.count = Len(moves),
                    !.row = ApplyPlayerMove(job[h].row, outcome, job[h].at)]
<1>4. Fresh(h, "moves", job[h])  BY <1>1 DEF Serial
<1>5. /\ job[h].row = game /\ job[h].op = "move" /\ MayMove(h, job[h].at)
      /\ job[h].at \in stamp..now
  BY <1>1, <1>4 DEF Fresh, Intends
<1>6. /\ j.op = job[h].op /\ j.at = job[h].at /\ j.count = Len(moves)
      /\ j.row = ApplyPlayerMove(job[h].row, outcome, job[h].at)
  BY <1>1 DEF TypeOK, Jobs
<1> HIDE DEF j
<1>7. Fresh(h, "select", j)  BY <1>5, <1>6 DEF Fresh, Computed
<1> QED  BY <1>1, <1>2, <1>3, <1>7, QuietHold DEF j

LEMMA MonitorIsFresh ==
    ASSUME MaxInFlight <= 1, TypeOK, Serial, NEW m \in Monitors, MonitorStep(m)
    PROVE  Serial' /\ Promised
<1>1. m \in Handlers /\ m \notin Commanders /\ now \in stamp..now
  BY PlayerOfType DEF Serial, InOrder, TypeOK
<1>2. UNCHANGED <<committed, now, stamp, sock, since>>
  BY DEF MonitorStep, StartMonitor, ListActive, CountMoves
<1>3. CASE StartMonitor(m)
  <2>1. Alone(m)  BY <1>1, <1>3, AloneAtStart DEF StartMonitor
  <2>2. Fresh(m, "list", Holding("none", now, NoRow))  BY <1>1, HoldingIs DEF Fresh
  <2> QED  BY <1>1, <1>2, <1>3, <2>1, <2>2, QuietHold DEF StartMonitor
<1>4. CASE ListActive(m)
  <2> DEFINE at == job[m].at
  <2>1. pc[m] = "list" /\ Alone(m)  BY <1>1, <1>4, AloneWhenBusy DEF ListActive
  <2>2. at \in stamp..now  BY <1>1, <2>1 DEF Serial, Fresh
  <2>3. ASSUME GraceHasExpired(game, at), Hold(m, "moves", Holding("grace", at, game))
        PROVE  Serial' /\ Promised
    <3>1. Fresh(m, "moves", Holding("grace", at, game))
      BY <2>2, <2>3, HoldingIs DEF Fresh, Intends
    <3> QED  BY <1>1, <1>2, <2>1, <2>3, <3>1, QuietHold
  <2>4. ASSUME ClockHasExpired(game, at),
               Hold(m, "select",
                    Holding("timeout", at, TimeoutGame(game, Turn(game), at, "clock_timeout")))
        PROVE  Serial' /\ Promised
    <3> DEFINE j == Holding("timeout", at, TimeoutGame(game, Turn(game), at, "clock_timeout"))
    <3>1. Computed(m, j)  BY <2>4, HoldingIs DEF Computed
    <3>2. Fresh(m, "select", j)  BY <2>2, <3>1, HoldingIs DEF Fresh
    <3> QED  BY <1>1, <1>2, <2>1, <2>4, <3>2, QuietHold
  <2>5. ASSUME Return(m) PROVE Serial' /\ Promised
    <3>1. Fresh(m, "idle", NoJob)  BY DEF Fresh
    <3> QED  BY <1>1, <1>2, <2>1, <2>5, <3>1, QuietHold DEF Return
  <2> QED  BY <1>4, <2>3, <2>4, <2>5 DEF ListActive
<1>5. CASE CountMoves(m)
  <2> DEFINE j == [job[m] EXCEPT !.row = ResolveGrace(job[m].row, Len(moves), job[m].at)]
  <2>1. pc[m] = "moves" /\ Alone(m)  BY <1>1, <1>5, AloneWhenBusy DEF CountMoves
  <2>2. /\ job[m].row = game /\ job[m].op = "grace" /\ GraceHasExpired(game, job[m].at)
        /\ job[m].at \in stamp..now
    BY <1>1, <2>1 DEF Serial, Fresh, Intends, MayMove, Asks
  <2>3. /\ j.op = job[m].op /\ j.at = job[m].at
        /\ j.row = ResolveGrace(job[m].row, Len(moves), job[m].at)
    BY <1>1 DEF TypeOK, Jobs
  <2>4. Hold(m, "select", j)  BY <1>5 DEF CountMoves
  <2> HIDE DEF j
  <2>5. Fresh(m, "select", j)  BY <2>2, <2>3 DEF Fresh, Computed
  <2> QED  BY <1>1, <1>2, <2>1, <2>4, <2>5, QuietHold
<1> QED  BY <1>3, <1>4, <1>5 DEF MonitorStep

\* The second SELECT sees the row that the handler started from, so the columns
\* the flush leaves out are as they were.
LEMMA SelectIsFresh ==
    ASSUME TypeOK, Serial, NEW h \in Handlers, Select(h)
    PROVE  Serial' /\ Promised
<1> DEFINE j == [job[h] EXCEPT !.dirty = Dirty(job[h], game)]
<1>1. /\ pc[h] = "select" /\ Hold(h, "flush", j)
      /\ UNCHANGED <<committed, now, stamp, sock, since>>
  BY DEF Select
<1>2. Alone(h)  BY <1>1, AloneWhenBusy
<1>3. /\ j.op = job[h].op /\ j.at = job[h].at /\ j.row = job[h].row
      /\ j.count = job[h].count /\ j.dirty = Dirty(job[h], game)
  BY DEF TypeOK, Jobs
<1> HIDE DEF j
<1>4. Computed(h, job[h]) /\ job[h].at \in stamp..now  BY <1>1 DEF Serial, Fresh
<1>5. Computed(h, j)  BY <1>3, <1>4 DEF Computed
<1>6. \A c \in Columns : c \notin j.dirty => j.row[c] = game[c]  BY <1>3 DEF Dirty
<1>7. Fresh(h, "flush", j)  BY <1>3, <1>4, <1>5, <1>6 DEF Fresh
<1> QED  BY <1>1, <1>2, <1>7, QuietHold

LEMMA RatingReadsAreFresh ==
    ASSUME TypeOK, Serial, NEW h \in Handlers, ReadForRating(h) \/ ReadUsers(h)
    PROVE  Serial' /\ Promised
<1>1. UNCHANGED <<committed, now, stamp, sock, since>>
  BY DEF ReadForRating, ReadUsers
<1>2. Alone(h)  BY AloneWhenBusy DEF ReadForRating, ReadUsers
<1>3. CASE ReadForRating(h) /\ RatingIsDue(game)
  <2>1. Fresh(h, "users", Holding("none", 0, game))  BY <1>3, HoldingIs DEF Fresh
  <2> QED  BY <1>1, <1>2, <1>3, <2>1, QuietHold DEF ReadForRating
<1>4. CASE ReadForRating(h) /\ ~RatingIsDue(game)
  <2>1. Fresh(h, "idle", NoJob)  BY DEF Fresh
  <2> QED  BY <1>1, <1>2, <1>4, <2>1, QuietHold DEF ReadForRating, Return
<1>5. CASE ReadUsers(h)
  <2> DEFINE j == [job[h] EXCEPT !.rates = ratings]
  <2>1. j.row = job[h].row /\ j.rates = ratings  BY DEF TypeOK, Jobs
  <2>2. Hold(h, "rate_flush", j) /\ pc[h] = "users"  BY <1>5 DEF ReadUsers
  <2> HIDE DEF j
  <2>3. Fresh(h, "rate_flush", j)  BY <2>1, <2>2 DEF Serial, Fresh
  <2> QED  BY <1>1, <1>2, <2>2, <2>3, QuietHold
<1> QED  BY <1>3, <1>4, <1>5

-----------------------------------------------------------------------------
\* A step after which h holds nothing and nobody else is at work.
LEMMA OthersAreFresh ==
    ASSUME NEW h \in Handlers, InOrder',
           \A k \in Handlers : k # h => pc'[k] = "idle",
           pc'[h] \in {"idle", "rate"}
    PROVE  Serial'
<1>1. \A k \in Handlers : Fresh(k, pc[k], job[k])'  BY DEF Fresh
<1>2. OneAtATime'  BY DEF OneAtATime
<1> QED  BY <1>1, <1>2 DEF Serial

\* The flush of a fresh entity leaves the row as the entity has it.
LEMMA OverwriteIsRow ==
    ASSUME NEW g \in Rows, NEW j \in Jobs,
           \A c \in Columns : c \notin j.dirty => j.row[c] = g[c]
    PROVE  Overwrite(g, j) = j.row
<1> DEFINE e == j.row
           d == j.dirty
           o == Overwrite(g, j)
           cols == {"status", "result", "termination_reason", "fen", "white_time_ms",
                    "black_time_ms", "last_clock_started_at", "disconnected_player_id",
                    "disconnect_grace_deadline_at", "rating_after"}
<1>1. e \in Rows /\ Columns = cols  BY ColumnsKnown DEF Jobs
<1>2. \A c \in cols : c \notin d => e[c] = g[c]  BY <1>1
<1>3. o = [c \in cols |-> IF c \in d THEN e[c] ELSE g[c]]  BY <1>1 DEF Overwrite
<1> HIDE DEF e, d, o
<1>4. o = [c \in cols |-> e[c]]  BY <1>2, <1>3
<1> HIDE DEF cols
<1>5. e = [c \in cols |-> e[c]]  BY <1>1 DEF Rows, cols
<1> QED  BY <1>4, <1>5 DEF e, o

\* The flush is the operation of Game, at the instant the handler started.
LEMMA FlushIsTheOperation ==
    ASSUME TypeOK, Serial, NEW h \in Handlers, Flush(h)
    PROVE  Serial' /\ Promised
<1> DEFINE j == job[h]
           at == job[h].at
<1>1. pc[h] = "flush" /\ Alone(h)  BY AloneWhenBusy DEF Flush
<1>2. /\ Computed(h, j) /\ at \in stamp..now
      /\ \A c \in Columns : c \notin j.dirty => j.row[c] = game[c]
  BY <1>1 DEF Serial, Fresh
<1>3. game' = j.row
  <2>1. game \in Rows /\ j \in Jobs  BY DEF TypeOK
  <2>2. game' = Overwrite(game, j)  BY DEF Flush
  <2> QED  BY <1>2, <2>1, <2>2, OverwriteIsRow
<1>4. stamp' = at /\ UNCHANGED <<ratings, now, since>>
  BY <1>2 DEF Flush, TypeOK
<1>5. Serial'
  <2>1. pc'[h] \in {"idle", "rate"}
    BY DEF Flush, Hold, Goto, AfterCommit, TypeOK
  <2>2. \A k \in Handlers : k # h => pc'[k] = "idle"
    BY <1>1 DEF Flush, Hold, Goto, TypeOK, Alone
  <2>3. InOrder'  BY <1>2, <1>4 DEF InOrder, Serial, TypeOK
  <2> QED  BY <2>1, <2>2, <2>3, OthersAreFresh
<1>6. Promise!Stamped(at) /\ Promise!JudgedAt(at) /\ at \in 0..now
  BY <1>2, <1>4 DEF Promise!Stamped, Promise!JudgedAt, TypeOK
<1>7. /\ j.op = "move" =>
            moves' = Append(moves, [move_number |-> j.count + 1, user |-> PlayerOf(h)])
      /\ j.op # "move" => UNCHANGED moves
      /\ j.op = "disconnect" => sock' = [sock EXCEPT ![h] = "down"]
      /\ j.op = "reconnect" => sock' = [sock EXCEPT ![h] = "up"]
      /\ j.op \notin {"disconnect", "reconnect"} => UNCHANGED sock
  BY DEF Flush
<1>8. ASSUME Asks(h), j.op \notin {"disconnect", "reconnect"}
      PROVE  Promise!Command(PlayerOf(h), at)
  BY <1>4, <1>6, <1>7, <1>8 DEF Promise!Command, Asks
<1>16. PlayerOf(h) \in Promise!Players  BY PlayerOfType, SamePlayers
<1> HIDE DEF j, at
<1>9. CASE /\ j.op = "move" /\ MayMove(h, at) /\ j.count = Len(moves)
           /\ \E outcome \in OutcomesAt(Len(moves) + 1) :
                j.row = ApplyPlayerMove(game, outcome, at)
  <2>1. PICK outcome \in OutcomesAt(Len(moves) + 1) :
            j.row = ApplyPlayerMove(game, outcome, at)
    BY <1>9
  <2>2. Promise!MakeMove(PlayerOf(h), outcome, at)
    BY <1>3, <1>7, <1>8, <1>9, <2>1, SameChecks, SameMove DEF Promise!MakeMove, MayMove
  <2>3. outcome \in Promise!Outcomes
    BY <2>1, SamePlayers DEF OutcomesAt, Outcomes
  <2> QED  BY <1>2, <1>5, <1>16, <2>2, <2>3 DEF Promised, Promise!Next, at
<1>10. CASE /\ j.op = "timeout" /\ ClockHasExpired(game, at)
            /\ Asks(h) \/ h \in Monitors
            /\ j.row = TimeoutGame(game, Turn(game), at, "clock_timeout")
  <2>1. CASE Asks(h)
    <3>1. Promise!ExpireOnMove(PlayerOf(h), at)
      BY <1>3, <1>7, <1>8, <1>10, <2>1, SameChecks, SameOutcomes DEF Promise!ExpireOnMove
    <3> QED  BY <1>2, <1>5, <1>16, <3>1 DEF Promised, Promise!Next, at
  <2>2. CASE h \in Monitors
    <3>1. Promise!MonitorClock(at)
      BY <1>3, <1>4, <1>6, <1>7, <1>10, SameChecks, SameOutcomes DEF Promise!MonitorClock
    <3> QED  BY <1>5, <1>6, <3>1 DEF Promised, Promise!Next, at
  <2> QED  BY <1>10, <2>1, <2>2
<1>11. CASE j.op = "resign" /\ Asks(h) /\ j.row = ResignGame(game, PlayerOf(h), at)
  <2>1. Promise!Resign(PlayerOf(h), at)
    BY <1>3, <1>7, <1>8, <1>11, SameOutcomes DEF Promise!Resign
  <2> QED  BY <1>2, <1>5, <1>16, <2>1 DEF Promised, Promise!Next, at
<1>12. CASE j.op = "draw" /\ Asks(h) /\ j.row = AcceptDraw(game, at)
  <2>1. Promise!AgreeDraw(PlayerOf(h), at)
    BY <1>3, <1>7, <1>8, <1>12, SameOutcomes DEF Promise!AgreeDraw
  <2> QED  BY <1>2, <1>5, <1>16, <2>1 DEF Promised, Promise!Next, at
<1>13. CASE /\ j.op = "disconnect" /\ h \in Players /\ sock[h] = "dropped"
            /\ since[h] <= at /\ game.status = "active"
            /\ j.row = PauseForDisconnect(game, h, at)
  <2>1. at >= since[h]  BY <1>2, <1>13 DEF TypeOK, at
  <2>2. Promise!MarkDisconnected(h, at)
    BY <1>3, <1>4, <1>6, <1>7, <1>13, <2>1, SameOutcomes DEF Promise!MarkDisconnected
  <2>3. h \in Promise!Players  BY <1>13, SamePlayers
  <2> QED  BY <1>2, <1>5, <2>2, <2>3 DEF Promised, Promise!Next, at
<1>14. CASE /\ j.op = "reconnect" /\ h \in Players /\ sock[h] = "joining"
            /\ game.status = "active" /\ game.disconnected_player_id = h
            /\ j.row = ResumeAfterReconnect(game, at)
  <2>1. Promise!MarkReconnected(h, at)
    BY <1>3, <1>4, <1>6, <1>7, <1>14, SameOutcomes DEF Promise!MarkReconnected
  <2>2. h \in Promise!Players  BY <1>14, SamePlayers
  <2> QED  BY <1>2, <1>5, <2>1, <2>2 DEF Promised, Promise!Next, at
<1>15. CASE /\ j.op = "grace" /\ h \in Monitors /\ GraceHasExpired(game, at)
            /\ j.row = ResolveGrace(game, Len(moves), at)
  <2>1. Promise!MonitorGrace(at)
    BY <1>3, <1>4, <1>6, <1>7, <1>15, SameChecks, SameGrace DEF Promise!MonitorGrace
  <2> QED  BY <1>5, <1>6, <2>1 DEF Promised, Promise!Next, at
<1> QED
  BY <1>2, <1>9, <1>10, <1>11, <1>12, <1>13, <1>14, <1>15 DEF Computed, j, at

\* The users read are the users written over: the rating is applied once.
LEMMA WriteRatingIsApplyRating ==
    ASSUME TypeOK, Serial, NEW h \in Handlers, WriteRating(h)
    PROVE  Serial' /\ Promised
<1>1. pc[h] = "rate_flush" /\ Alone(h)  BY AloneWhenBusy DEF WriteRating
<1>2. RatingIsDue(game) /\ job[h].row = game /\ job[h].rates = ratings
  BY <1>1 DEF Serial, Fresh
<1>3. Serial'
  <2>1. pc'[h] = "idle" /\ \A k \in Handlers : k # h => pc'[k] = "idle"
    BY <1>1 DEF WriteRating, Return, Hold, Goto, TypeOK, Alone
  <2>2. InOrder'  BY DEF WriteRating, InOrder, Serial
  <2> QED  BY <2>1, <2>2, OthersAreFresh
<1>4. ratings' = [p \in Players |-> ratings[p] + RatingChange(game.result, p)]
  <2>1. ratings' = [p \in Players |->
            IF RatingChange(game.result, p) = 0 THEN ratings[p]
            ELSE ratings[p] + RatingChange(game.result, p)]
    BY <1>2 DEF WriteRating
  <2>2. \A p \in Players : ratings[p] \in Int  BY DEF TypeOK
  <2> QED  BY <2>1, <2>2
<1>5. Promise!ApplyRating
  BY <1>2, <1>4, SameChecks, SameRating, SamePlayers DEF Promise!ApplyRating, WriteRating
<1> QED  BY <1>3, <1>5 DEF Promised, Promise!Next

-----------------------------------------------------------------------------
\* Time, drops and connections go on while a handler is at work; the current
\* socket's handler is done before the drop of it is seen.
LEMMA TickKeepsFresh ==
    ASSUME TypeOK, Serial, Tick
    PROVE  Serial' /\ Promised
<1>1. now \in Nat /\ now' = now + 1 /\ stamp \in Nat /\ since \in [Players -> Nat]
  BY DEF TypeOK, Tick
<1>2. UNCHANGED <<game, moves, ratings, stamp, sock, since, pc, job>>
  BY DEF Tick, committed
<1>3. InOrder' /\ OneAtATime'  BY <1>1, <1>2 DEF InOrder, OneAtATime, Serial
<1>4. ASSUME NEW h \in Handlers PROVE Fresh(h, pc[h], job[h])'
  <2>1. Fresh(h, pc[h], job[h])  BY DEF Serial
  <2>2. job[h].at \in stamp..now => job[h].at \in stamp'..now'  BY <1>1, <1>2
  <2> QED  BY <1>2, <2>1, <2>2 DEF Fresh, Intends, Computed, MayMove, Asks
<1>5. Promise!Tick  BY <1>2 DEF Tick, Promise!Tick
<1> QED  BY <1>3, <1>4, <1>5 DEF Serial, Promised, Promise!Next

LEMMA SocketKeepsFresh ==
    ASSUME TypeOK, Serial, NEW p \in Players, Drop(p) \/ Connect(p)
    PROVE  Serial' /\ Promised
<1>1. UNCHANGED <<game, moves, ratings, now, stamp, pc, job>>
  BY DEF Drop, Connect, committed
<1>2. p \in Promise!Players  BY SamePlayers
<1>3. Promised
  <2>1. Drop(p) => Promise!Drop(p)  BY <1>1 DEF Drop, Promise!Drop
  <2>2. Connect(p) => Promise!Connect(p)  BY <1>1 DEF Connect, Promise!Connect
  <2> QED  BY <1>2, <2>1, <2>2 DEF Promised, Promise!Next
<1>4. InOrder' /\ OneAtATime'
  <2>1. \A q \in Players : since'[q] \in {since[q], now}  BY DEF Drop, Connect, TypeOK
  <2>2. now \in Nat /\ InOrder /\ OneAtATime  BY DEF Serial, TypeOK
  <2>3. \A q \in Players : since'[q] <= now  BY <2>1, <2>2 DEF InOrder
  <2>4. InOrder'  BY <1>1, <2>2, <2>3 DEF InOrder
  <2>5. OneAtATime'  BY <1>1, <2>2 DEF OneAtATime
  <2> QED  BY <2>4, <2>5
<1>5. ASSUME NEW h \in Handlers PROVE Fresh(h, pc[h], job[h])'
  <2>1. Fresh(h, pc[h], job[h])  BY DEF Serial
  <2>2. CASE pc[h] = "idle"  BY <1>1, <2>2 DEF Fresh
  <2>3. CASE pc[h] # "idle" /\ h \in Players
    <3>1. CASE h = p
      <4>1. Connect(p) /\ sock[h] = "down"  BY <2>3, <3>1 DEF Drop, Connect
      <4>2. UNCHANGED since  BY <4>1 DEF Connect
      <4> QED  BY <1>1, <2>1, <4>1, <4>2 DEF Fresh, Intends, Computed, MayMove, Asks
    <3>2. CASE h # p
      <4>1. sock'[h] = sock[h] /\ since'[h] = since[h]
        BY <2>3, <3>2 DEF Drop, Connect, TypeOK
      <4> QED  BY <1>1, <2>1, <4>1 DEF Fresh, Intends, Computed, MayMove, Asks
    <3> QED  BY <3>1, <3>2
  <2>4. CASE h \notin Players
    BY <1>1, <2>1, <2>4 DEF Fresh, Intends, Computed, MayMove, Asks
  <2> QED  BY <2>2, <2>3, <2>4
<1> QED  BY <1>3, <1>4, <1>5 DEF Serial

LEMMA NothingToDoIsTheOperation ==
    ASSUME MaxInFlight <= 1, TypeOK, Serial, NEW p \in Players,
           NothingToPause(p) \/ NothingToResume(p)
    PROVE  Serial' /\ Promised
<1>1. /\ p \in Handlers /\ Start(p) /\ stamp' = now
      /\ UNCHANGED <<game, moves, ratings, now, since, pc, job>>
  BY PlayerOfType DEF NothingToPause, NothingToResume, committed
<1>2. Alone(p)  BY <1>1, AloneAtStart
<1>3. now \in stamp..now /\ now >= since[p]  BY DEF Serial, InOrder, TypeOK
<1>4. Serial'
  <2>1. InOrder'  BY <1>1 DEF InOrder, Serial, TypeOK
  <2>2. pc'[p] = "idle"  BY <1>1 DEF Start
  <2> QED  BY <1>1, <1>2, <2>1, <2>2, OthersAreFresh DEF Alone
<1>5. Promise!Stamped(now)  BY <1>1, <1>3 DEF Promise!Stamped
<1>6. NothingToPause(p) => Promise!MarkDisconnected(p, now)
  BY <1>1, <1>3, <1>5 DEF NothingToPause, Promise!MarkDisconnected
<1>7. NothingToResume(p) => Promise!MarkReconnected(p, now)
  BY <1>1, <1>5 DEF NothingToResume, Promise!MarkReconnected
<1> QED  BY <1>3, <1>4, <1>6, <1>7, SamePlayers DEF Promised, Promise!Next

-----------------------------------------------------------------------------
LEMMA InitSerial == Init => Serial
<1> SUFFICES ASSUME Init PROVE Serial  OBVIOUS
<1>1. pc = [h \in Handlers |-> "idle"]  BY DEF Init
<1>2. stamp = 0 /\ now = 0 /\ since = [p \in Players |-> 0]
  BY SamePlayers DEF Init, Promise!Init
<1>3. \A h \in Handlers : Fresh(h, pc[h], job[h])  BY <1>1 DEF Fresh
<1> QED  BY <1>1, <1>2, <1>3 DEF Serial, OneAtATime, InOrder

LEMMA StepIsPromised ==
    ASSUME MaxInFlight <= 1
    PROVE  StoreInv /\ Serial /\ [Next]_vars => Serial' /\ Promised
<1> SUFFICES ASSUME StoreInv, Serial, [Next]_vars PROVE Serial' /\ Promised  OBVIOUS
<1>1. TypeOK  BY DEF StoreInv
<1>2. CASE Tick  BY <1>1, <1>2, TickKeepsFresh
<1>3. ASSUME NEW p \in Players, Drop(p) \/ Connect(p) PROVE Serial' /\ Promised
  BY <1>1, <1>3, SocketKeepsFresh
<1>4. ASSUME NEW p \in Players, StartMarkDisconnected(p) \/ StartMarkReconnected(p)
      PROVE  Serial' /\ Promised
  BY <1>1, <1>4, MarksAreFresh
<1>5. ASSUME NEW p \in Players, NothingToPause(p) \/ NothingToResume(p)
      PROVE  Serial' /\ Promised
  BY <1>1, <1>5, NothingToDoIsTheOperation
<1>6. ASSUME NEW h \in Commanders,
             \/ StartMove(h) \/ StartMoveOnFlaggedClock(h) \/ StartResign(h)
             \/ StartAgreeDraw(h) \/ ReadMoves(h)
      PROVE  Serial' /\ Promised
  BY <1>1, <1>6, CommandsAreFresh, ReadMovesIsFresh
<1>7. ASSUME NEW m \in Monitors, MonitorStep(m) PROVE Serial' /\ Promised
  BY <1>1, <1>7, MonitorIsFresh
<1>8. ASSUME NEW h \in Handlers, Continue(h) PROVE Serial' /\ Promised
  BY <1>1, <1>8, SelectIsFresh, FlushIsTheOperation, RatingReadsAreFresh,
     WriteRatingIsApplyRating DEF Continue
<1>9. CASE UNCHANGED vars
  <2>1. UNCHANGED <<game, moves, ratings, now, stamp, sock, since, pc, job>>
    BY <1>9 DEF vars
  <2>2. Serial'
    BY <2>1 DEF Serial, OneAtATime, InOrder, Fresh, Intends, Computed, MayMove, Asks
  <2> QED  BY <2>1, <2>2 DEF Promised, Promise!vars
<1> QED
  BY <1>2, <1>3, <1>4, <1>5, <1>6, <1>7, <1>8, <1>9 DEF Next, PlayerStep

\* A game whose handlers run one at a time is a game of Game: with at most one
\* handler in flight, every behaviour of the statements is one of the operations,
\* for any number of monitors, any time control and any bounds.
THEOREM SerialKeepsPromise == MaxInFlight <= 1 => (Spec => KeepsPromise)
<1> SUFFICES ASSUME MaxInFlight <= 1 PROVE Spec => KeepsPromise  OBVIOUS
<1>1. Init => Promise!Init  BY DEF Init
<1>2. StoreInv /\ Serial /\ [Next]_vars => Serial' /\ [Promise!Next]_(Promise!vars)
  BY StepIsPromised DEF Promised
<1> QED
  BY <1>1, <1>2, InitSerial, StoreInvariant, PTL DEF Spec, KeepsPromise, Promise!Spec
=============================================================================
