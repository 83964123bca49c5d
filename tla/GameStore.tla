----------------------------- MODULE GameStore -----------------------------
(***************************************************************************)
(* The operations of Game as the handlers run them: asyncio tasks, each    *)
(* with its own database session, that give up control at every await.     *)
(*                                                                         *)
(* A handler reads the row (no lock is taken), computes the new row in     *)
(* memory, and then SqlAlchemyGameRepository.update SELECTs the row again, *)
(* assigns every column of its entity and flushes.  The flush writes the   *)
(* columns in which the entity differs from that second SELECT, onto       *)
(* whatever is committed by then (READ COMMITTED: an UPDATE waits for the  *)
(* row lock of another transaction and then applies to its outcome).       *)
(* Nothing read is visible before the commit and the row lock is held      *)
(* until it, so the flush and the commit are one step.                     *)
(*                                                                         *)
(* A player has a current socket, whose coming and going is recorded, and  *)
(* may have others: one that was replaced while an event of it was being   *)
(* handled (nothing cancels the handler), or one that another instance     *)
(* goes on serving.  Each socket's events are handled one by one, those of *)
(* two sockets side by side.  How the end of an old socket is taken is     *)
(* modelled in Connections.                                                *)
(***************************************************************************)
EXTENDS GameRules, Sequences, FiniteSets

CONSTANTS
    WhiteElsewhere, \* the handlers of each player's sockets beside the current one
    BlackElsewhere,
    Monitors,       \* the processes running run_game_monitor with the lock held
    MaxInFlight,    \* handlers of this game running at once (the code has no bound)
    MaxNow,         \* bounds on the wall clock, on the moves played and on the
    MaxPlies,       \* drops of current sockets and events of the others together
    MaxDisturbances

ASSUME StoreAssumption ==
    /\ MaxInFlight \in Nat
    /\ MaxNow \in Nat
    /\ MaxPlies \in Nat
    /\ MaxDisturbances \in Nat
    /\ WhiteElsewhere \cap Players = {} /\ BlackElsewhere \cap Players = {}
    /\ WhiteElsewhere \cap BlackElsewhere = {}
    /\ Monitors \cap (Players \cup WhiteElsewhere \cup BlackElsewhere) = {}

VARIABLES
    game, moves, ratings, now, stamp, sock, since,  \* as in Game: what is committed
    pc,         \* the await each handler is suspended at
    job,        \* what each handler holds in memory
    disturbances    \* how many drops, and events of other sockets, there were

committed == <<game, moves, ratings>>
vars == <<game, moves, ratings, now, stamp, sock, since, pc, job, disturbances>>

\* The handler of a player's current socket goes by the player's name.
Commanders == Players \cup WhiteElsewhere \cup BlackElsewhere
Handlers == Commanders \cup Monitors

PlayerOf(h) == IF h = "white" \/ h \in WhiteElsewhere THEN "white" ELSE "black"

\* What a handler computed or read.  at: its utc_now().  row: its entity.
\* dirty: the columns its flush will write.  count: len(get_moves()).  rates:
\* the two players' ratings.
NoRow == NewGame(0)
NoJob == [op |-> "none", at |-> 0, row |-> NoRow, dirty |-> {}, count |-> 0,
          rates |-> [p \in Players |-> 0]]

Ops == {"none", "move", "resign", "draw", "disconnect", "reconnect", "timeout",
        "grace"}
Awaits == {"idle", "list", "moves", "select", "flush", "rate", "users",
           "rate_flush"}
Columns == DOMAIN NoRow

Promise == INSTANCE Game

Init ==
    /\ Promise!Init
    /\ pc = [h \in Handlers |-> "idle"]
    /\ job = [h \in Handlers |-> NoJob]
    /\ disturbances = 0

-----------------------------------------------------------------------------
Goto(h, label) == pc' = [pc EXCEPT ![h] = label]

\* The handler h starts or goes on holding j.
Hold(h, label, j) ==
    /\ Goto(h, label)
    /\ job' = [job EXCEPT ![h] = j]

Return(h) == Hold(h, "idle", NoJob)

Start(h) ==
    /\ pc[h] = "idle"
    /\ Cardinality({k \in Handlers : pc[k] # "idle"}) < MaxInFlight

Holding(op, at, row) == [NoJob EXCEPT !.op = op, !.at = at, !.row = row]

Tick ==
    /\ now < MaxNow
    /\ now' = now + 1
    /\ UNCHANGED <<committed, stamp, sock, since, pc, job, disturbances>>

Disturb ==
    /\ disturbances < MaxDisturbances
    /\ disturbances' = disturbances + 1

Drop(p) ==
    /\ pc[p] = "idle"
    /\ sock[p] = "up"
    /\ sock' = [sock EXCEPT ![p] = "dropped"]
    /\ since' = [since EXCEPT ![p] = now]
    /\ Disturb
    /\ UNCHANGED <<committed, now, stamp, pc, job>>

Connect(p) ==
    /\ sock[p] = "down"
    /\ sock' = [sock EXCEPT ![p] = "joining"]
    /\ UNCHANGED <<committed, now, stamp, since, pc, job, disturbances>>

-----------------------------------------------------------------------------
(* First statement of a command: SELECT the game, refuse an ended one. *)

ReadForCommand(h) ==
    /\ Start(h)
    /\ \/ h \in Players /\ sock[h] = "up" /\ UNCHANGED disturbances
       \/ h \notin Players /\ Disturb
    /\ game.status = "active"
    /\ UNCHANGED <<committed, now, stamp, sock, since>>

\* Mutant: anybody may insert a move.
StartMoveOutOfTurn(h) ==
    /\ ReadForCommand(h)
    /\ ~ClockHasExpired(game, now)
    /\ Len(moves) < MaxPlies
    /\ Hold(h, "moves", Holding("move", now, game))

StartMove(h) ==
    /\ ReadForCommand(h)
    /\ ~ClockHasExpired(game, now)
    /\ Turn(game) = PlayerOf(h)
    /\ Len(moves) < MaxPlies
    /\ Hold(h, "moves", Holding("move", now, game))

StartMoveOnFlaggedClock(h) ==
    /\ ReadForCommand(h)
    /\ ClockHasExpired(game, now)
    /\ Hold(h, "select",
            Holding("timeout", now, TimeoutGame(game, Turn(game), now, "clock_timeout")))

StartResign(h) ==
    /\ ReadForCommand(h)
    /\ Hold(h, "select", Holding("resign", now, ResignGame(game, PlayerOf(h), now)))

StartAgreeDraw(h) ==
    /\ ReadForCommand(h)
    /\ Hold(h, "select", Holding("draw", now, AcceptDraw(game, now)))

\* The move is applied to the row read before, numbered by the moves read now.
ReadMoves(h) ==
    /\ pc[h] = "moves"
    /\ \E outcome \in OutcomesAt(Len(moves) + 1) :
        Hold(h, "select", [job[h] EXCEPT
            !.count = Len(moves),
            !.row = ApplyPlayerMove(job[h].row, outcome, job[h].at)])
    /\ UNCHANGED <<committed, now, stamp, sock, since, disturbances>>

-----------------------------------------------------------------------------
(* The finally clause and the preamble of ws_endpoint. *)

StartMarkDisconnected(p) ==
    /\ Start(p)
    /\ sock[p] = "dropped"
    /\ game.status = "active"
    /\ Hold(p, "select", Holding("disconnect", now, PauseForDisconnect(game, p, now)))
    /\ UNCHANGED <<committed, now, stamp, sock, since, disturbances>>

NothingToPause(p) ==
    /\ Start(p)
    /\ sock[p] = "dropped"
    /\ game.status # "active"
    /\ sock' = [sock EXCEPT ![p] = "down"]
    /\ stamp' = now
    /\ UNCHANGED <<committed, now, since, pc, job, disturbances>>

\* Mutant: whoever connects resumes the game.
StartMarkReconnectedByAnyone(p) ==
    /\ Start(p)
    /\ sock[p] = "joining"
    /\ game.status = "active"
    /\ game.disconnected_player_id # NoOne
    /\ Hold(p, "select", Holding("reconnect", now, ResumeAfterReconnect(game, now)))
    /\ UNCHANGED <<committed, now, stamp, sock, since, disturbances>>

StartMarkReconnected(p) ==
    /\ Start(p)
    /\ sock[p] = "joining"
    /\ game.status = "active"
    /\ game.disconnected_player_id = p
    /\ Hold(p, "select", Holding("reconnect", now, ResumeAfterReconnect(game, now)))
    /\ UNCHANGED <<committed, now, stamp, sock, since, disturbances>>

NothingToResume(p) ==
    /\ Start(p)
    /\ sock[p] = "joining"
    /\ ~(game.status = "active" /\ game.disconnected_player_id = p)
    /\ sock' = [sock EXCEPT ![p] = "up"]
    /\ stamp' = now
    /\ UNCHANGED <<committed, now, since, pc, job, disturbances>>

-----------------------------------------------------------------------------
(* monitor_active_games: the time is taken before the games are listed. *)

StartMonitor(m) ==
    /\ Start(m)
    /\ Hold(m, "list", Holding("none", now, NoRow))
    /\ UNCHANGED <<committed, now, stamp, sock, since, disturbances>>

ListActive(m) ==
    /\ pc[m] = "list"
    /\ LET at == job[m].at
       IN  \/ /\ GraceHasExpired(game, at)
              /\ Hold(m, "moves", Holding("grace", at, game))
           \/ /\ ClockHasExpired(game, at)
              /\ Hold(m, "select",
                      Holding("timeout", at,
                              TimeoutGame(game, Turn(game), at, "clock_timeout")))
           \/ /\ ~Overdue(game, at)
              /\ Return(m)
    /\ UNCHANGED <<committed, now, stamp, sock, since, disturbances>>

CountMoves(m) ==
    /\ pc[m] = "moves"
    /\ Hold(m, "select", [job[m] EXCEPT
            !.row = ResolveGrace(job[m].row, Len(moves), job[m].at)])
    /\ UNCHANGED <<committed, now, stamp, sock, since, disturbances>>

-----------------------------------------------------------------------------
(* SqlAlchemyGameRepository.update and the service's commit. *)

\* Timestamps come from distinct reads of a microsecond clock, so the one a
\* handler assigns differs from any stored one even within a unit of time.
StampedColumns(j) ==
    {c \in {"last_clock_started_at", "disconnect_grace_deadline_at"} :
        CASE c = "last_clock_started_at" ->
                j.op \in {"move", "reconnect"} /\ j.row.status = "active"
          [] OTHER -> j.op = "disconnect"}

Dirty(j, row) == {c \in Columns : j.row[c] # row[c]} \cup StampedColumns(j)

Select(h) ==
    /\ pc[h] = "select"
    /\ Hold(h, "flush", [job[h] EXCEPT !.dirty = Dirty(job[h], game)])
    /\ UNCHANGED <<committed, now, stamp, sock, since, disturbances>>

Overwrite(row, j) ==
    [c \in Columns |-> IF c \in j.dirty THEN j.row[c] ELSE row[c]]

\* Where the handler goes after its commit: a finished game is rated next; the
\* socket's bookkeeping is over; a move that left the game active is done.
AfterCommit(h) ==
    CASE job[h].op \in {"resign", "draw", "timeout", "grace"} -> "rate"
      [] job[h].op = "move" /\ game'.status # "active"        -> "rate"
      [] OTHER                                                -> "idle"

Flush(h) ==
    /\ pc[h] = "flush"
    /\ game' = Overwrite(game, job[h])
    /\ moves' = IF job[h].op = "move"
                THEN Append(moves, [move_number |-> job[h].count + 1, user |-> PlayerOf(h)])
                ELSE moves
    /\ stamp' = IF job[h].at > stamp THEN job[h].at ELSE stamp
    /\ sock' = CASE job[h].op = "disconnect" -> [sock EXCEPT ![h] = "down"]
                 [] job[h].op = "reconnect"  -> [sock EXCEPT ![h] = "up"]
                 [] OTHER                    -> sock
    /\ Hold(h, AfterCommit(h), NoJob)
    /\ UNCHANGED <<ratings, now, since, disturbances>>

-----------------------------------------------------------------------------
(* apply_game_rating: SELECT the game, SELECT the users, write both. *)

ReadForRating(h) ==
    /\ pc[h] = "rate"
    /\ IF RatingIsDue(game)
       THEN Hold(h, "users", Holding("none", 0, game))
       ELSE Return(h)
    /\ UNCHANGED <<committed, now, stamp, sock, since, disturbances>>

ReadUsers(h) ==
    /\ pc[h] = "users"
    /\ Hold(h, "rate_flush", [job[h] EXCEPT !.rates = ratings])
    /\ UNCHANGED <<committed, now, stamp, sock, since, disturbances>>

\* A rating the computation leaves as it read it is not written.
WriteRating(h) ==
    /\ pc[h] = "rate_flush"
    /\ ratings' = [p \in Players |->
            LET change == RatingChange(job[h].row.result, p)
            IN  IF change = 0 THEN ratings[p] ELSE job[h].rates[p] + change]
    /\ game' = [game EXCEPT !.rating_after = TRUE]
    /\ Return(h)
    /\ UNCHANGED <<moves, now, stamp, sock, since, disturbances>>

-----------------------------------------------------------------------------
Continue(h) ==
    \/ Select(h)
    \/ Flush(h)
    \/ ReadForRating(h)
    \/ ReadUsers(h)
    \/ WriteRating(h)

PlayerStep(p) ==
    \/ StartMarkDisconnected(p)
    \/ NothingToPause(p)
    \/ StartMarkReconnected(p)
    \/ NothingToResume(p)

MonitorStep(m) ==
    \/ StartMonitor(m)
    \/ ListActive(m)
    \/ CountMoves(m)

Next ==
    \/ Tick
    \/ \E p \in Players :
        \/ Drop(p)
        \/ Connect(p)
        \/ PlayerStep(p)
    \/ \E h \in Commanders :
        \/ StartMove(h)
        \/ StartMoveOnFlaggedClock(h)
        \/ StartResign(h)
        \/ StartAgreeDraw(h)
        \/ ReadMoves(h)
    \/ \E m \in Monitors : MonitorStep(m)
    \/ \E h \in Handlers : Continue(h)

Spec == Init /\ [][Next]_vars

\* The event loop resumes every handler whose query has been answered, and the
\* monitors keep polling; nobody is obliged to play, drop or come back.
Fairness ==
    /\ \A p \in Players : WF_vars(PlayerStep(p))
    /\ \A h \in Commanders : WF_vars(ReadMoves(h))
    /\ \A m \in Monitors : WF_vars(MonitorStep(m))
    /\ \A h \in Handlers : WF_vars(Continue(h))

FairSpec == Spec /\ Fairness

-----------------------------------------------------------------------------
(* Properties. *)

Jobs == [op : Ops, at : Nat, row : Rows, dirty : SUBSET Columns, count : Nat,
         rates : [Players -> Int]]

TypeOK ==
    /\ game \in Rows
    /\ moves \in Seq(MoveRows)
    /\ ratings \in [Players -> Int]
    /\ now \in Nat /\ stamp \in Nat /\ disturbances \in Nat
    /\ sock \in [Players -> {"up", "dropped", "down", "joining"}]
    /\ since \in [Players -> Nat]
    /\ pc \in [Handlers -> Awaits]
    /\ job \in [Handlers -> Jobs]

\* However handlers overwrite one another, no player is ever left with more
\* time than the time control gave them: the initial time and one increment for
\* each move of theirs in the move table.
ClockBound ==
    \A p \in Players : TimeOf(game, p) <= InitialTime + Increment * MovesBy(moves, p)

\* Two move rows of a game never share a number, and no number is skipped,
\* although nothing but len(get_moves()) + 1 chooses it and the table has no
\* unique constraint (services.py:66-71).  This does NOT hold: two sockets of
\* one player may count the same history.
MoveNumbersAreSequential ==
    \A i \in DOMAIN moves : moves[i].move_number = i

\* An overdue game is settled although the monitor races every other handler.
OverdueIsSettled == Promise!OverdueIsSettled

\* Every game that is handled one event at a time keeps the promises of Game.
KeepsPromise == Promise!Spec

\* The move row and the game row agree: the position on the row is the one the
\* committed moves lead to (docs/primitives.md, Move transaction boundary).
MoveLogAgrees == Promise!MoveLogAgrees

\* A finished rated game changes each rating once, by one result
\* (apply_game_rating: "if not yet processed").
RatedOnce == \A p \in Players : ratings[p] \in {-1, 0, 1}
=============================================================================
