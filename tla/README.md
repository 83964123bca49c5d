# Verification of ChessView

ChessView is a chess platform: a FastAPI backend over PostgreSQL and Redis, WebSockets
for play, a React frontend and an admin frontend. The specifications here model the
parts in which several actors change the same state (handlers, background monitors,
players' sockets, backend instances, and in the browser: late answers, pushed events,
replaced sockets, timers, a camera, an engine in a worker), and the pure rules those
parts are built from.

Paths below are relative to the repository; `game/`, `matchmaking/`, `tournaments/`
and so on stand for `backend/domains/<name>/`, and `features/`, `pages/`, `shared/`,
`entities/`, `widgets/` and `app/providers.tsx` are under `frontend/src/`.

## 1. Inventory

### Backend

| Component | State it keeps | Operations | Must be correct |
|---|---|---|---|
| Game rules (`game/domain`) | the `Game` entity: status, result, reason, position, two clocks, when the clock was started, who is away and until when | clock snapshot, move, resign, draw, timeout, abort, pause, resume | columns agree; time is neither created nor lost; finished is final |
| GameService and repository (`game/application/services.py`, `game/infrastructure/repository.py`) | rows `games`, `moves` | each command reads the row, computes, writes every changed column | the move log and the row agree; one move per number; no update is lost |
| Game monitor (`game/presentation/runtime.py`) | a Redis lock | every second: expire grace windows, expire clocks, then rate what it finished | an overdue game is settled, by what really happened |
| Ratings (`ratings/`) | ratings of users, rating columns of the game | rate a finished game | once per game, for its final result |
| WebSocket endpoint, ConnectionManager (`app/ws_entry.py`, `shared/ws_manager.py`) | sockets per instance; presence and rooms in Redis | accept, register, restore the room, resume the game; disconnect, pause the game; heartbeat | a new socket is not undone by the end of an old one; presence finds the living socket and forgets the gone |
| Matchmaking (`matchmaking/`) | in Redis: a sorted set per time control, a hash per player, a lock with a TTL | join, leave, search and pair | an entry makes one game; the lock is its owner's and comes free |
| Tournaments (`tournaments/`) | rows of tournaments, players, rounds, pairings | enter, leave, withdraw, start, synchronise a result, advance | every present player once per round; scores are the results; rounds follow one another |
| Chat, RTC relay (`communication/`, `rtc/`) | messages | store and broadcast; relay | the panel shows the room's messages; a call comes about |
| Puzzles (`puzzles/`) | attempts per user and puzzle | read the attempt, write it back | a solved puzzle is shown solved |
| Payments, wallet, shop (`payments/service.py`, `shop/application.py`) | coins, payment intents with their flags, owned items | pay, refund, buy, over coins read before | the coins are what charges and purchases leave; nothing is confirmed without a charge |
| Scheduled matches (`scheduled_matches/service.py`) | status, times, fee paid, game | invite, accept, decline, cancel, reschedule, start | one game a match |
| Clubs, profiles, identity, admin, plumbing, deployment | single rows, or none | request and response | see section 6 |

### Frontend

| Component | State it keeps | Operations | Must be correct |
|---|---|---|---|
| Session (`entities/user/model.ts`, `app/providers.tsx`, `app/router.tsx`, `shared/api/http.ts`, `pages/auth-page`) | profile and token, persisted; a bootstrap flag; requests in flight | sign in, bootstrap, edit the profile, log out, 401, guards | the profile is the token's; no page waits for ever |
| WebSocket client (`shared/api/ws.ts`) | a current socket, replaced ones, timers | connect, disconnect, retry; the socket's events | pages see one link, of their own session |
| Game client (`features/make-move`, `entities/game`, `features/join-matchmaking`) | the game store, the queue status, a premove | load, follow events, move, premove, join, leave | the page shows the game; moves go where they were aimed; the panel gets an answer |
| Chat panel (`features/send-chat-message`) | messages, a draft | enter a room, merge history and broadcasts, send | nothing missing, double or out of order |
| Call (`features/connect-rtc`, `shared/lib/webrtc.ts`) | a PeerConnection, streams, pending offers and candidates | visit, grant, offer, answer, candidates, retry | camera off when gone; the call is made |
| Analysis board (`features/analyze-position`, `pages/analysis-page`) | a line of moves, an engine in a worker with two queues | play, browse, paste, edit; debounce, search | what is shown is of the position on show |
| Puzzle page, game review (`pages/puzzle-page`, `pages/game-review-page`) | a workspace with a timer; an engine's scores | play, reset, report; label the moves | attempts are shown; labels are just |
| Lists and forms (eleven pages, and the admin page) | the query cache | query, act, invalidate, fill in | what the user did is shown |

### How they interact

* A **socket event** reaches a handler (`game/presentation/ws_handler.py`). The handler
  calls one GameService operation in a database session of its own, broadcasts, and when
  the game has ended calls the rating service and `TournamentService.sync_game_result`.
* The **endpoint** calls `mark_reconnected` when a socket is accepted and
  `mark_disconnected` (and `leave_queue`) when its receive loop ends.
* The **monitor** runs in every backend instance; a Redis lock lets one pass run at a time.
  It performs the same GameService and rating operations as the handlers.
* **Matchmaking, tournaments and scheduled matches** create games; **payments** enter
  players into tournaments.
* In the **browser** the pages reach the server over `http` (with the store's token) and over
  one `wsClient`, whose events go to the handlers that the mounted hooks have set up. The
  stores of game, queue, messages and peer are written by pushed events and by answers alike.
* Nothing locks a row and nothing compares a version, on either side: what keeps operations
  apart is that the events of one socket are handled one by one, plus the two Redis locks.

### What is hard

Every operation of the backend is a coroutine that can be suspended at each await between
reading a row and writing it back. Two handlers, a handler and the monitor, or two instances
may be between the same two statements. Locks and presence have TTLs that may run out under a
slow owner. Sockets end late: the end of an old socket is processed after a new one has been
accepted. A process may die between two committed steps. In the browser a replaced socket
goes on firing events, timers are not cancelled, an answer may be older than what was pushed
since, and neither `readyok` nor an RTC answer says what it answers. `PROJECT.json` lists
these hazards line by line, with the properties that cover each or the reason none does.

## 2. Modules

| Module | Models | Extends |
|---|---|---|
| `GameRules` | the pure functions on a game row: clock, moves, outcomes, policies | - |
| `Game` | one rated game with every operation in one step: the abstract specification | `GameRules` |
| `GameStore` | the same operations split at their database statements; `INSTANCE Game` is what it should implement | `GameRules` |
| `Matchmaking`, `MCMatchmaking` | queueing and pairing, one Redis command per step | - |
| `Connections` | the sockets of one player over several instances, presence, room, pause | - |
| `Swiss` | the pure pairing of a round | - |
| `Tournament`, `MCTournament` | one tournament with every operation in one step | `Swiss` |
| `WsLink` | a link to the server, as the pages may take it: the abstract specification | - |
| `WsClient` | the socket client with all its sockets and timers | - |
| `Session`, `MCSession` | who is signed in, over `WsClient`; `INSTANCE WsLink WITH ...` is what it implements | `WsClient` |
| `Play` | lobby and game page against the server, over a link | `WsLink` |
| `Chat`, `Call`, `Analysis` | the panel, the call, the analysis board, each with its other side | - |
| `Pages`, `MCPages` | the three side by side | the three |
| `Puzzle`, `Review`, `Desk` | the puzzle trainer, the review, the pages over the query cache | - |
| `Wallet` | a user's payments, refunds and purchases, split at their reads and commits | - |
| `ScheduledMatch` | a scheduled match with a fee, beside the wallet that pays it | `Wallet` |
| `Study`, `MCStudy` | trainer, review, pages and scheduled match side by side | the four |
| `GameRules_proofs`, `Game_proofs`, `GameStore_proofs`, `Matchmaking_proofs`, `Connections_proofs`, `Session_proofs` | lemmas and theorems | the module they are about |
| `Events_proofs` | lemmas and theorems about tournaments, scheduled matches and the wallet | `Tournament`, `ScheduledMatch` |
| `Browser_proofs` | lemmas and theorems about the pages | `Play`, `Chat`, `Call`, `Analysis`, `Puzzle`, `Review`, `Desk` |

Right before some definitions a module has a *mutant*: the definition as a plausible bug
would have it. `PROJECT.json` pairs each checked property with a mutant that violates it.
Mutants are in no next-state relation.

### Game and GameRules

`game` is the row of table `games`, `moves` the rows of `moves`; `sock[p]` is where
`ws_endpoint` is for player p (`up`, `dropped`, `down`, `joining`), `since[p]` when p's
socket last dropped. A handler stamps its operation with a `utc_now()` of its own, any
instant between the stamp of the previous operation and the wall clock `now` (`Stamped`). The
monitor takes its instant once, before it lists the games, so it judges, and charges, a game by
any instant so far, one older than the game's last change included (`JudgedAt`). A player may
command over the current socket or another one that is still served. Actions are `MakeMove`, `ExpireOnMove`, `Resign` and `AgreeDraw` for the
players, `MarkDisconnected`, `MarkReconnected` for the endpoint, `MonitorGrace` and
`MonitorClock` for the monitor and `ApplyRating` for what follows a finished game.

A position is the number of plies that led to it (`fen`), and what python-chess says of a
position is the external operator `OutcomesAt`. Both players are rated alike, so an Elo
update is +1, 0 or -1, and the rating columns of the row are one flag, `rating_after`.
Instants and times are integers of some unit; the code truncates to milliseconds and the
model's unit stands for one.

### GameStore

Handlers are those of the players' current sockets (which go by the players' names), those of
other sockets of theirs (`WhiteElsewhere`, `BlackElsewhere`: `connect` does not cancel the handler
of a socket it replaces, and other instances serve their own), and any number of monitors. Each
handles one event at a time; only the current socket drops and comes back. `disturbances` bounds
drops and the commands of other sockets. `pc[h]` is the await handler h is suspended at, `job[h]` what it holds in memory.
`update()` SELECTs the row again, assigns every column and flushes: SQLAlchemy writes the
columns in which the entity differs from what that SELECT returned (`Dirty`), onto whatever
is committed by then. A rating is three steps: read the row, read the users, write.

### Matchmaking

`entry` are the hashes `mm:user:<player>`, `queue` the sorted sets, `lock` the lock keys.
`pc[p]` is the next Redis command of player p's handler. A ticket stands for `joined_at_ms`
and for the uuid4 token of the lock. `ExpireLockOfSlowHandler` is the TTL running out under
a handler that still searches, `Crash` the death of a handler. `HSET` and `EXPIRE` of an
entry are one step here (they are two in `Connections`).

### Connections

One coroutine per socket (`endpoint[s]`), `active[i]` is `active_connections[user]` of
instance i, `removal[s]` where `ConnectionManager.disconnect` is, `beat[i]` the connection
the heartbeat of i is about to refresh, `presence` and `expires` the Redis record and its
TTL, `member` the room membership, `paused` whether the game waits for this player.

### Swiss and Tournament

`Swiss` translates `tournaments/domain/services.py`: standings, byes, opponents and colours,
with the quirk of `preferred_score_gap or float("inf")` as it is. `Tournament` has one action
per operation of TournamentService and, from the payments, the two ways a payment changes a
player (a paid entry, a refund). A result arrives when whoever ended the game synchronises
it (`SyncGameResult`). `changes` counts, and so bounds, withdrawals, forced statuses, changed
round numbers and paid entries; `reopened` records that the owner took a running tournament
back to registration, which `set_status` allows from any status. A round started after that
has the number of an older one, so the per-round properties exempt it.

### WsLink, WsClient and Session

`sock` are all the browser's sockets, each with its readyState and the token in its URL; `ws`,
`token` and `connectionState` are the client's fields. `onclose` of a replaced socket is
ignored by the identity test of `ws.ts`, which is what the mutants drop. `Session` adds the
user store (`user`, `accessToken`, `bootstrapping`), the route, the redirect flag in the session storage, the handlers of the
mounted page (`listener`) and the requests in flight (`calls`). React runs the effects of a
commit before it handles the next click or answer: user actions and answers wait for
`Settled`, socket events do not. `editedLate` records the one way a profile may be another
user's: an edit answered after its session, or an edit made of such a profile. It ends with
the next sign-in, bootstrap or sign-out.

### Play

The server's half is `game` (with `ver`, the number of its changes), `entered` (the queue
holds the player), `attached` and `unnoticed` (a connection the server has, or has yet to
notice the end of). `inbox` and `outbox` are the link's two directions and are lost with it.
The browser's half is `screen` (the page), `queue`, `view` (the game store), `fetch` (the GET of the game, with the
state it was answered with) and `premoveDue`. `view.newest` and `view.full` remember the age
of the newest event and of the newest full state shown; `gap`, `slip`, `resent` and
`misplaced` record what the properties need: a lost broadcast, how the answer to a join went
past the panel, two moves sent from one position, a move played in another position than its
own. The lobby may be left for another page at any time and come back to (`LeaveLobby`,
`ReturnToLobby`): its handlers go and come with it, the status in the store stays. The server's
handler of a queue command may raise (`QueueCommandFails`), before or after it has changed the
queue.

### Chat, Call, Analysis

`Chat`: `chatLog` is the table, a message is its number in it; history requests are `live`
until the effect that made them is cleaned up. The store's `isLoading` is left out: the hook's
`setLoading(true)` is cleared at once by the `setError(null)` that follows it. `Call`: a *visit* is one run of the hook's
effect; signals carry the visit they come from only for the properties, the code does not see
it. `createOffer`, `handleOffer` and `handleAnswer` are one step each; `handleOffer` may stop after
the description when the browser refuses an early candidate of another visit (`OfferFails`): the
offer is then not answered. `Analysis`: the worker
reads commands and writes lines in order; `searchTimer` is the debounce, `queuedSearch`,
`isSearchActive` and `currentFenRef` are the refs of the hook; `overlapped` records a timer
that asked `isready` with an earlier question unanswered.

`Pages` runs one of the three at a time: they share no state, so the product adds no behaviour
to any of them and each is explored in full.

### Puzzle, Review, Desk

`Puzzle`: `attempts` are the rows, `trainer` the workspace on show, `details` and `catalog` the
cached answers. `Review`: scores are for the side to move; `LabelShown(i)` is the label of ply
i as `buildReviewReport` comes to it. `Desk`: `clock` counts the server's writes, and every
cached answer carries the clock it was read at, so that "shows the user's action" is a
comparison; the admin page is looked at through one of its cards at a time, and a change and
its audit row are one write. How many actions of a kind can be under way is what the buttons
allow (`AtOnce`): most wait for their own mutation, kinds that stand for several mutations can
overlap as often as there are mutations, and the buttons of a match and of the admin page, which
disable nothing, have no limit but that of the run. A handler that invalidates in two stages, or
goes to another page in the end, waits for the requests it has made (`awaited`); when the handler
of an overlapping action cancels such a request, the wait is over.

### Wallet and ScheduledMatch

Each request has a handler with a session of its own; `job[h]` is what it holds. `coins`,
`payment`, `registration`, `paid` (the match's `payment_status`), `owned` and `match` are rows.
A simulation reads the payment (`Simulate`); reading the user flushes the payment's new status,
which locks its row to the commit (`ReadUser`, `RowIsFree`); then it commits coins and flags
(`SettleSuccess`, `SettleRefund`). A purchase reads the user, then the inventory, then commits
(`Purchase`, `ReadInventory`, `Pay`). SQLAlchemy writes the columns that differ from what was
loaded (`Put`), with absolute values. A request about the match is validated on the row it reads
(`AskTransition`, `AskReschedule`, `AskStart`) and commits later; `CreateGame` is the commit
inside `create_game`, `LinkGame` the one of the match. A handler may fail at any point
(`HandlerFails`): what it has not committed is gone. `time` says whether the match's time is
ahead, now or over. `outdated` records that a handler has written coins over rows changed since
it read them, `startsOverlap` that two starts were under way together or that one died between
its commits: the properties excuse just that.

`Study` runs one of the four parts at a time: they share no state.

## 3. Runs

| Run | Bounds | Shows |
|---|---|---|
| `Game` | 2 units of time, increment 1, grace 1, clock to 4, 4 plies; 696,058 states | the promises of `Game`: consistent rows, nobody paused who is there, no time charged twice or lost, finished is final, grace honoured, overdue games settled |
| `GameStore_serial` | one handler in flight; a second socket of white's; clock to 3, 2 disturbances, 4 plies; 618,052 states | with one handler in flight at a time the split operations implement `Game` (`KeepsPromise`) |
| `GameStore_race` | two in flight; a second socket of white's; clock to 1, 1 disturbance, 2 plies; 1,613,138 states | rows written over one another give nobody clock time, and overdue games are still settled |
| `GameStore_lost_move` | the same, with one socket a player | **violated**: `MoveLogAgrees` |
| `Matchmaking` | 3 players, 3 joins, 1 stall, 1 crash; 422,710 states | one game per entry unless a lock stalls, only owners release the lock, the lock comes free |
| `Connections` | 2 sockets, 2 instances, 1 crash; 937,712 states | a working socket keeps its place, presence finds the remaining socket, and does not outlive the player |
| `Tournament` | 4 entrants (1 without account), 2 rounds, 1 change; 93,949 states | scores are results, one pairing a round, everybody present is paired, byes go around, rounds are left when decided |
| `Tournament_leader` | the same | **violated**: `LeaderMeetsNearest` |
| `Session` | 2 users with a session each, 3 sockets, 1 stale socket or timer; with nothing else pending a request, with one thing pending a sign-in; 518,400 states | the profile is the token's, a page hears its own session only, the client implements the link, no guarded page stays undecided |
| `Play` | 3 plies, 3 changes of the game, 2 events and 2 commands in flight; 974,797 states | the page shows the present, moves go where they were aimed, a join is answered |
| `Pages` | chat: 2 games, 2 messages, 2 histories; call: 2 visits a side, 2 signals in flight, 1 lost; analysis: 3 positions, the last final; 261,411 states | the chat is whole, the camera is off when its player has gone, the call is made, the analysis shown is of the position, and a position gets analysed |
| `Study` | a puzzle of 3 moves, 2 reports; 2 reviewed games; 8 corners of pages, 2 actions, 1 request waiting; 3 coins, 2 payments, 2 items, 3 simulations or purchases and 4 requests about the match with 2 handlers in flight; 3,288,104 states | attempts are shown, reviews are just, the user's actions show, coins add up, a match makes one game, nothing is confirmed without a charge |

Why the bounds are enough.

* **Game**: four plies pass the two that make a game meaningful (abort or loss after the
  grace window) and give each side a move before and after a pause. Two units against a
  clock of four let a clock run out, a grace window open, expire or be renewed, in any order.
  The safety properties are also proved without bounds (section 5).
* **GameStore**: a race needs two handlers; `MaxInFlight = 2` with one unit of time reaches
  every pair of operations, two of white's over two sockets among them. The code has no such
  bound: the refinement of the serial run says what holds when handlers of one game do not
  overlap, and nothing more. `ClockBound` is proved for any number of handlers in flight and of
  sockets (section 5).
* **Matchmaking**: an entry matched twice needs one player and two searchers; three joins also
  allow one player to leave and join again while searched.
* **Connections**: an old and a new socket on the same or on different instances, and the
  death of either. Three sockets are out of reach with two instances.
* **Tournament**: four entrants give full rounds, three a bye and two a forced rematch; the
  number varies with who joins. Five entrants over three rounds without changes were run as
  well (8,308 states, same properties); more rounds and changes together do not finish.
* **Session**: a current socket, a replaced one and a closing one. A request of one session can
  be in flight while the next session signs in, is checked and is answered: whatever is late is
  late by one session. Bootstrap requests are not bounded. More requests are covered by the
  theorems of section 5.
* **Play**: three changes let an event, an answer and a lost broadcast be ordered in any way;
  three plies let a premove be queued, sent and overtaken. The lobby may be left and come back to
  any number of times, a queue command may fail any number of times.
* **Pages**: a history can be overtaken by a broadcast, and by a change of room; a second visit
  makes every signal of the first one stale; a third position is needed for a search to be
  queued while another one stops.
* **Study**: two reports overlap; a review can be jumped to another game; two actions of pages
  that share keys overlap with a poll, among them two changes on the admin page with both stages
  of their invalidations. The corners are the pairs of pages that share keys.
  Three simulations or purchases are a charge, its refund and one more of either, or two that
  overlap and one after them; three coins pay for some of the entry, the match and the items but not for
  all. Four requests about a match make it ready, start it, and leave two to overtake or
  follow. Handlers and requests have no bound in the theorems of section 5.

CHECK_DEADLOCK is off everywhere: games end, queues empty, tournaments finish, and bounded
clocks and counters stop.

### Fairness

Fairness is weak unless said otherwise, and only for what the program drives by itself.

* `Game`: the monitor polls every second (`run_game_monitor`), and sooner or later judges by the
  present instant. No player is obliged to move, to drop or to come back. Nothing obliges the
  rating of a finished game: the handler that owes it may die, and the code has no second chance
  (see the hazards).
* `GameStore`: the event loop resumes each handler whose query was answered; monitors poll.
* `Matchmaking`: a running handler goes on unless it crashes; the TTL of a lock whose holder
  is gone runs out. The TTL running out under a slow handler is possible, never obliged.
* `Connections`: coroutines go on, heartbeats beat, TTLs run out. Sockets need not close.
* `Tournament` has no liveness property: that a decided round is left is the invariant
  `DecidedRoundIsLeft`, and that games get decided is `Game!OverdueIsSettled`.
* `Session`: effects run and close events come. Timers fire, and `fetch` settles the bootstrap
  request, under strong fairness: clicks and effects may come in between any number of times,
  and the browser does not forget either for that.
* `Play`: the server takes commands, the browser delivers events, an `error` event of a socket
  is followed by its `close`. Nothing obliges the link to stay up or the opponent to move.
* `Pages`: the call's signalling goes on (messages arrive, the offerer's timer fires); the
  analysis's debounce ends, the worker reads, finds and answers. No user is obliged to anything.

## 4. Findings

1. **A move's position is lost** (`GameStore_lost_move`, `game/application/services.py:77`).
   A handler that read the row before a move and commits after it writes back the old
   position and clocks; the row in `moves` stays.
2. **The leader does not meet the nearest** (`Tournament_leader`,
   `tournaments/domain/services.py:159`). `0.0 or inf` is `inf`: an opponent of the same score
   gives way to the next one with a different score.

Some properties are written down and known *not* to hold. They are in no run; added to the
INVARIANTS of the run named, or with the constant given, TLC answers with the behaviour described.

* `GameStore!RatedOnce` (in `GameStore_race`): "if not yet processed" is decided on a read that
  another handler may share, and other handlers write the rating columns back
  (`ratings/infrastructure/repository.py:31`). A game is rated twice.
* `GameStore!MoveNumbersAreSequential` (in `GameStore_race`): the number of a move is one more than
  the moves its handler has counted (`game/application/services.py:71`), and a player may have two
  handlers, one of a socket that was replaced or is served by another instance. Two moves sent
  over both count the same history and get one number; the table has no unique constraint. TLC
  needs nine states: both handlers read the game, both count, both write.
* `Matchmaking!EntryMakesOneGame` (in `Matchmaking`): the lock's owner never checks that it
  still owns it before it dequeues and creates the game
  (`matchmaking/application/services.py:103`). A player is matched twice.
* `Connections!ConnectedIsNotPaused` (in `Connections`): the test whether the socket is current is
  two awaits older than the pause (`app/ws_entry.py:152`).
* `Connections!ConnectedIsInRoom` (in `Connections`): removal from the room follows an await and
  asks nothing (`shared/ws_manager.py:93`).

What the properties of the frontend except is in their comments, and is what the code does:

* a profile edit answered after its session puts the former user back on show (`OwnProfile`);
* broadcasts lost with a connection are not asked for again, and an answer older than an event
  overwrites it (`ShowsThePresent`); two moves sent from one position may both be played
  (`MovesGoWhereAimed`);
* a join may leave the panel "joining", where no button works (`JoinIsAnswered` up to `slip`): when
  the answer is an error, `ALREADY_IN_QUEUE` for a place left behind by an unnoticed drop or
  `INTERNAL_ERROR` for a handler that raised (`app/ws_entry.py:147`), since the panel only shows it
  (`features/join-matchmaking/index.ts:45-51`); when the answer comes, or the line goes down, while
  another page is open, since the lobby's handlers were removed with it (53-58); and when the answer
  is lost with a working socket that a late retry replaces;
* white may take the answer to an earlier offer and then not offer again (`CallIsMade`);
* `readyok` may start a search too early (`ShownIsOfThisPosition`), and a final position is
  "analyzing" for ever (`PositionGetsAnalysed`);
* two simulations of one payment that overlap charge it twice, and a purchase that overlaps a
  simulation loses one of the two debits (`CoinsAddUp` up to `outdated`), although the charge is
  documented to happen "once" (`payments/service.py:39`);
* two starts of a match that overlap, or one that dies between the commit of its game and that of
  the match, leave a second game (`OneGamePerMatch` up to `startsOverlap`);
* overlapping reports may unsolve a puzzle (`AttemptsAreShown`); a mating move is a "miss"
  (`ReviewIsJust`); keys of other pages are not named by the handlers (`OwnActionsShow`).

Also seen while modelling, where no line of the code promises otherwise: a payment that was
refunded and succeeds again re-activates its registration without a new charge, and a refund
leaves a match paid for; the creator of a match that awaits acceptance can reschedule it, which
makes it startable unaccepted; a reschedule or cancellation validated before a start and committed
after it takes the match back from `live`; a start looks at `match_fee_cents` only, while a payment
prefers `entry_fee_cents`. Two players who join
the queue together may both find the lock taken and then wait until somebody else joins; a
round that consists of byes only waits for the owner to advance it; the query cache is not
emptied at logout; `shared/lib/chess.ts:435` takes the first move between two squares, which
for a promotion need not be the queen that the board shows.

## 5. Proofs

All statements are for every value of the constants that satisfies the named assumptions:

* `ClockAssumption` (times are naturals), `BoundAssumption`, `StoreAssumption` (also: monitors are
  not players), `MatchmakingAssumption` (a rating for each player; `"nobody"` is no player),
  `ConnectionsAssumption` (`"none"` is no socket);
* `SwissAssumption` (finitely many entrants; a tie of ratings is broken in some fixed way, as the
  stable sort of the code breaks it), `TournamentAssumption` (the owner has an account);
* `WalletAssumption` (finitely many payments and items; amounts, prices and the first coins are
  naturals; a payment has one subject);
* `SocketsAssumption` and `SessionAssumption` (a token has one owner; there are more sockets than
  may be stale), `PlayAssumption`, `ChatAssumption`, `CallAssumption`, `PuzzleAssumption` (the
  special names are no puzzles), `DeskAssumption` (the pages of a corner are pages);
* `ReviewAssumption`: the tabulated win probabilities lie between 0 and 1 and do not fall where the
  score rises, as the logistic curve of `moveClassifier.ts` does not; a game has a score for
  each of its positions;
* `AnalysisAssumption`: the names of the engine's states and commands are no positions.

The bounds of the runs (`MaxInbox`, `MaxReports` and so on) are natural numbers of any size here.

**`Game_proofs`** proves `TypeOK`, `RowConsistent`, `PausedPlayerIsOffline`, `ClockBound`,
`MoveLogAgrees`, `RatedForFinalResult`, `FinishedIsFinal`, `GraceResolutionEarned` and
`TimeConserved`. The inductive invariant `IInv` is the conjunction of the invariants with two
more facts:

* `GraceWindow`: the deadline on the row is at least a grace period after the recorded
  player's drop. Without it a monitor step could end a game early from a state that the other
  invariants allow.
* `ClocksInOrder`: stamps and drops are not in the future.

`MoveLogAgrees` is what lets the turn be read off the row, on which `ClockBound` rests: an
increment is added exactly when a move of that player is counted. The action properties
follow from `IInv` step by step. `TimeConserved` compares a player's time at the instant of a
step, by the row before and by the row after it: each function of `outcomes.py` and `moves.py`
is judged by itself first, in a lemma about rows, and `ClocksInOrder` says that a row's clock
was not started after the instant it is read at.

**`GameStore_proofs`** proves `TypeOK` and `ClockBound` for any number of handlers in flight.
Here `MoveLogAgrees` fails, so the argument cannot use it. `StoreInv` bounds what each handler
*holds*: a row in memory gives nobody more time than the committed moves allow, plus one
increment (`Credit`) for the move its own handler has applied but not committed (`Within`); and a
handler that has passed the turn check holds a row on which it is its player's turn
(`Disciplined`). A flush mixes columns of two rows, each within the bound, so the outcome is.

Its second part proves that with `MaxInFlight <= 1` the specification of `GameStore`
implies `KeepsPromise`, the specification of `Game`. `Serial` says that at most one handler is at
work and that what it holds is `Fresh`: after its first statement the row in memory is the
committed row and the check it passed still passes; before its flush it holds what its operation
makes of the committed row (`Computed`), stamped with an instant between the last operation and
now, or of the monitor with any instant so far; the columns it will not write are as they are in the row. Every step but a flush, a rating
write and the sockets' own is then a stutter of `Game`, and the flush is the whole operation. With
two handlers in flight `Fresh` is lost at the first flush of the other, which is how the lost move
of section 4 happens.

**`Session_proofs`** proves `OwnProfile`, `HeardAsSelf` and that each step of `Session` is a step
of `WsLink` or leaves the link alone. `SInv` has three parts. `ClientInv` is about the client: an
open or dialled current socket carries the client's token, and its readyState and
`connectionState` agree. `ListenerInv`: a page that listens does so with the client's token.
`ProfileInv`: a bootstrap or sign-in request carries its token's owner, and the store's profile
is its token's unless `editedLate`.

**`Matchmaking_proofs`** proves `EntryMakesOneGameUnlessStalled` and `OnlyOwnerReleases`. The
invariant has a part that no expiry can break (`Named`: a ticket belongs to one player and one
pool for good, and every copy of an entry that a handler holds names it rightly) and one that
holds while no lock has expired under a searching handler: a search holds the lock of its pool,
so there is one search a pool (`Locked`), the entries in the games made differ (`GamesDiffer`), and
an entry that may still be found is in no game (`Unspent`).

**`Connections_proofs`** proves `TypeOK` and `WorkingSocketKeepsItsPlace`. The invariant beside
the types is `LeavesDead`: an endpoint that has got to its finally clause has a dead socket, so
what `disconnect` and a failed send remove was not working.

**`Events_proofs`**, first part, proves `TypeOK`, `ScoresMatchResults`, `OncePerRound`,
`DecidedRoundIsLeft`, `NewRoundPairsTheActive` and `ByesGoAround` of `Tournament`. The loops of
`tournaments/domain/services.py` are recursive functions on lists of players: that each satisfies
its equation, and what it returns for every list, follows from the well-foundedness of finite sets
under inclusion, applied to the set of counterexamples. From that come the two facts the rest needs: the order of the standings
is a permutation of the active players, and the pairing loop uses up its list two by two, so that
with a bye for an odd one each active player gets exactly one row. The invariant is `TypeOK`, `Rows` (what
a row of a pairing may be, whatever the owner does) and, unless a running tournament was
`reopened`, `Rounds`: no row is of a round to come, and whoever is in a row is entered, has the sum
of his rows as his score, and is in no other row of that round (`History`); a running round that has a
game has one that is not decided (`Undecided`), which is what `DecidedRoundIsLeft` says. A
registration that is taken back while rows stand may remove a player from under them, which
is why `reopened` is excused.

Its second part proves of `ScheduledMatch` and `Wallet`: `ScheduleTypeOK` (with it that coins are
never negative, however handlers overlap: each has checked what it spends of what it has read),
`ConfirmedWasCharged`, `OneGamePerMatch` and `CoinsAddUp`. A debit is never taken back, so what a
handler has read as debited still is when it commits, and a start that found the match paid for
still has a charge behind it (`Backed`). `GameInv` says of starts that do not overlap that there is
one at most, that the game it has read is the match's, and that between its two commits the
game made is the only one. For `CoinsAddUp` the sum over payments and items is shown to change by
one term when one of them changes. A handler that commits over rows still as it has read them
changes the coins and the flags by the same amount; any other commit of coins makes them `outdated`.

**`Browser_proofs`** takes the pages one by one.

* *Lobby and game page* (`ShowsThePresent`, `MovesGoWhereAimed`). States are compared by `ver`.
  `Fits` says of a state, wherever it is (shown, in flight, in an answer), that it is no newer than
  the game, and as the game is if it is as new; `NewsFit` that after any news in flight the
  newest follows, and that a final state is followed by its `game_over`; `NewestIsHeard` that the
  newest state was heard of, is on its way, or is noted as lost. A `game_over` does not carry
  the position over to the page: that the one on show is the final one whenever the page
  missed nothing is the last clause of `Fits`. For the moves, `MovesFit`: every move the player
  has in the game was sent from its own position, and those still in flight were sent from
  positions the game has not left, no two from one.
* *Chat* (`ChatIsWhole`): `NothingLost`, each message of the room is shown, on its way, in a history
  under way, or among those the property excuses; `HistoriesOfRoom`, a live history is for the
  room on show. That merging keeps the panel sorted and free of doubles is a lemma about
  `normalizeMessages` for every finite set of numbers.
* *Call* (`CameraOffWhenGone`): `Held`, every live stream is the one in the store, of the visit
  going on. A grant replaces and stops the stream that was held; the end of a visit stops the
  only one.
* *Analysis* (`ShownIsOfThisPosition`), up to `overlapped`: one question is open at a time
  (`OneQuestion`), so an answer answers the last one; the engine has read its `stop` before it
  answers, and nothing is searched until the answer is heard (`StopsFirst`); so all lines
  under way are about one position (`AllAbout`), the one whose result is shown (`ShownIsTracked`).
* *Puzzles* (`AttemptsAreShown`): `Followed`, as long as the reports of a puzzle do not overlap its row
  changes once between two answers, and until then page and catalog show the row before.
* *Review* (`ReviewIsJust`): a review under way and the one on show are of the game on show unless the
  replay has `jumped`; the labels are arithmetic on the scores of two neighbouring positions,
  for which the win probability must not fall where the score rises.
* *Lists and forms* (`OwnActionsShow`): `UpToDate`, what is cached of a query, or was read for it, shows
  the writes of every action whose handlers are through; what is stale and on show is asked
  for. Each success handler is looked at once (`Tells`): the queries that show what its action
  writes are told, filled, awaited or excused.

**`GameRules_proofs`** has the lemmas about single operators: their types, what each leaves
alone, that a snapshot never raises a clock, that counting moves grows by one with each.

Only model-checked: all liveness (of `Game`, `GameStore`, `Matchmaking`, `Connections`, `Session`, `Play` and
`Pages`) and the fair part of `ImplementsLink`, because fairness and ENABLED are out of the
prover's reach. `MoveLogAgrees` and `RatedForFinalResult` of `Game` are proved, the rest of the
argument rests on the first, and they are in no run of `Game`, where a move and its row are one
step: it is in `GameStore` that they can fail. Type invariants are written in every module, and proved of `Game`, `GameStore`,
`Matchmaking`, `Connections`, `Tournament` and `ScheduledMatch`, or as the typed part of the
invariants above.

## 6. Not modelled

* **Of scheduled matches** the ones made for a round (two synchronisations of a round may make
  them twice), open invitations, which cannot be started, and the pairing that a start gives its
  game to; **of the shop** equipping and the catalog; coins and matches edited by an admin.
* **Tournament operations split into their statements** (two synchronisations of one result, two
  advances of one round, two starts, a crash between result and scores): planned; today each
  operation is one step, so these races are hazards without a property.
* **Several games at once**: a player's two games rated together, a monitor pass in which one
  game fails. One game is modelled.
* **Pub/sub delivery** between instances: a broadcast reaches a connected player or is lost.
* **Clubs, profiles, identity, admin** on the server: single-row requests, or reads.
* **Two tabs**: they share the local storage, and the later write wins.
* **Contents**: moves on squares, forms, texts, elo arithmetic, win probabilities (tabulated).
* **`stop_for_identity_verification`**, offers of draws (no state), the other reads of the game's
  REST router (which changes nothing), serializers, migrations, layout, locales, deployment.
* **Wall clocks that step back**: `docs/primitives.md` states them as a limit of the design.

## 7. Plan

1. `TournamentStore`: start, synchronise and advance at their statements, implementing
   `Tournament` when serial; score lost, round made twice, result never scored when not.
2. A monitor over several games with its lock and a failing game; two games of one player
   rated together, which has the wallet's read-modify-write.
3. `Connections` composed with `Game` and with `Play`: drops and resumptions of two players
   through real endpoints, failed sends and a preamble that raises.
4. Two tabs over one local storage.

Theorems: the refinements of the modules above.
