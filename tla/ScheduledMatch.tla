--------------------------- MODULE ScheduledMatch ---------------------------
(***************************************************************************)
(* One scheduled match with a fee, from its invitation to its game         *)
(* (ScheduledMatchService), beside the wallet of the player who pays.  A   *)
(* handler validates the row it has read and commits later; start commits  *)
(* the game before it commits the match.                                   *)
(*                                                                         *)
(* Abstractions.  starts_at and expires_at tell whether the time of the    *)
(* match is ahead, now or over.  Whoever asks is entitled to; a refused    *)
(* request changes nothing and is no step.  The pairing of a tournament    *)
(* takes the game in the commit of its match: it is left out.              *)
(***************************************************************************)
EXTENDS Wallet

CONSTANTS MaxMatchRequests  \* bound on the requests about the match

VARIABLES
    match,          \* its row: status, and game_id (NoGame for none)
    time,           \* where now is between starts_at and expires_at
    games,          \* how many games create_game has committed
    matchRequests,
    startsOverlap   \* a start came while another one was under way, or one died half-way

matchVars == <<match, time, games, matchRequests, startsOverlap>>
scheduleVars == <<walletVars, matchVars>>

STARTABLE == {"scheduled", "accepted", "rescheduled"}
NoGame == 0
MatchRows ==
    [status : STARTABLE \cup {"pending_acceptance", "declined", "cancelled", "live"}, game : Nat]

ScheduleInit ==
    /\ WalletInit
    /\ match = [status |-> "pending_acceptance", game |-> NoGame]
    /\ time \in {"ahead", "now"}
    /\ games = 0 /\ matchRequests = 0
    /\ startsOverlap = FALSE

TimePasses ==
    /\ \/ time = "ahead" /\ time' = "now"
       \/ time = "now" /\ time' = "over"
    /\ UNCHANGED <<walletVars, match, games, matchRequests, startsOverlap>>

-----------------------------------------------------------------------------
Starting == {h \in Handlers : job[h].at \in {"start", "link"}}

MatchRequest(h, next) ==
    /\ job[h] = NoJob
    /\ matchRequests < MaxMatchRequests
    /\ matchRequests' = matchRequests + 1
    /\ Hold(h, [at |-> next, row |-> match])
    /\ startsOverlap' = (startsOverlap \/ (next = "start" /\ Starting # {}))
    /\ UNCHANGED <<coins, payment, registration, paid, owned, arrived, outdated,
                   match, time, games>>

\* validate_scheduled_match_transition, by the row's status.
MayBecome(status) ==
    \/ status \in {"accepted", "declined"} /\ match.status = "pending_acceptance"
    \/ status = "cancelled" /\ match.status # "live"

AskTransition(h, status) ==
    /\ MayBecome(status)
    /\ MatchRequest(h, status)

AskReschedule(h) ==
    /\ match.status \notin {"live", "cancelled", "declined"}
    /\ MatchRequest(h, "rescheduled")

\* validate_scheduled_match_start: a live match is no error.
AskStart(h) ==
    /\ \/ match.game # NoGame /\ match.status = "live"
       \/ match.status \in STARTABLE /\ time = "now" /\ paid
    /\ MatchRequest(h, "start")

Commit(h, status, game) ==
    LET row == job[h].row
    IN  /\ match' = [status |-> Put(match.status, row.status, status),
                     game |-> Put(match.game, row.game, game)]
        /\ Reply(h)
        /\ UNCHANGED <<coins, payment, registration, paid, owned, arrived, outdated,
                       games, matchRequests, startsOverlap>>

Transition(h) ==
    /\ job[h].at \in {"accepted", "declined", "cancelled"}
    /\ Commit(h, job[h].at, job[h].row.game)
    /\ UNCHANGED time

Reschedule(h) ==
    /\ job[h].at = "rescheduled"
    /\ Commit(h, "rescheduled", job[h].row.game)
    /\ time' \in {"ahead", "now", "over"}

\* Mutant: only a live match is taken to have its game.
IsLive(row) == row.game # NoGame /\ row.status = "live"

HasItsGame(row) == row.game # NoGame

StartAgain(h) ==
    /\ job[h].at = "start"
    /\ HasItsGame(job[h].row)
    /\ Commit(h, "live", job[h].row.game)
    /\ UNCHANGED time

CreateGame(h) ==
    /\ job[h].at = "start"
    /\ ~HasItsGame(job[h].row)
    /\ games' = games + 1
    /\ Hold(h, [at |-> "link", row |-> job[h].row, game |-> games + 1])
    /\ UNCHANGED <<coins, payment, registration, paid, owned, arrived, outdated,
                   match, time, matchRequests, startsOverlap>>

LinkGame(h) ==
    /\ job[h].at = "link"
    /\ Commit(h, "live", job[h].game)
    /\ UNCHANGED time

\* A start that dies with its game made leaves one that nobody is sent to.
HandlerFails(h) ==
    /\ RollBack(h)
    /\ startsOverlap' = (startsOverlap \/ job[h].at = "link")
    /\ UNCHANGED <<match, time, games, matchRequests>>

MatchNext ==
    \E h \in Handlers :
        \/ \E status \in {"accepted", "declined", "cancelled"} : AskTransition(h, status)
        \/ AskReschedule(h)
        \/ AskStart(h)
        \/ Transition(h)
        \/ Reschedule(h)
        \/ StartAgain(h)
        \/ CreateGame(h)
        \/ LinkGame(h)
        \/ HandlerFails(h)

ScheduleNext ==
    \/ WalletNext /\ UNCHANGED matchVars
    \/ MatchNext
    \/ TimePasses

ScheduleSpec == ScheduleInit /\ [][ScheduleNext]_scheduleVars

-----------------------------------------------------------------------------
(* Properties. *)

ScheduleTypeOK ==
    /\ WalletTypeOK
    /\ match \in MatchRows
    /\ games \in Nat
    /\ startsOverlap \in BOOLEAN

\* Starts that do not overlap make one game of a match between them, and a live
\* match has it, whatever late answer to another request is written over them.
OneGamePerMatch ==
    ~startsOverlap =>
        /\ games <= 1
        /\ match.status = "live" => match.game # NoGame

\* Nothing is confirmed without a charge, whatever overtakes what: a payment
\* that succeeded was debited, and so was one behind an active registration, one
\* behind a match that counts as paid, and one behind a live match.
ConfirmedWasCharged ==
    /\ \A p \in Payments : payment[p].status = "succeeded" => p \in Charged
    /\ registration = "active" => Charged \cap EntryPayments # {}
    /\ paid \/ match.status = "live" => Charged \cap MatchPayments # {}
=============================================================================
