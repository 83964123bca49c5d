----------------------------- MODULE Tournament -----------------------------
(***************************************************************************)
(* One Swiss tournament, every operation of TournamentService in one step, *)
(* with the two operations of PaymentService that reach into its players.  *)
(*                                                                         *)
(* Abstractions.  A game is known by its pairing and is over when the      *)
(* handler that ended it synchronises the result.  An entrant is a user    *)
(* with an account, or one of Otb, whom only the owner can enter.  Names,  *)
(* fees and timestamps are left out.  changes bounds what the owner, the   *)
(* players and the payments may change at will.                            *)
(***************************************************************************)
EXTENDS Swiss

CONSTANTS
    Owner,          \* the entrant who created the tournament
    Otb,            \* the entrants without an account
    MaxRounds,      \* bound on the rounds the owner asks for
    MaxChanges      \* bound on the changes

ASSUME TournamentAssumption ==
    /\ Owner \in Entrants \ Otb
    /\ Otb \subseteq Entrants
    /\ MaxRounds \in Nat
    /\ MaxChanges \in Nat

VARIABLES
    tournament,     \* the row of tournaments
    players,        \* the row of tournament_players of each entrant
    pairings,       \* the rows of tournament_pairings, by id
    changes,
    reopened        \* the owner took a running tournament back to registration

vars == <<tournament, players, pairings, changes, reopened>>

Startable == {"registration", "registration_closed"}
Statuses == Startable \cup {"published", "active", "finished", "cancelled"}
NotEntered == [status |-> "none", score |-> 0]
Entered == [status |-> "active", score |-> 0]

IsEntered(u) == players[u].status # "none"

\* create_tournament enters the owner; 0 rounds leave the number to the start.
Init ==
    /\ tournament \in [status : {"registration"}, current_round : {0},
                       total_rounds : 0..MaxRounds]
    /\ players = [u \in Entrants |-> IF u = Owner THEN Entered ELSE NotEntered]
    /\ pairings = <<>>
    /\ changes = 0
    /\ reopened = FALSE

Change == changes < MaxChanges /\ changes' = changes + 1

-----------------------------------------------------------------------------
(* Entering and leaving. *)

RegistrationIsOpen == tournament.status = "registration"

Join(u) ==
    /\ RegistrationIsOpen
    /\ u \notin Otb /\ ~IsEntered(u)
    /\ players' = [players EXCEPT ![u] = Entered]
    /\ UNCHANGED <<tournament, pairings, changes, reopened>>

AddOtbPlayer(u) ==
    /\ RegistrationIsOpen
    /\ u \in Otb /\ ~IsEntered(u)
    /\ players' = [players EXCEPT ![u] = Entered]
    /\ UNCHANGED <<tournament, pairings, changes, reopened>>

Leave(u) ==
    /\ RegistrationIsOpen
    /\ u # Owner /\ u \notin Otb /\ IsEntered(u)
    /\ Change
    /\ players' = [players EXCEPT ![u] = NotEntered]
    /\ UNCHANGED <<tournament, pairings, reopened>>

\* By the player or the owner, in any status of the tournament; a refunded
\* entry payment does the same (apply_refund_to_registration).
Withdraw(u) ==
    /\ IsEntered(u)
    /\ Change
    /\ players' = [players EXCEPT ![u].status = "withdrawn"]
    /\ UNCHANGED <<tournament, pairings, reopened>>

\* A paid entry registers the user or brings him back, in any status.
ConfirmRegistration(u) ==
    /\ u \notin Otb
    /\ Change
    /\ players' = [players EXCEPT ![u].status = "active"]
    /\ UNCHANGED <<tournament, pairings, reopened>>

-----------------------------------------------------------------------------
(* What the owner may set. *)

UpdateTournament(rounds) ==
    /\ Change
    /\ tournament' = [tournament EXCEPT !.total_rounds = rounds]
    /\ UNCHANGED <<players, pairings, reopened>>

\* Any of the statuses with a route, from any status.
SetStatus(status) ==
    /\ Change
    /\ tournament' = [tournament EXCEPT !.status = status]
    /\ reopened' = (reopened \/ (tournament.current_round > 0 /\ status \in Startable))
    /\ UNCHANGED <<players, pairings>>

-----------------------------------------------------------------------------
(* Rounds. *)

\* Mutant: whoever withdrew is paired too.
PresentOrWithdrawn(entered) == {u \in Entrants : entered[u].status # "none"}

Present(entered) == {u \in Entrants : entered[u].status = "active"}

\* _create_round_pairings for the active entrants: a bye is a win at once.
CreateRoundPairings(round, entered, prior) ==
    LET score == [u \in Entrants |-> entered[u].score]
        row(a) == [round |-> round, white |-> a.white, black |-> a.black,
                   result |-> IF a.black = Nobody THEN "1-0" ELSE "none"]
    IN  \E made \in {GenerateSwissPairings(Present(entered), prior, round, score)} :
            /\ pairings' = prior \o [i \in DOMAIN made |-> row(made[i])]
            /\ players' = [u \in Entrants |->
                    IF u \in ByeRecipients(made) THEN [entered[u] EXCEPT !.score = @ + 2]
                                                 ELSE entered[u]]

\* Mutant: a tournament is started whatever its status.
StartAnyTime ==
    LET rounds == IF tournament.total_rounds # 0 THEN tournament.total_rounds
                                                 ELSE SwissRoundCount(Cardinality(Present(players)))
    IN  /\ rounds # 0
        /\ Len(pairings) <= Cardinality(Entrants)
        /\ tournament' = [status |-> "active", current_round |-> 1, total_rounds |-> rounds]
        /\ CreateRoundPairings(1, players, pairings)
        /\ UNCHANGED <<changes, reopened>>

StartTournament ==
    LET rounds == IF tournament.total_rounds # 0 THEN tournament.total_rounds
                                                 ELSE SwissRoundCount(Cardinality(Present(players)))
    IN  /\ tournament.status \in Startable
        /\ rounds # 0
        /\ tournament' = [status |-> "active", current_round |-> 1, total_rounds |-> rounds]
        /\ CreateRoundPairings(1, players, pairings)
        /\ UNCHANGED <<changes, reopened>>

\* Mutant: the pairings as they were before the result was saved.
WasComplete(rows, round) ==
    \A i \in DOMAIN pairings : pairings[i].round = round => pairings[i].result # "none"

IsComplete(rows, round) ==
    \A i \in DOMAIN rows : rows[i].round = round => rows[i].result # "none"

IsLast(round) == round >= tournament.total_rounds

\* _advance_if_round_complete, on the players and pairings it then reads.
AdvanceIfRoundComplete(entered, rows) ==
    LET round == tournament.current_round
    IN  IF tournament.status # "active" \/ ~IsComplete(rows, round)
        THEN /\ players' = entered
             /\ pairings' = rows
             /\ UNCHANGED tournament
        ELSE IF IsLast(round)
        THEN /\ tournament' = [tournament EXCEPT !.status = "finished"]
             /\ players' = entered
             /\ pairings' = rows
        ELSE /\ tournament' = [tournament EXCEPT !.current_round = round + 1]
             /\ CreateRoundPairings(round + 1, entered, rows)

AdvanceTournament ==
    /\ tournament.status = "active"
    /\ IsComplete(pairings, tournament.current_round)
    /\ AdvanceIfRoundComplete(players, pairings)
    /\ UNCHANGED <<changes, reopened>>

\* An aborted game ("none") is a draw.
ResolvePairingResult(gameResult) ==
    IF gameResult = "none" THEN "1/2-1/2" ELSE gameResult

\* Mutant: white's score only.
ApplyToWhite(row) ==
    [players EXCEPT ![row.white].score = @ + ScoreForResult(row.result)[1]]

ApplyPairingResult(row) ==
    [players EXCEPT ![row.white].score = @ + ScoreForResult(row.result)[1],
                    ![row.black].score = @ + ScoreForResult(row.result)[2]]

\* sync_game_result by whoever ended the game.  The result is saved before a
\* player who is no longer there (TournamentPlayerNotFound) stops the rest.
SyncGameResult(i, gameResult) ==
    LET row == [pairings[i] EXCEPT !.result = ResolvePairingResult(gameResult)]
        rows == [pairings EXCEPT ![i] = row]
    IN  /\ pairings[i].black # Nobody /\ pairings[i].result = "none"
        /\ IF row.result = "none"
           THEN UNCHANGED <<tournament, players, pairings>>
           ELSE IF IsEntered(row.white) /\ IsEntered(row.black)
           THEN AdvanceIfRoundComplete(ApplyPairingResult(row), rows)
           ELSE pairings' = rows /\ UNCHANGED <<tournament, players>>
        /\ UNCHANGED <<changes, reopened>>

GameResults == {"1-0", "0-1", "1/2-1/2", "none"}

GameEnds ==
    \E i \in DOMAIN pairings : \E result \in GameResults : SyncGameResult(i, result)

Next ==
    \/ \E u \in Entrants :
        \/ Join(u)
        \/ AddOtbPlayer(u)
        \/ Leave(u)
        \/ Withdraw(u)
        \/ ConfirmRegistration(u)
    \/ \E rounds \in 1..MaxRounds : UpdateTournament(rounds)
    \/ \E status \in Statuses \ {"active"} : SetStatus(status)
    \/ StartTournament
    \/ AdvanceTournament
    \/ GameEnds

Spec == Init /\ [][Next]_vars

-----------------------------------------------------------------------------
(* Properties. *)

Pairings == [round : Nat \ {0}, white : Entrants, black : Entrants \cup {Nobody},
             result : {"1-0", "0-1", "1/2-1/2", "none"}]

TypeOK ==
    /\ tournament \in [status : Statuses, current_round : Nat, total_rounds : Nat]
    /\ players \in [Entrants -> [status : {"none", "active", "withdrawn"}, score : Nat]]
    /\ pairings \in Seq(Pairings)
    /\ changes \in 0..MaxChanges
    /\ reopened \in BOOLEAN

IsIn(u, row) == u \in {row.white, row.black}
PointsIn(u, row) ==
    LET points == ScoreForResult(row.result)
    IN  IF row.white = u THEN points[1] ELSE IF row.black = u THEN points[2] ELSE 0

\* The sum of what the rows brought u, in half points.
Brought(u, rows, points) == {i \in DOMAIN rows : PointsIn(u, rows[i]) = points}
Earned(u, rows) == 2 * Cardinality(Brought(u, rows, 2)) + Cardinality(Brought(u, rows, 1))

\* The standings show what was played: however entries, withdrawals, late paid
\* entries, byes and aborted games are mixed, a player's score is the sum of the
\* results of his pairings.
ScoresMatchResults ==
    ~reopened => \A u \in Entrants : IsEntered(u) => players[u].score = Earned(u, pairings)

\* Nobody is paired twice in a round, unless the owner reopened the registration.
OncePerRound ==
    ~reopened =>
        \A i, j \in DOMAIN pairings : \A u \in Entrants :
            i # j /\ IsIn(u, pairings[i]) /\ IsIn(u, pairings[j])
                => pairings[i].round # pairings[j].round

Made == {i \in DOMAIN pairings' : i > Len(pairings)}

\* A new round pairs every active player exactly once, and nobody else.
NewRoundPairsTheActive ==
    [][pairings' # pairings /\ Made # {} =>
        \A u \in Entrants :
            Cardinality({i \in Made : IsIn(u, pairings'[i])})
                = IF players'[u].status = "active" THEN 1 ELSE 0]_vars

PairAt(i) == {pairings'[i].white, pairings'[i].black} \ {Nobody}
GamesMade == {i \in Made : pairings'[i].black # Nobody}

\* Those who get a game in the new round, and the first of them in the standings.
Playing == UNION {PairAt(i) : i \in GamesMade}
ScoreBefore == [u \in Entrants |-> players'[u].score]
Leader == Standings(Playing, ScoreBefore)[1]
LeadersOpponents ==
    (UNION {PairAt(i) : i \in {j \in GamesMade : Leader \in PairAt(j)}}) \ {Leader}
NewToLeader == {u \in Playing : u # Leader /\ {u, Leader} \notin Rematches(pairings)}

\* Nobody sits out again as long as somebody present has not yet.
ByesGoAround ==
    [][pairings' # pairings =>
        \A i \in Made : pairings'[i].black = Nobody /\ pairings'[i].white \in ByeRecipients(pairings)
            => \A u \in Entrants :
                players'[u].status = "active" => u \in ByeRecipients(pairings)]_vars

HasGame(round) ==
    \E i \in DOMAIN pairings : pairings[i].round = round /\ pairings[i].black # Nobody

\* Whoever reports the last result of a round takes the tournament on: a running
\* round whose games are all decided had none, and waits for the owner.
DecidedRoundIsLeft ==
    tournament.status = "active" /\ ~reopened /\ IsComplete(pairings, tournament.current_round)
        => ~HasGame(tournament.current_round)

\* Pairings are managed by the Swiss system (TournamentDetailPage.tsx:300): of
\* those he has not met, the leader gets one nearest to him in score.
LeaderMeetsNearest ==
    [][pairings' # pairings /\ GamesMade # {} =>
        \A o \in LeadersOpponents \cap NewToLeader : \A other \in NewToLeader :
            Gap(ScoreBefore, Leader, o) <= Gap(ScoreBefore, Leader, other)]_vars
=============================================================================
