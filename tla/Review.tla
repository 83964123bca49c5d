------------------------------- MODULE Review -------------------------------
(***************************************************************************)
(* The review of a finished game: the page, a Stockfish worker per review, *)
(* and the report that labels each move by what it cost the player who     *)
(* made it.  The engine scores a position for the side to move; positions  *)
(* are numbered 0 .. Plies[g], white moves in the even ones.  Scores are   *)
(* centipawns of a small set, win probabilities are in permille and, like  *)
(* the accuracies computed from them, tabulated.                           *)
(***************************************************************************)
EXTENDS Naturals, Integers, FiniteSets, Sequences

CONSTANTS
    ReviewedGames,
    NoGameYet,
    Plies,          \* the moves of each game
    Forced,         \* <<game, ply>> of moves without an alternative
    Sacrifices,     \* <<game, ply>> of sacrifices
    Material,       \* simulateEvaluations, for white, of each game
    Centipawns,     \* the engine's scores
    Mated,          \* the score of a mated side
    WinPermille     \* playerWinProbability of a score

ASSUME ReviewAssumption ==
    /\ NoGameYet \notin ReviewedGames
    /\ Plies \in [ReviewedGames -> Nat \ {0}]
    /\ \A g \in ReviewedGames : Len(Material[g]) = Plies[g] + 1
    /\ Centipawns \subseteq Int /\ Mated \notin Centipawns
    /\ DOMAIN WinPermille \subseteq Int
    /\ \A c \in Centipawns \cup {0} : {c, -c} \subseteq DOMAIN WinPermille
    /\ \A c \in DOMAIN WinPermille : WinPermille[c] \in 0..1000
    /\ \A c, d \in DOMAIN WinPermille : c <= d => WinPermille[c] <= WinPermille[d]

VARIABLES
    gameShown,  \* the game of the replay on show, or none
    known,      \* games the query cache holds
    ply,        \* selectedPly: a ply, or "latest"
    review,     \* stockfishState
    run,        \* the scores and choices of the review under way
    jumped      \* another game came on show without a new replay

reviewVars == <<gameShown, known, ply, review, run, jumped>>

(* The positions of a replay: the moves are played in their order.         *)
PositionsOf(g) == 0 .. Plies[g]

NoReview(status) == [status |-> status, of |-> NoGameYet, scores |-> <<>>, best |-> <<>>]
NoRun == [game |-> NoGameYet, scores |-> <<>>, best |-> <<>>]

ReviewInit ==
    /\ gameShown = NoGameYet /\ known = {}
    /\ ply = "latest" /\ review = NoReview("idle")
    /\ run = NoRun /\ jumped = FALSE

-----------------------------------------------------------------------------
(* The report.  A mated side scores "mate 0", which has no sign: 0.        *)
Score(s) == IF s = Mated THEN 0 ELSE s
WhiteToMove(i) == i % 2 = 0

(* Mutant: the engine's score is taken for white's.                        *)
ScoreToWhiteAsIs(i, s) == Score(s)

(* scoreToWhiteCentipawns                                                  *)
ScoreToWhite(i, s) == IF WhiteToMove(i) THEN Score(s) ELSE -Score(s)

Evaluations(scores) == [i \in 1 .. Len(scores) |-> ScoreToWhite(i - 1, scores[i])]

(* moveQualityMetrics of ply i: the mover's win probability before, what   *)
(* it lost, and the centipawns lost.                                       *)
Metrics(evaluations, i) ==
    LET mine(e) == IF WhiteToMove(i - 1) THEN e ELSE -e
        before  == mine(evaluations[i])
        after   == mine(evaluations[i + 1])
        loss    == WinPermille[before] - WinPermille[after]
    IN  [before |-> WinPermille[before],
         loss   |-> IF loss > 0 THEN loss ELSE 0,
         cp     |-> IF before > after THEN before - after ELSE 0]

(* severeCentipawnLossClass                                                *)
SevereClass(q) ==
    IF q.before >= 700 /\ q.loss >= 100 THEN "miss"
    ELSE IF q.cp >= 180 THEN IF q.loss >= 200 THEN "blunder" ELSE "mistake"
    ELSE IF q.loss >= 100 THEN "mistake" ELSE "inaccuracy"

(* The loss that still makes an accuracy of 98, and of 95 percent.         *)
LossOfTwoPercent == 4
LossOfFivePercent == 11

(* classifyMoves; no move is taken from a book.  The accuracies asked for  *)
(* beside the losses never decide.                                         *)
Classify(q, forced, best, sacrifice) ==
    IF forced THEN "forced"
    ELSE IF sacrifice /\ best /\ q.loss <= LossOfTwoPercent THEN "brilliant"
    ELSE IF sacrifice /\ q.loss <= LossOfFivePercent THEN "great"
    ELSE IF best THEN "best"
    ELSE IF q.cp >= 90 THEN SevereClass(q)
    ELSE IF q.loss <= 20 THEN "excellent"
    ELSE IF q.loss <= 60 THEN "good"
    ELSE IF q.loss <= 100 THEN "inaccuracy"
    ELSE IF q.loss <= 200 THEN "mistake"
    ELSE IF q.before >= 700 THEN "miss" ELSE "blunder"

Errors == {"inaccuracy", "mistake", "miss", "blunder"}

(* buildReviewReport: the label of ply i, which lies between evaluations i *)
(* and i + 1; best[i] says that the engine's move was the one played.      *)
Label(g, evaluations, best, i) ==
    Classify(Metrics(evaluations, i), <<g, i>> \in Forced,
             i \in DOMAIN best /\ best[i], <<g, i>> \in Sacrifices)

(* The review on show: Stockfish's once there is one, else the local one   *)
(* by material.                                                            *)
LabelShown(i) ==
    IF review.of # NoGameYet
    THEN Label(review.of, Evaluations(review.scores), review.best, i)
    ELSE Label(gameShown, Material[gameShown], <<>>, i)

-----------------------------------------------------------------------------
(* Another replay, or none: a worker still at work goes on to no effect.   *)
NewReplay ==
    ply' = "latest" /\ review' = NoReview("idle") /\ run' = NoRun /\ jumped' = FALSE

(* The address names a game.  A game that the cache holds comes on show at *)
(* once; where another game's replay is on show, as after a jump through   *)
(* the browser's history, the replay stays and changes its game.           *)
OpenReview(g) ==
    /\ gameShown # g
    /\ gameShown' = g
    /\ known' = known \cup {g}
    /\ IF gameShown # NoGameYet /\ g \in known
       THEN jumped' = TRUE /\ UNCHANGED <<ply, review, run>>
       ELSE NewReplay

CloseReview ==
    /\ gameShown # NoGameYet
    /\ gameShown' = NoGameYet
    /\ NewReplay
    /\ UNCHANGED known

(* goToPly, clamped to the rows on show.                                   *)
GoToPly(i) ==
    /\ gameShown # NoGameYet
    /\ i \in PositionsOf(IF review.of = NoGameYet THEN gameShown ELSE review.of)
    /\ ply' = i
    /\ UNCHANGED <<gameShown, known, review, run, jumped>>

(* runStockfishReview: a worker, for the positions of the game on show.    *)
RunStockfishReview ==
    /\ gameShown # NoGameYet /\ review.status # "running"
    /\ review' = NoReview("running")
    /\ run' = [NoRun EXCEPT !.game = gameShown]
    /\ UNCHANGED <<gameShown, known, ply, jumped>>

Reviewing == review.status = "running"
Reviewed == Len(run.scores)

(* analyzeFen: one position after the other.  Only the last can be mate,   *)
(* and of the last no best move is kept.                                   *)
AnalyzeFen ==
    LET final == Reviewed = Plies[run.game]
    IN  /\ Reviewing /\ Reviewed <= Plies[run.game]
        /\ \E score \in Centipawns \cup (IF final THEN {Mated} ELSE {}), found \in BOOLEAN :
              /\ <<run.game, Reviewed + 1>> \in Forced \/ final => found
              /\ run' = [run EXCEPT !.scores = Append(@, score),
                                    !.best = IF final THEN @ ELSE Append(@, found)]
        /\ UNCHANGED <<gameShown, known, ply, review, jumped>>

(* All positions are done.                                                 *)
ReviewDone ==
    /\ Reviewing /\ Reviewed > Plies[run.game]
    /\ review' = [status |-> "done", of |-> run.game, scores |-> run.scores, best |-> run.best]
    /\ run' = NoRun
    /\ UNCHANGED <<gameShown, known, ply, jumped>>

(* The worker fails, or a line does not come in time.                      *)
ReviewFails ==
    /\ Reviewing
    /\ review' = NoReview("error") /\ run' = NoRun
    /\ UNCHANGED <<gameShown, known, ply, jumped>>

ReviewNext ==
    \/ \E g \in ReviewedGames : OpenReview(g)
    \/ CloseReview \/ RunStockfishReview
    \/ \E g \in ReviewedGames : \E i \in PositionsOf(g) : GoToPly(i)
    \/ AnalyzeFen \/ ReviewDone \/ ReviewFails

-----------------------------------------------------------------------------
(* The review on show is of the game on show, and it is just to both       *)
(* players: by the engine's own scores, taken for the side to move, a move *)
(* that cost its player nothing is not called an error, and one that cost  *)
(* a pawn, and more than five percent, is, unless it was forced or the     *)
(* engine's own choice.  The exceptions are a replay that has changed its  *)
(* game, and the move that mates: its "mate 0" reads as an even position,  *)
(* so that it is a miss for a player who was winning.                      *)
Cost(i) == Score(review.scores[i]) + Score(review.scores[i + 1])
ReviewIsJust ==
    review.of # NoGameYet /\ ~jumped =>
        /\ review.of = gameShown
        /\ \A i \in 1 .. Plies[gameShown] :
              \/ review.scores[i + 1] = Mated
              \/ /\ Cost(i) <= 0 => LabelShown(i) \notin Errors
                 /\ (/\ Cost(i) >= 90 /\ ~review.best[i] /\ <<gameShown, i>> \notin Forced
                     /\ WinPermille[Score(review.scores[i])]
                          - WinPermille[-Score(review.scores[i + 1])] > LossOfFivePercent)
                        => LabelShown(i) \in Errors
=============================================================================
