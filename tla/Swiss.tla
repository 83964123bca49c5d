------------------------------- MODULE Swiss -------------------------------
(***************************************************************************)
(* The pure Swiss helpers (backend/domains/tournaments/domain/services.py).*)
(*                                                                         *)
(* Abstractions.  Scores count half points.  Seed ratings are all          *)
(* different, so that joined_at and the user id never break a tie.  A row  *)
(* of tournament_pairings is a record; prior is the sequence of rows.      *)
(***************************************************************************)
EXTENDS Integers, FiniteSets, Sequences, SequencesExt

CONSTANTS
    Entrants,       \* the users who may enter
    SeedRating      \* a seed_rating for each

Nobody == "nobody"

ASSUME SwissAssumption ==
    /\ IsFiniteSet(Entrants)
    /\ Nobody \notin Entrants
    /\ SeedRating \in [Entrants -> Nat]
    /\ \A p, q \in Entrants : SeedRating[p] = SeedRating[q] => p = q

\* math.ceil(math.log2(n)) is the number of powers of two below n: at least 1 for
\* two players.
SwissRoundCount(n) == IF n < 2 THEN 0 ELSE Cardinality({k \in 0..n : 2^k < n})

\* What white and black score, in half points.
ScoreForResult(result) ==
    CASE result = "1-0"     -> <<2, 0>>
      [] result = "0-1"     -> <<0, 2>>
      [] result = "1/2-1/2" -> <<1, 1>>
      [] OTHER              -> <<0, 0>>

StandsBefore(score, p, q) ==
    \/ score[p] > score[q]
    \/ score[p] = score[q] /\ SeedRating[p] > SeedRating[q]

\* sort_players_for_standings
Standings(players, score) ==
    [rank \in 1..Cardinality(players) |->
        CHOOSE p \in players :
            Cardinality({q \in players : StandsBefore(score, q, p)}) = rank - 1]

Rematches(prior) ==
    {{prior[i].white, prior[i].black} : i \in {j \in DOMAIN prior : prior[j].black # Nobody}}
ByeRecipients(prior) ==
    {prior[i].white : i \in {j \in DOMAIN prior : prior[j].black = Nobody}}

\* A bye counts as a game with white.
ColorBalance(prior, p) ==
    Cardinality({i \in DOMAIN prior : prior[i].white = p})
        - Cardinality({i \in DOMAIN prior : prior[i].black = p})

\* Mutant: the last player gets the bye, whoever had one before.
ChooseLastForBye(ranked, recipients) == Len(ranked)

\* The lowest player without a bye, the lowest of all when everybody had one.
ChooseByePlayer(ranked, recipients) ==
    LET without == {i \in DOMAIN ranked : ranked[i] \notin recipients}
    IN  IF without = {} THEN Len(ranked) ELSE Max(without)

Gap(score, p, q) ==
    IF score[p] >= score[q] THEN score[p] - score[q] ELSE score[q] - score[p]

\* The scan keeps the place of the candidate of the smallest gap, except that a
\* gap of zero is falsy in `preferred_score_gap or float("inf")` and gives way to
\* any other.  The place is 0 as long as all are rematches.
Preferred(p, candidates, rematches, score) ==
    LET gap(i) == Gap(score, p, candidates[i])
        preferred[i \in 0..Len(candidates)] ==
            IF i = 0 THEN 0
            ELSE IF /\ {p, candidates[i]} \notin rematches
                    /\ \/ preferred[i - 1] = 0
                       \/ gap(preferred[i - 1]) = 0
                       \/ gap(i) < gap(preferred[i - 1])
            THEN i
            ELSE preferred[i - 1]
    IN  preferred

ChooseOpponentIndex(p, candidates, rematches, score) ==
    LET last == Preferred(p, candidates, rematches, score)[Len(candidates)]
    IN  IF last = 0 THEN 1 ELSE last

\* Mutant: the higher player has white in every odd round.
AssignColorsByRound(p, q, round, prior) ==
    IF round % 2 = 1 THEN [white |-> p, black |-> q] ELSE [white |-> q, black |-> p]

\* White for whoever had it less; otherwise the higher player in odd rounds.
AssignColors(p, q, round, prior) ==
    LET first == ColorBalance(prior, p)
        second == ColorBalance(prior, q)
    IN  IF first < second \/ (first = second /\ round % 2 = 1)
        THEN [white |-> p, black |-> q]
        ELSE [white |-> q, black |-> p]

\* The highest player left takes an opponent among the others who are left.
Opponent(left, rematches, score) == ChooseOpponentIndex(left[1], Tail(left), rematches, score)

\* Those left to be paired after each pair that is made.
LeftAfter(ranked, rematches, score) ==
    LET left[n \in 0..(Len(ranked) \div 2)] ==
            IF n = 0 THEN ranked
            ELSE RemoveAt(Tail(left[n - 1]), Opponent(left[n - 1], rematches, score))
    IN  left

\* The pairs of a round, in the order in which they are made.
PairOff(ranked, prior, round, score) ==
    LET left == LeftAfter(ranked, Rematches(prior), score)
        opponent(n) == Tail(left[n])[Opponent(left[n], Rematches(prior), score)]
    IN  [n \in 1..(Len(ranked) \div 2) |->
            AssignColors(left[n - 1][1], opponent(n - 1), round, prior)]

GenerateSwissPairings(players, prior, round, score) ==
    LET ranked == Standings(players, score)
        bye == ChooseByePlayer(ranked, ByeRecipients(prior))
    IN  IF Len(ranked) % 2 = 1
        THEN <<[white |-> ranked[bye], black |-> Nobody]>>
                \o PairOff(RemoveAt(ranked, bye), prior, round, score)
        ELSE PairOff(ranked, prior, round, score)
=============================================================================
