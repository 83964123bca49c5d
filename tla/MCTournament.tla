--------------------------- MODULE MCTournament ---------------------------
(***************************************************************************)
(* Entrants rated alpha above beta above gamma and so on; alpha owns the   *)
(* tournament.                                                             *)
(***************************************************************************)
EXTENDS Tournament, TLC

CONSTANTS alpha, beta, gamma, delta, epsilon

Rated == alpha :> 1800 @@ beta :> 1700 @@ gamma :> 1600 @@ delta :> 1500 @@ epsilon :> 1400
MCSeedRating == [u \in Entrants |-> Rated[u]]
=============================================================================
