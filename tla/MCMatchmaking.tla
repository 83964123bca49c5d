--------------------------- MODULE MCMatchmaking ---------------------------
(***************************************************************************)
(* Three players of which two pairs are within the threshold and one is    *)
(* not, so that the player in the middle is whom both others look for.     *)
(***************************************************************************)
EXTENDS Matchmaking, TLC

CONSTANTS low, middle, high

MCPlayers == {low, middle, high}
MCRating == low :> 1000 @@ middle :> 1150 @@ high :> 1300
=============================================================================
