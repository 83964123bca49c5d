------------------------------- MODULE MCStudy -------------------------------
(***************************************************************************)
(* Study for TLC: a puzzle of three moves, games of two plies and of one,  *)
(* five scores with playerWinProbability's values for them; three coins,   *)
(* an entry and a match that cost two and one, a board for two coins and a *)
(* token that costs one each time.                                         *)
(***************************************************************************)
EXTENDS Study, TLC

CONSTANTS pz1, r1, r2, entry, fee, board, token, h1, h2

MCSolutionLength == pz1 :> 3
MCPlies == r1 :> 2 @@ r2 :> 1
MCForced == {<<r2, 1>>}
MCSacrifices == {<<r1, 2>>}
MCMaterial == r1 :> <<0, 0, 60>> @@ r2 :> <<0, -60>>
MCCentipawns == {-300, -60, 0, 60, 300}
MCWinPermille == -300 :> 249 @@ -60 :> 445 @@ 0 :> 500 @@ 60 :> 555 @@ 300 :> 751
MCHandlers == {h1, h2}
MCAmount == entry :> 2 @@ fee :> 1
MCPrice == board :> 2 @@ token :> 1
Symmetry == Permutations(MCHandlers)
=============================================================================
