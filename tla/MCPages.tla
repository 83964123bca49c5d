------------------------------- MODULE MCPages -------------------------------
(***************************************************************************)
(* Pages for TLC: three positions in a row, the last one final; the source *)
(* game has one move, and a FEN and a move after it can be pasted.         *)
(***************************************************************************)
EXTENDS Pages, TLC

CONSTANTS p0, p1, p2, step

MCAfter == p0 :> (step :> p1) @@ p1 :> (step :> p2) @@ p2 :> <<>>
MCBest == p0 :> step @@ p1 :> step @@ p2 :> NoMove
MCSource == <<step>>
MCPasted == {[root |-> p1, line |-> <<step>>]}
=============================================================================
