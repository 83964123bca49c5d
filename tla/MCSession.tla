----------------------------- MODULE MCSession -----------------------------
(***************************************************************************)
(* Two users, one session each, visiting a page of every kind the guards   *)
(* and the realtime hooks tell apart.                                      *)
(***************************************************************************)
EXTENDS Session, TLC

CONSTANTS a, b, ann, bob

MCOwner == a :> ann @@ b :> bob
MCVisited == {"/", "/login", "/lobby", "/settings"}
=============================================================================
