-------------------------------- MODULE Study --------------------------------
(***************************************************************************)
(* What goes on beside the games: the puzzle trainer, the review of a      *)
(* finished game, the desk of lists and forms, and on the server a user's  *)
(* wallet with a scheduled match.  They share no state, since their keys   *)
(* in the query cache and their rows differ, and one at a time is open.    *)
(***************************************************************************)
EXTENDS Puzzle, Review, Desk, ScheduledMatch

VARIABLE open  \* the part that is open

studyVars == <<open, puzzleVars, reviewVars, deskVars, scheduleVars>>

StudyInit ==
    /\ open \in {"puzzle", "review", "desk", "wallet"}
    /\ PuzzleInit /\ ReviewInit /\ DeskInit /\ ScheduleInit
    /\ open # "desk" => corner = CHOOSE c \in Corners : TRUE
    /\ open # "wallet" => time = "now"

StudyNext ==
    \/ open = "puzzle" /\ PuzzleNext /\ UNCHANGED <<open, reviewVars, deskVars, scheduleVars>>
    \/ open = "review" /\ ReviewNext /\ UNCHANGED <<open, puzzleVars, deskVars, scheduleVars>>
    \/ open = "desk" /\ DeskNext /\ UNCHANGED <<open, puzzleVars, reviewVars, scheduleVars>>
    \/ open = "wallet" /\ ScheduleNext /\ UNCHANGED <<open, puzzleVars, reviewVars, deskVars>>

StudySpec == StudyInit /\ [][StudyNext]_studyVars
=============================================================================
