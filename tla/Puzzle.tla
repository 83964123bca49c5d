------------------------------- MODULE Puzzle -------------------------------
(***************************************************************************)
(* The puzzle trainer: the workspace of one puzzle, the queries for        *)
(* puzzles and for the catalog with the cache they fill, the reports of    *)
(* attempts, and the server's record of them, which a report reads and     *)
(* later writes back.  The solution is known to the page; a move is right  *)
(* or wrong.                                                               *)
(***************************************************************************)
EXTENDS Naturals, FiniteSets

CONSTANTS
    Puzzles,
    NoPuzzle,
    SolutionLength, \* the moves of each solution, replies included
    MaxReports,     \* bound on the attempts reported
    MaxGets         \* bound on the queries in flight when the user goes on

ASSUME PuzzleAssumption ==
    /\ Puzzles \cap {NoPuzzle, "random", "catalog", "away"} = {}
    /\ SolutionLength \in [Puzzles -> Nat \ {0}]
    /\ MaxReports \in Nat /\ MaxGets \in Nat

VARIABLES
    attempts,  \* the server's rows
    chosen,    \* the address: a puzzle, "random", or "away" from the page
    trainer,   \* the workspace on show
    details,   \* the cached answers about puzzles
    catalog,   \* the cached answer about the catalog
    gets,      \* GET requests in flight
    reports,   \* POST requests in flight
    reported,  \* how many there were
    contended, \* puzzles two reports of which overlapped, or one failed
    overtaken  \* puzzles whose report was answered before an older catalog

puzzleVars == <<attempts, chosen, trainer, details, catalog, gets, reports, reported,
                contended, overtaken>>

(* An attempt; last_result is "failed" in all that are not solved.         *)
Fresh == [count |-> 0, solved |-> FALSE]
Absent == [puzzle \in {} |-> Fresh]

(* A workspace just mounted for p, with the attempt its puzzle came with.  *)
PuzzleWorkspace(p, attempt) ==
    [puzzle |-> p, index |-> 0, state |-> "ready", failureReported |-> FALSE,
     replying |-> FALSE, attempt |-> attempt, heard |-> FALSE]
Unmounted == PuzzleWorkspace(NoPuzzle, Fresh)

Get(what, exclude) == [what |-> what, exclude |-> exclude, served |-> FALSE,
                       rows |-> Absent, passed |-> {}]

PuzzleInit ==
    /\ attempts = [p \in Puzzles |-> Fresh]
    /\ chosen = "away" /\ trainer = Unmounted
    /\ details = Absent /\ catalog = Absent
    /\ gets = {} /\ reports = {} /\ reported = 0
    /\ contended = {} /\ overtaken = {}

-----------------------------------------------------------------------------
(* A query that is stale is asked again, unless it is being asked.         *)
Asking(what, exclude) ==
    gets \cup (IF \E g \in gets : g.what = what THEN {} ELSE {Get(what, exclude)})

(* Another workspace is on show, or none: the timer of the old one goes,   *)
(* and the answers to its reports will not be seen.                        *)
Show(workspace) ==
    /\ trainer' = workspace
    /\ reports' = {[r EXCEPT !.live = FALSE] : r \in reports}

(* /puzzles/:puzzleId.  A cached answer is shown at once and asked for     *)
(* again, and the workspace keeps the attempt of the first answer.         *)
SelectPuzzle(p) ==
    /\ chosen # p
    /\ Cardinality(gets) <= MaxGets
    /\ chosen' = p
    /\ gets' = Asking(p, NoPuzzle)
    /\ IF p \in DOMAIN details
       THEN IF trainer.puzzle = p THEN UNCHANGED <<trainer, reports>>
            ELSE Show(PuzzleWorkspace(p, details[p]))
       ELSE Show(Unmounted)
    /\ UNCHANGED <<attempts, details, catalog, reported, contended, overtaken>>

(* handleLoadRandomPuzzle, and /puzzles itself.                            *)
LoadRandomPuzzle ==
    /\ Cardinality(gets) <= MaxGets
    /\ chosen' = "random"
    /\ gets' = {g \in gets : g.what # "random"} \cup {Get("random", trainer.puzzle)}
    /\ Show(Unmounted)
    /\ UNCHANGED <<attempts, details, catalog, reported, contended, overtaken>>

LeavePuzzles ==
    /\ chosen # "away"
    /\ chosen' = "away"
    /\ Show(Unmounted)
    /\ UNCHANGED <<attempts, details, catalog, gets, reported, contended, overtaken>>

AskCatalog ==
    /\ chosen # "away"
    /\ ~\E g \in gets : g.what = "catalog"
    /\ Cardinality(gets) <= MaxGets
    /\ gets' = Asking("catalog", NoPuzzle)
    /\ UNCHANGED <<attempts, chosen, trainer, details, catalog, reports, reported,
                   contended, overtaken>>

(* The answer about a puzzle.  It is taken to be read when it arrives: how *)
(* old an attempt can be that way, the cache can make it, too.             *)
PuzzleArrives(g) ==
    /\ g.what \in Puzzles
    /\ gets' = gets \ {g}
    /\ details' = [p \in DOMAIN details \cup {g.what} |->
                       IF p = g.what THEN attempts[p] ELSE details[p]]
    /\ IF chosen = g.what /\ trainer.puzzle # g.what
       THEN Show(PuzzleWorkspace(g.what, attempts[g.what]))
       ELSE UNCHANGED <<trainer, reports>>
    /\ UNCHANGED <<attempts, chosen, catalog, reported, contended, overtaken>>

(* Any puzzle but the excluded one.                                        *)
RandomArrives(g) ==
    /\ g.what = "random"
    /\ gets' = gets \ {g}
    /\ IF chosen = "random"
       THEN \E p \in Puzzles \ {g.exclude} : Show(PuzzleWorkspace(p, attempts[p]))
       ELSE UNCHANGED <<trainer, reports>>
    /\ UNCHANGED <<attempts, chosen, details, catalog, reported, contended, overtaken>>

CatalogServed(g) ==
    /\ g.what = "catalog" /\ ~g.served
    /\ gets' = (gets \ {g}) \cup {[g EXCEPT !.served = TRUE, !.rows = attempts]}
    /\ UNCHANGED <<attempts, chosen, trainer, details, catalog, reports, reported,
                   contended, overtaken>>

CatalogArrives(g) ==
    /\ g.served
    /\ gets' = gets \ {g}
    /\ catalog' = g.rows
    /\ overtaken' = g.passed
    /\ UNCHANGED <<attempts, chosen, trainer, details, reports, reported, contended>>

GetFails(g) ==
    /\ gets' = gets \ {g}
    /\ UNCHANGED <<attempts, chosen, trainer, details, catalog, reports, reported,
                   contended, overtaken>>

-----------------------------------------------------------------------------
ReportsOf(p) == {r \in reports : r.puzzle = p}

(* reportAttempt; nobody waits for the answer.                             *)
ReportAttempt(result) ==
    /\ reported < MaxReports
    /\ reported' = reported + 1
    /\ reports' = reports \cup
           {[id |-> reported', puzzle |-> trainer.puzzle, result |-> result,
             stage |-> "sent", row |-> Fresh, live |-> TRUE]}
    /\ contended' = contended \cup
           (IF ReportsOf(trainer.puzzle) # {} THEN {trainer.puzzle} ELSE {})

(* The move that brings the line to index i; the last one completes it.    *)
Advance(i) ==
    LET p == trainer.puzzle
    IN  IF i >= SolutionLength[p]
        THEN /\ trainer' = [trainer EXCEPT !.index = i, !.replying = FALSE, !.state = "solved"]
             /\ ReportAttempt("solved")
        ELSE /\ trainer' = [trainer EXCEPT !.index = i, !.replying = (i % 2 = 1)]
             /\ UNCHANGED <<reports, reported, contended>>

MayMove == trainer.puzzle # NoPuzzle /\ ~trainer.replying /\ trainer.state # "solved"

(* handleSolvedMove                                                        *)
MoveRight ==
    /\ MayMove
    /\ Advance(trainer.index + 1)
    /\ UNCHANGED <<attempts, chosen, details, catalog, gets, overtaken>>

(* The first wrong move since the last reset is reported.                  *)
MoveWrong ==
    /\ MayMove
    /\ trainer' = [trainer EXCEPT !.state = "failed", !.failureReported = TRUE]
    /\ IF trainer.failureReported THEN UNCHANGED <<reports, reported, contended>>
       ELSE ReportAttempt("failed")
    /\ UNCHANGED <<attempts, chosen, details, catalog, gets, overtaken>>

(* autoPlayReplies, half a second later.                                   *)
AutoPlayReplies ==
    /\ trainer.replying
    /\ Advance(trainer.index + 1)
    /\ UNCHANGED <<attempts, chosen, details, catalog, gets, overtaken>>

(* resetPuzzle, which keeps the attempt on show.                           *)
ResetPuzzle ==
    /\ trainer.puzzle # NoPuzzle
    /\ trainer' = [PuzzleWorkspace(trainer.puzzle, trainer.attempt) EXCEPT !.heard = trainer.heard]
    /\ UNCHANGED <<attempts, chosen, details, catalog, gets, reports, reported, contended,
                   overtaken>>

-----------------------------------------------------------------------------
(* PuzzleAttemptState.record                                               *)
Record(row, result) ==
    [count |-> row.count + 1, solved |-> row.solved \/ result = "solved"]

(* record_attempt: get_attempt, then save_attempt.                         *)
GetAttempt(r) ==
    /\ r.stage = "sent"
    /\ reports' = (reports \ {r}) \cup
           {[r EXCEPT !.stage = "read", !.row = Record(attempts[r.puzzle], r.result)]}
    /\ UNCHANGED <<attempts, chosen, trainer, details, catalog, gets, reported, contended,
                   overtaken>>

SaveAttempt(r) ==
    /\ r.stage = "read"
    /\ reports' = (reports \ {r}) \cup {[r EXCEPT !.stage = "saved"]}
    /\ attempts' = [attempts EXCEPT ![r.puzzle] = r.row]
    /\ UNCHANGED <<chosen, trainer, details, catalog, gets, reported, contended, overtaken>>

(* Mutant: the catalog is not told.                                        *)
ToCatalogNever(r) == UNCHANGED <<catalog, gets, overtaken>>

(* onSuccess: the cached catalog gets the new attempt; a catalog on its    *)
(* way will replace it.                                                    *)
ToCatalog(r) ==
    /\ catalog' = [p \in DOMAIN catalog |-> IF p = r.puzzle THEN r.row ELSE catalog[p]]
    /\ overtaken' = overtaken \ {r.puzzle}
    /\ gets' = {[g EXCEPT !.passed = IF g.what = "catalog" THEN @ \cup {r.puzzle} ELSE @] :
                    g \in gets}

(* The answer, to the catalog and to the workspace it was reported from.   *)
AttemptAnswered(r) ==
    /\ r.stage = "saved"
    /\ reports' = reports \ {r}
    /\ ToCatalog(r)
    /\ trainer' = IF r.live THEN [trainer EXCEPT !.attempt = r.row, !.heard = TRUE] ELSE trainer
    /\ UNCHANGED <<attempts, chosen, details, reported, contended>>

(* The request or its answer is lost.                                      *)
AttemptFails(r) ==
    /\ reports' = reports \ {r}
    /\ contended' = contended \cup {r.puzzle}
    /\ UNCHANGED <<attempts, chosen, trainer, details, catalog, gets, reported, overtaken>>

PuzzleNext ==
    \/ \E p \in Puzzles : SelectPuzzle(p)
    \/ LoadRandomPuzzle \/ LeavePuzzles \/ AskCatalog
    \/ \E g \in gets : PuzzleArrives(g) \/ RandomArrives(g) \/ CatalogServed(g)
                          \/ CatalogArrives(g) \/ GetFails(g)
    \/ MoveRight \/ MoveWrong \/ AutoPlayReplies \/ ResetPuzzle
    \/ \E r \in reports : GetAttempt(r) \/ SaveAttempt(r) \/ AttemptAnswered(r)
                             \/ AttemptFails(r)

-----------------------------------------------------------------------------
(* With no report of a puzzle under way, the workspace that has heard of   *)
(* one and the catalog show the attempt the server has.  Three things      *)
(* only can keep them from that: reports that overlapped (the server may   *)
(* even lose one: a failure read before a solution is saved unsolves the   *)
(* puzzle), a lost report, and a catalog older than the answer it follows. *)
AttemptsAreShown ==
    \A p \in Puzzles \ contended :
        ReportsOf(p) = {} =>
            /\ trainer.puzzle = p /\ trainer.heard => trainer.attempt = attempts[p]
            /\ p \in DOMAIN catalog => catalog[p] = attempts[p] \/ p \in overtaken
=============================================================================
