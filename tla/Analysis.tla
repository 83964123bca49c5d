------------------------------ MODULE Analysis ------------------------------
(***************************************************************************)
(* The analysis board: the workspace (a root position, a line of moves, an *)
(* index, an editor) and the hook that has a Stockfish worker search the   *)
(* position on the board.  The worker reads commands and writes lines, in  *)
(* order; React runs the effects of a change in the step that makes it.    *)
(* A position is a model value; After[p] maps the moves playable in p to   *)
(* the positions they lead to, and Best[p] is the engine's choice.         *)
(***************************************************************************)
EXTENDS Naturals, SequencesExt

CONSTANTS
    Positions,
    NoFen,       \* no position: an editor setup that is no FEN, a null
    Start,       \* STANDARD_START_FEN
    After,
    Best,        \* the engine's move, or NoMove in a final position
    NoMove,
    Eligible,    \* positions that getAnalysisEligibility lets through
    SourceLine,  \* the moves of the game that ?gameId names
    Pasted,      \* FENs and PGNs at hand: [root, line] records
    MaxEngineMessages  \* bound on the commands and lines in flight when the user acts

ASSUME AnalysisAssumption ==
    /\ NoFen \notin Positions /\ Start \in Positions /\ Eligible \subseteq Positions
    /\ {"off", "starting", "idle", "dead", "uci", "isready", "stop"} \cap Positions = {}
    /\ \A p \in Positions : Best[p] \in DOMAIN After[p] \cup {NoMove}

VARIABLES
    study,         \* the workspace, a record
    sourceGame,    \* the source game's query: none, asked or there
    studying,      \* the page is mounted
    engine,        \* the worker: off, starting, idle, dead or the position searched
    toEngine,      \* commands posted
    fromEngine,    \* lines posted
    isEngineReady,
    searchTimer,   \* the debounced position, or NoFen
    queuedSearch,  \* queuedSearchRef
    isSearchActive,
    currentFenRef,
    tracking,
    analysis,      \* status, the best move and the position its lines are about
    overlapped     \* a timer asked isready with an earlier one unanswered

engineVars == <<engine, toEngine, fromEngine, isEngineReady, searchTimer, queuedSearch,
                isSearchActive, currentFenRef, tracking, analysis, overlapped>>
analysisVars == <<study, sourceGame, studying, engineVars>>

Blank(status) == [status |-> status, best |-> NoMove, of |-> NoFen]
NoTracking == [queuedFen |-> NoFen, activeFen |-> NoFen, completedFen |-> NoFen]

(* The position after i moves of a line (currentFen).                      *)
PositionAfter(root, line, i) ==
    FoldLeft(LAMBDA p, m : After[p][m], root, SubSeq(line, 1, i))

Current(w) == PositionAfter(w.root, w.line, w.index)

(* replaceWorkspace.                                                       *)
Workspace(root, line, key) ==
    [root |-> root, line |-> line, index |-> Len(line), key |-> key, mode |-> "play",
     editor |-> PositionAfter(root, line, Len(line))]

Sandbox == Workspace(Start, <<>>, "none")

(* analysisFen, and the hook's enabled.                                    *)
Fen == IF study.mode = "edit" THEN study.editor ELSE Current(study)
Enabled == studying /\ Fen \in Eligible

AnalysisInit ==
    /\ study = Sandbox /\ sourceGame = "none" /\ studying = FALSE
    /\ engine = "off" /\ toEngine = <<>> /\ fromEngine = <<>>
    /\ isEngineReady = FALSE
    /\ searchTimer = NoFen /\ queuedSearch = NoFen /\ isSearchActive = FALSE
    /\ currentFenRef = Start
    /\ tracking = NoTracking /\ analysis = Blank("idle") /\ overlapped = FALSE

-----------------------------------------------------------------------------
(* postMessage; a stop right after a stop tells the worker nothing.        *)
Post(q, c) == IF c = "stop" /\ q # <<>> /\ Last(q) = "stop" THEN q ELSE Append(q, c)

(* The effect that creates the worker, and the fen effect after it.        *)
WorkerStarts ==
    /\ engine' = "starting" /\ toEngine' = <<"uci", "stop">> /\ fromEngine' = <<>>
    /\ queuedSearch' = NoFen /\ isSearchActive' = FALSE
    /\ currentFenRef' = Fen'
    /\ UNCHANGED <<isEngineReady, searchTimer, tracking, analysis, overlapped>>

(* Its cleanup: terminate() discards what is in flight both ways.          *)
WorkerEnds ==
    /\ engine' = "off" /\ toEngine' = <<>> /\ fromEngine' = <<>>
    /\ isEngineReady' = FALSE
    /\ searchTimer' = NoFen /\ queuedSearch' = NoFen /\ isSearchActive' = FALSE
    /\ UNCHANGED <<currentFenRef, tracking, analysis, overlapped>>

(* The fen effect: whatever goes on is stopped, a search is due after the  *)
(* debounce if the engine is ready.                                        *)
FenEffect(fen, ready) ==
    /\ queuedSearch' = NoFen /\ isSearchActive' = FALSE
    /\ searchTimer' = IF ready THEN fen ELSE NoFen

FenChanges ==
    /\ toEngine' = Post(toEngine, "stop")
    /\ FenEffect(Fen', isEngineReady)
    /\ currentFenRef' = Fen'
    /\ UNCHANGED <<engine, fromEngine, isEngineReady, tracking, analysis, overlapped>>

EngineFollows ==
    \/ ~Enabled /\ Enabled' /\ WorkerStarts
    \/ Enabled /\ ~Enabled' /\ WorkerEnds
    \/ Enabled /\ Enabled' /\ Fen' # Fen /\ FenChanges
    \/ Enabled = Enabled' /\ (Enabled => Fen' = Fen) /\ UNCHANGED engineVars

-----------------------------------------------------------------------------
(* The effect on the source game: whenever its key is not the loaded one   *)
(* the game is loaded, over whatever the user has just done.               *)
SourceEffect(w, src) ==
    IF src = "there" /\ w.key # "game"
    THEN Workspace(Start, SourceLine, "game") ELSE w

(* A user's change of the workspace.                                       *)
Change(w) ==
    /\ studying
    /\ Len(toEngine \o fromEngine) <= MaxEngineMessages
    /\ study' = SourceEffect(w, sourceGame)
    /\ UNCHANGED <<sourceGame, studying>>
    /\ EngineFollows

OpenAnalysis(withGame) ==
    /\ ~studying
    /\ studying' = TRUE
    /\ sourceGame' = IF withGame THEN "asked" ELSE "none"
    /\ study' = Sandbox
    /\ EngineFollows

LeaveAnalysis ==
    /\ studying
    /\ studying' = FALSE /\ sourceGame' = "none" /\ study' = Sandbox
    /\ engine' = "off" /\ toEngine' = <<>> /\ fromEngine' = <<>>
    /\ isEngineReady' = FALSE
    /\ searchTimer' = NoFen /\ queuedSearch' = NoFen /\ isSearchActive' = FALSE
    /\ currentFenRef' = Start
    /\ tracking' = NoTracking /\ analysis' = Blank("idle") /\ overlapped' = FALSE

(* The source game arrives, however late.                                  *)
SourceArrives ==
    /\ sourceGame = "asked"
    /\ sourceGame' = "there"
    /\ study' = SourceEffect(study, "there")
    /\ UNCHANGED studying
    /\ EngineFollows

(* handleApplySandboxMove, by drop or by a second click.                   *)
ApplySandboxMove(m) ==
    /\ study.mode = "play"
    /\ m \in DOMAIN After[Current(study)]
    /\ LET line == Append(SubSeq(study.line, 1, study.index), m)
       IN  Change([study EXCEPT !.line = line, !.index = Len(line), !.key = "none"])

GoToMoveIndex(i) == Change([study EXCEPT !.index = i])

LoadPasted(w) == Change(Workspace(w.root, w.line, "none"))

ResetStart == Change(Sandbox)

(* A piece is put, moved or erased, or the metadata set; clearing the      *)
(* board enters the editor, too.                                           *)
EditBoard(p) == study.mode = "edit" /\ Change([study EXCEPT !.editor = p])
ClearBoard == Change([study EXCEPT !.mode = "edit", !.editor = NoFen])

ToggleMode ==
    Change([study EXCEPT !.mode = IF @ = "play" THEN "edit" ELSE "play"])

ApplyEditorPosition ==
    /\ study.mode = "edit" /\ study.editor # NoFen
    /\ Change(Workspace(study.editor, <<>>, "none"))

-----------------------------------------------------------------------------
(* Questions the engine has not answered, or whose answer is on the way.   *)
Unanswered ==
    \/ "isready" \in ToSet(toEngine)
    \/ \E i \in DOMAIN fromEngine : fromEngine[i].kind = "readyok"

(* Mutant: the search is started at once.                                  *)
TimerFiresBlindly ==
    /\ searchTimer # NoFen
    /\ searchTimer' = NoFen
    /\ isSearchActive' = TRUE
    /\ tracking' = [NoTracking EXCEPT !.activeFen = searchTimer]
    /\ analysis' = Blank("analyzing")
    /\ toEngine' = Post(toEngine, "stop") \o <<searchTimer>>
    /\ UNCHANGED <<study, sourceGame, studying, engine, fromEngine, isEngineReady,
                   queuedSearch, currentFenRef, overlapped>>

(* The debounce is over: the search is queued until the engine says that   *)
(* it is ready, having stopped.                                            *)
TimerFires ==
    /\ searchTimer # NoFen
    /\ searchTimer' = NoFen
    /\ queuedSearch' = searchTimer /\ isSearchActive' = FALSE
    /\ tracking' = [NoTracking EXCEPT !.queuedFen = searchTimer]
    /\ analysis' = Blank("analyzing")
    /\ toEngine' = Append(Post(toEngine, "stop"), "isready")
    /\ overlapped' = (overlapped \/ Unanswered)
    /\ UNCHANGED <<study, sourceGame, studying, engine, fromEngine, isEngineReady,
                   currentFenRef>>

Received(kind) ==
    /\ fromEngine # <<>> /\ Head(fromEngine).kind = kind
    /\ fromEngine' = Tail(fromEngine)

OnUciok ==
    /\ Received("uciok")
    /\ toEngine' = Append(toEngine, "isready")
    /\ UNCHANGED <<study, sourceGame, studying, engine, isEngineReady, searchTimer,
                   queuedSearch, isSearchActive, currentFenRef, tracking, analysis,
                   overlapped>>

(* Mutant: the readiness does not run the fen effect.                      *)
OnFirstReadyokIdly ==
    /\ Received("readyok") /\ ~isEngineReady
    /\ isEngineReady' = TRUE
    /\ analysis' = [analysis EXCEPT !.status = IF @ = "loading" THEN "ready" ELSE @]
    /\ UNCHANGED <<study, sourceGame, studying, engine, toEngine, searchTimer,
                   queuedSearch, isSearchActive, currentFenRef, tracking, overlapped>>

(* The first readyok makes the engine ready, which runs the fen effect.    *)
OnFirstReadyok ==
    /\ Received("readyok") /\ ~isEngineReady
    /\ isEngineReady' = TRUE
    /\ toEngine' = Post(toEngine, "stop")
    /\ FenEffect(Fen, TRUE)
    /\ analysis' = [analysis EXCEPT !.status = IF @ = "loading" THEN "ready" ELSE @]
    /\ UNCHANGED <<study, sourceGame, studying, engine, currentFenRef, tracking,
                   overlapped>>

(* A readyok starts the queued search, whichever isready it answers.       *)
OnReadyok ==
    /\ Received("readyok") /\ isEngineReady
    /\ IF queuedSearch # NoFen
       THEN /\ queuedSearch' = NoFen /\ isSearchActive' = TRUE
            /\ currentFenRef' = queuedSearch
            /\ tracking' = [NoTracking EXCEPT !.activeFen = queuedSearch]
            /\ analysis' = Blank("analyzing")
            /\ toEngine' = Append(toEngine, queuedSearch)
       ELSE UNCHANGED <<queuedSearch, isSearchActive, currentFenRef, tracking, analysis,
                        toEngine>>
    /\ UNCHANGED <<study, sourceGame, studying, engine, isEngineReady, searchTimer,
                   overlapped>>

(* isPlayableUciMove.                                                      *)
Playable(p, m) == m \in DOMAIN After[p]

(* A final position has no variation, and "(none)" for a move.             *)
OnInfo ==
    /\ Received("info")
    /\ LET p == Head(fromEngine).of
       IN  analysis' = IF isSearchActive
                             /\ (Best[p] = NoMove \/ Playable(currentFenRef, Best[p]))
                       THEN [analysis EXCEPT !.status = "analyzing", !.of = p]
                       ELSE analysis
    /\ UNCHANGED <<study, sourceGame, studying, engine, toEngine, isEngineReady,
                   searchTimer, queuedSearch, isSearchActive, currentFenRef, tracking,
                   overlapped>>

OnBestmove ==
    /\ Received("bestmove")
    /\ LET p == Head(fromEngine).of
       IN  IF isSearchActive /\ Playable(currentFenRef, Best[p])
           THEN /\ isSearchActive' = FALSE
                /\ tracking' = [NoTracking EXCEPT !.completedFen = currentFenRef]
                /\ analysis' = [status |-> "done", best |-> Best[p], of |-> p]
           ELSE UNCHANGED <<isSearchActive, tracking, analysis>>
    /\ UNCHANGED <<study, sourceGame, studying, engine, toEngine, isEngineReady,
                   searchTimer, queuedSearch, currentFenRef, overlapped>>

-----------------------------------------------------------------------------
(* The worker.  A search may end by itself, or at a stop or another go.    *)
Line(kind, p) == [kind |-> kind, of |-> p]
Ended == IF engine \in Positions THEN <<Line("bestmove", engine)>> ELSE <<>>

EngineSays(lines) ==
    /\ fromEngine' = fromEngine \o lines
    /\ UNCHANGED <<study, sourceGame, studying, isEngineReady, searchTimer, queuedSearch,
                   isSearchActive, currentFenRef, tracking, analysis, overlapped>>

EngineReads ==
    /\ engine \notin {"off", "dead"} /\ toEngine # <<>>
    /\ toEngine' = Tail(toEngine)
    /\ LET c == Head(toEngine)
       IN  \/ /\ c = "uci"
              /\ engine' = "idle" /\ EngineSays(<<Line("uciok", NoFen)>>)
           \/ /\ c = "isready"
              /\ UNCHANGED engine /\ EngineSays(<<Line("readyok", NoFen)>>)
           \/ /\ c = "stop"
              /\ engine' = "idle" /\ EngineSays(Ended)
           \/ /\ c \in Positions
              /\ engine' = c /\ EngineSays(Ended \o <<Line("info", c)>>)

EngineFinds ==
    /\ engine \in Positions
    /\ engine' = "idle" /\ EngineSays(Ended)
    /\ UNCHANGED toEngine

(* onerror: the script does not load, or the engine dies.                  *)
EngineFails ==
    /\ engine \notin {"off", "dead"}
    /\ engine' = "dead" /\ toEngine' = <<>> /\ fromEngine' = <<>>
    /\ analysis' = Blank("error")
    /\ UNCHANGED <<study, sourceGame, studying, isEngineReady, searchTimer, queuedSearch,
                   isSearchActive, currentFenRef, tracking, overlapped>>

LineArrives == OnUciok \/ OnFirstReadyok \/ OnReadyok \/ OnInfo \/ OnBestmove

AnalysisNext ==
    \/ \E withGame \in BOOLEAN : OpenAnalysis(withGame)
    \/ LeaveAnalysis \/ SourceArrives
    \/ \E p \in Positions : \E m \in DOMAIN After[p] : ApplySandboxMove(m)
    \/ \E i \in 0 .. Len(study.line) : GoToMoveIndex(i)
    \/ \E w \in Pasted : LoadPasted(w)
    \/ ResetStart \/ ClearBoard \/ ToggleMode \/ ApplyEditorPosition
    \/ \E p \in Positions \cup {NoFen} : EditBoard(p)
    \/ TimerFires \/ LineArrives
    \/ EngineReads \/ EngineFinds \/ EngineFails

AnalysisFairness ==
    /\ WF_analysisVars(TimerFires) /\ WF_analysisVars(LineArrives)
    /\ WF_analysisVars(EngineReads) /\ WF_analysisVars(EngineFinds)

-----------------------------------------------------------------------------
(* What the hook returns.                                                  *)
Shown ==
    IF ~Enabled THEN Blank("idle")
    ELSE IF ~isEngineReady /\ analysis.status = "idle"
    THEN [analysis EXCEPT !.status = "loading"]
    ELSE IF tracking.queuedFen = Fen THEN Blank("analyzing")
    ELSE IF Fen \notin {tracking.activeFen, tracking.completedFen}
              /\ analysis.status # "error"
    THEN Blank(IF isEngineReady THEN "ready" ELSE "loading")
    ELSE analysis

(* However fast the user goes through positions: the evaluation and the    *)
(* move shown are of the position on the board, unless the engine left a   *)
(* question unanswered for a whole debounce and its answer, which does not *)
(* say what it answers, started a search too early.                        *)
ShownIsOfThisPosition == Shown.of \in {NoFen, Fen} \/ overlapped

(* A position that stays on the board is analysed to the end, unless the   *)
(* engine dies.  A final position is not: its "(none)" is no move to play, *)
(* and the board says "analyzing" for ever.                                *)
Studied(p) == Enabled /\ Fen = p /\ Best[p] # NoMove /\ engine # "dead"
PositionGetsAnalysed ==
    \A p \in Eligible : Studied(p) ~> Shown.status = "done" \/ ~Studied(p)
=============================================================================
