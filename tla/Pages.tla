-------------------------------- MODULE Pages --------------------------------
(***************************************************************************)
(* What a browser does in parallel with its game and with its analysis:    *)
(* the chat panel, the video call, and the engine of the analysis board.   *)
(* They share no state, so that every behaviour of one goes with every     *)
(* behaviour of another and one of them at a time is looked at.            *)
(***************************************************************************)
EXTENDS Chat, Call, Analysis

VARIABLE watched  \* the part that is looked at

pagesVars == <<watched, chatVars, callVars, analysisVars>>

PagesInit ==
    /\ watched \in {"chat", "call", "analysis"}
    /\ ChatInit /\ CallInit /\ AnalysisInit
    /\ watched # "chat" => lineUp

PagesNext ==
    \/ watched = "chat" /\ ChatNext /\ UNCHANGED <<watched, callVars, analysisVars>>
    \/ watched = "call" /\ CallNext /\ UNCHANGED <<watched, chatVars, analysisVars>>
    \/ watched = "analysis" /\ AnalysisNext /\ UNCHANGED <<watched, chatVars, callVars>>

(* What is fair is not enabled in the initial states of the other parts.   *)
PagesSpec ==
    PagesInit /\ [][PagesNext]_pagesVars /\ CallFairness /\ AnalysisFairness
=============================================================================
