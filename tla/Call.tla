-------------------------------- MODULE Call --------------------------------
(***************************************************************************)
(* The video call beside a game: the connect-rtc hook of both players, the *)
(* rtc-peer store, the PeerConnection wrapper, and the relay of the server *)
(* between them.  A visit is one run of the hook's effect; signals carry   *)
(* the visit they come from, as descriptions and candidates do.  The relay *)
(* loses what is sent while the link of the sender or of the receiver is   *)
(* down.  The texts of status and error are left out, and a description    *)
(* is exchanged in one step (createOffer, handleOffer and handleAnswer).   *)
(***************************************************************************)
EXTENDS Naturals, FiniteSets, Sequences

CONSTANTS
    MaxVisits,  \* bound on the visits of each side
    MaxSignals, \* bound on the signals in flight to each side
    MaxLost     \* bound on the signals lost

ASSUME CallAssumption == MaxVisits \in Nat /\ MaxSignals \in Nat \ {0} /\ MaxLost \in Nat

Sides == {"white", "black"}
Other(s) == IF s = "white" THEN "black" ELSE "white"

VARIABLES
    visit,     \* each side's latest visit, 0 before the first
    onPage,    \* that visit is going on
    asked,     \* visits whose request for camera and microphone is open
    live,      \* visits whose local stream is live
    localStream, \* the visit of the stream in the store, or 0
    peer,      \* each side's PeerConnection and refs
    retryTimer, \* the offerer's retry is due
    net,       \* signals in flight to each side
    lost       \* signals lost so far

callVars == <<visit, onPage, asked, live, localStream, peer, retryTimer, net, lost>>

(* A fresh PeerConnection.  remote: the visit whose description is set,    *)
(* and answers: the visit whose offer it answers; early: the visits of     *)
(* pendingCandidates; pendingOffer: the offer that waits for the local     *)
(* stream.                                                                 *)
NewPeer == [remote |-> 0, answers |-> 0, signaling |-> "stable", early |-> {},
            gathered |-> FALSE, initiatedOffer |-> FALSE, connected |-> FALSE,
            pendingOffer |-> 0]

Signal(kind, s, v) == [kind |-> kind, from |-> visit[s], answers |-> v]

CallInit ==
    /\ visit = [s \in Sides |-> 0] /\ onPage = [s \in Sides |-> FALSE]
    /\ asked = {} /\ live = {}
    /\ localStream = [s \in Sides |-> 0]
    /\ peer = [s \in Sides |-> NewPeer]
    /\ retryTimer = [s \in Sides |-> FALSE]
    /\ net = [s \in Sides |-> <<>>]
    /\ lost = 0

(* sendSignal and the relay: queued, or lost for want of a link.           *)
Relay(s, signal) ==
    \/ /\ Len(net[Other(s)]) < MaxSignals
       /\ net' = [net EXCEPT ![Other(s)] = Append(@, signal)]
       /\ UNCHANGED lost
    \/ /\ lost < MaxLost
       /\ lost' = lost + 1
       /\ UNCHANGED net

-----------------------------------------------------------------------------
(* The effect runs for a game, a color and a session.                      *)
StartVisit(s) ==
    /\ ~onPage[s] /\ visit[s] < MaxVisits
    /\ onPage' = [onPage EXCEPT ![s] = TRUE]
    /\ visit' = [visit EXCEPT ![s] = @ + 1]
    /\ peer' = [peer EXCEPT ![s] = NewPeer]
    /\ asked' = asked \cup {<<s, visit'[s]>>}
    /\ UNCHANGED <<live, localStream, retryTimer, net, lost>>

(* Its cleanup: close() and the store's reset, which stops the stream.     *)
EndVisit(s) ==
    /\ onPage[s]
    /\ onPage' = [onPage EXCEPT ![s] = FALSE]
    /\ peer' = [peer EXCEPT ![s] = NewPeer]
    /\ live' = live \ {<<s, localStream[s]>>}
    /\ localStream' = [localStream EXCEPT ![s] = 0]
    /\ retryTimer' = [retryTimer EXCEPT ![s] = FALSE]
    /\ UNCHANGED <<visit, asked, net, lost>>

(* Mutant: nobody asks whether the visit is over.                          *)
MediaForAny(s, v) ==
    /\ live' = (live \ {<<s, localStream[s]>>}) \cup {<<s, v>>}
    /\ localStream' = [localStream EXCEPT ![s] = IF onPage[s] THEN v ELSE @]

(* Camera and microphone are granted, late perhaps: the stream of a visit  *)
(* that is over is stopped at once.  The store's setLocalStream stops the  *)
(* stream it held.                                                         *)
MediaFor(s, v) ==
    IF onPage[s] /\ v = visit[s]
    THEN /\ live' = (live \ {<<s, localStream[s]>>}) \cup {<<s, v>>}
         /\ localStream' = [localStream EXCEPT ![s] = v]
    ELSE UNCHANGED <<live, localStream>>

MediaGranted(s, v) ==
    /\ <<s, v>> \in asked
    /\ asked' = asked \ {<<s, v>>}
    /\ MediaFor(s, v)
    /\ UNCHANGED <<visit, onPage, peer, retryTimer, net, lost>>

MediaRefused(s, v) ==
    /\ <<s, v>> \in asked
    /\ asked' = asked \ {<<s, v>>}
    /\ UNCHANGED <<visit, onPage, live, localStream, peer, retryTimer, net, lost>>

-----------------------------------------------------------------------------
(* createOfferIfNeeded, once the stream is there; a PeerConnection that    *)
(* fails to make an offer is not asked again.                              *)
NeedsOffer(s) ==
    /\ s = "white" /\ localStream[s] # 0
    /\ ~peer[s].initiatedOffer /\ ~peer[s].connected

CreateOffer(s) ==
    /\ NeedsOffer(s)
    /\ peer[s].pendingOffer = 0
    /\ peer' = [peer EXCEPT ![s].initiatedOffer = TRUE,
                            ![s].signaling = "have-local-offer"]
    /\ retryTimer' = [retryTimer EXCEPT ![s] = TRUE]
    /\ Relay(s, Signal("rtc_offer", s, 0))
    /\ UNCHANGED <<visit, onPage, asked, live, localStream>>

(* Mutant: the retry finds the offer made already.                         *)
RetryOfferOnce(s) ==
    /\ retryTimer[s]
    /\ retryTimer' = [retryTimer EXCEPT ![s] = FALSE]
    /\ UNCHANGED <<visit, onPage, asked, live, localStream, peer, net, lost>>

(* scheduleOfferRetry's timer: an offer that led nowhere is made again.    *)
RetryOffer(s) ==
    /\ retryTimer[s]
    /\ retryTimer' = [retryTimer EXCEPT ![s] = FALSE]
    /\ peer' = [peer EXCEPT ![s].initiatedOffer =
                    @ /\ (peer[s].connected \/ localStream[s] = 0)]
    /\ UNCHANGED <<visit, onPage, asked, live, localStream, net, lost>>

(* setRemoteDescription: a description of visit v of the other side, which *)
(* answers visit w or is an offer, and flushPendingCandidates; ontrack     *)
(* follows.                                                                *)
Described(p, v, w) ==
    [p EXCEPT !.remote = v, !.answers = w, !.signaling = "stable", !.connected = TRUE,
              !.early = {}]

(* The browser may refuse a candidate of another visit that came before the*)
(* offer: the description is set, and the offer is not answered.           *)
OfferFails(s, v) ==
    /\ peer[s].early \ {v} # {}
    /\ peer' = [peer EXCEPT ![s] = [Described(@, v, 0) EXCEPT
                                       !.signaling = "have-remote-offer", !.pendingOffer = 0]]

(* An offer is answered now, or when the stream is there; it is tried once.*)
Answering(s, v) ==
    /\ peer' = [peer EXCEPT ![s] = [Described(@, v, 0) EXCEPT !.pendingOffer = 0]]
    /\ Relay(s, Signal("rtc_answer", s, v))

HandlePendingOffer(s) ==
    /\ localStream[s] # 0
    /\ peer[s].pendingOffer # 0
    /\ \/ Answering(s, peer[s].pendingOffer)
       \/ OfferFails(s, peer[s].pendingOffer) /\ UNCHANGED <<net, lost>>
    /\ UNCHANGED <<visit, onPage, asked, live, localStream, retryTimer>>

Arrived(s, kind) ==
    /\ net[s] # <<>>
    /\ Head(net[s]).kind = kind

(* Nobody listens when the page is not there.                              *)
Unheard(s) ==
    /\ net[s] # <<>> /\ ~onPage[s]
    /\ net' = [net EXCEPT ![s] = Tail(@)]
    /\ UNCHANGED <<visit, onPage, asked, live, localStream, peer, retryTimer, lost>>

OnOffer(s) ==
    /\ Arrived(s, "rtc_offer")
    /\ onPage[s]
    /\ LET v == Head(net[s]).from
           rest == [net EXCEPT ![s] = Tail(@)]
           answer == Signal("rtc_answer", s, v)
       IN  IF localStream[s] = 0
           THEN /\ peer' = [peer EXCEPT ![s].pendingOffer = v]
                /\ net' = rest
                /\ UNCHANGED lost
           ELSE \/ OfferFails(s, v) /\ net' = rest /\ UNCHANGED lost
                \/ /\ peer' = [peer EXCEPT ![s] = Described(@, v, 0)]
                   /\ \/ /\ Len(net[Other(s)]) < MaxSignals
                         /\ net' = [rest EXCEPT ![Other(s)] = Append(@, answer)]
                         /\ UNCHANGED lost
                      \/ /\ lost < MaxLost
                         /\ lost' = lost + 1
                         /\ net' = rest
    /\ UNCHANGED <<visit, onPage, asked, live, localStream, retryTimer>>

(* An answer is refused unless an offer is open: the second answer after a *)
(* retry raises an exception, which the hook shows as a failure, as it does*)
(* when a candidate is refused after the answer was set.                   *)
OnAnswer(s) ==
    /\ Arrived(s, "rtc_answer")
    /\ onPage[s]
    /\ net' = [net EXCEPT ![s] = Tail(@)]
    /\ LET m == Head(net[s])
       IN  peer' = [peer EXCEPT ![s] = IF @.signaling = "have-local-offer"
                                       THEN Described(@, m.from, m.answers) ELSE @]
    /\ UNCHANGED <<visit, onPage, asked, live, localStream, retryTimer, lost>>

(* addIceCandidate: kept until there is a description, and refused by the  *)
(* browser when it is another visit's.                                     *)
OnIce(s) ==
    /\ Arrived(s, "rtc_ice")
    /\ onPage[s]
    /\ net' = [net EXCEPT ![s] = Tail(@)]
    /\ LET v == Head(net[s]).from
       IN  peer' = [peer EXCEPT ![s].early = IF peer[s].remote = 0 THEN @ \cup {v} ELSE @]
    /\ UNCHANGED <<visit, onPage, asked, live, localStream, retryTimer, lost>>

(* A candidate is gathered once there is a local description.              *)
Gather(s) ==
    /\ onPage[s] /\ ~peer[s].gathered
    /\ peer[s].signaling = "have-local-offer" \/ peer[s].remote # 0
    /\ peer' = [peer EXCEPT ![s].gathered = TRUE]
    /\ Relay(s, Signal("rtc_ice", s, 0))
    /\ UNCHANGED <<visit, onPage, asked, live, localStream, retryTimer>>

Signaling(s) ==
    \/ CreateOffer(s) \/ RetryOffer(s) \/ HandlePendingOffer(s)
    \/ Unheard(s) \/ OnOffer(s) \/ OnAnswer(s) \/ OnIce(s) \/ Gather(s)

CallNext ==
    \E s \in Sides :
        \/ StartVisit(s) \/ EndVisit(s) \/ Signaling(s)
        \/ \E v \in 1..MaxVisits : MediaGranted(s, v) \/ MediaRefused(s, v)

CallFairness == \A s \in Sides : WF_callVars(Signaling(s))

-----------------------------------------------------------------------------
(* However late the browser grants them: the camera and the microphone are *)
(* live only for the visit that is going on, which holds the stream that   *)
(* its cleanup will stop.                                                  *)
CameraOffWhenGone ==
    \A s \in Sides, v \in 1..MaxVisits :
        <<s, v>> \in live => onPage[s] /\ visit[s] = v /\ localStream[s] = v

(* Both players are on the page with their streams.                        *)
Ready == \A s \in Sides : onPage[s] /\ localStream[s] # 0

(* The descriptions belong together and nothing is held back.              *)
Talking ==
    /\ peer["white"].remote = visit["black"]
    /\ peer["white"].answers = visit["white"]
    /\ peer["black"].remote = visit["white"]
    /\ \A s \in Sides : peer[s].early = {}

(* White took the answer of an earlier visit of black, or to an earlier    *)
(* visit of its own (signals do not say which), and will not offer again:  *)
(* the call stays dead until white reloads.                                *)
OffererIsDeceived == peer["white"].connected /\ ~Talking

(* Signals may be lost, offers come before the camera is granted, answers  *)
(* come twice: players who stay get the descriptions of each other, unless *)
(* a reload on the way left white with a description of the past.          *)
CallIsMade == Ready ~> Talking \/ ~Ready \/ OffererIsDeceived
=============================================================================
