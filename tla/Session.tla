------------------------------ MODULE Session ------------------------------
(***************************************************************************)
(* Who is signed in, in one browser tab: the persisted user store, the     *)
(* bootstrap request that checks it, the router's guards, the sign-in page,*)
(* 401 answers, and the WebSocket client that the pages of a session use.  *)
(*                                                                         *)
(* The local storage always holds what the store holds (every set() of the *)
(* store is persisted before anything else runs), so a reload starts from  *)
(* the variables user and accessToken.  React runs the effects of a commit *)
(* before the next click or answer is handled: all but the socket's events *)
(* wait until RunEffects has nothing to do.                                *)
(***************************************************************************)
EXTENDS WsClient

CONSTANTS
    Users,
    NoUser,
    Owner,      \* the user each access token was issued to
    Visited,    \* the routes visited, of Routes
    MaxCalls    \* bound on requests in flight, see MayCall

VARIABLES
    user,            \* the profile in the user store
    accessToken,     \* the token in the user store
    bootstrapping,   \* isBootstrapping: the guarded pages show a spinner
    bootstrapped,    \* the token the bootstrap effect last ran for
    path,
    redirectFlag,    \* sessionStorage: a logout is being redirected
    listener,        \* the token a mounted page's socket handlers were set up with
    calls,           \* requests in flight
    editedLate       \* the profile is the answer to an edit that outlived its
                     \* session, or to an edit made of such a profile

authVars == <<user, accessToken, bootstrapping, bootstrapped>>
vars == <<wsVars, authVars, path, redirectFlag, listener, calls, editedLate>>

-----------------------------------------------------------------------------
(* The routes of the router, and the guards around their elements.         *)
AuthRoutes == {"/login", "/register", "/forgot-password", "/reset-password"}
OpenRoutes == {"/", "/compare"}
GuardedRoutes ==
    {"/settings", "/leaderboard", "/lobby", "/game/:gameId", "/analysis",
     "/puzzles", "/puzzles/:puzzleId", "/history", "/tournaments",
     "/tournaments/:tournamentId", "/games/:gameId", "/shop", "/clubs",
     "/profile", "/players/:userId", "/scheduled-matches", "/otb", "/otb-manager"}
Routes == AuthRoutes \cup OpenRoutes \cup GuardedRoutes
RealtimeRoutes == {"/lobby", "/game/:gameId"}

ASSUME SessionAssumption ==
    /\ Owner \in [Sessions -> Users]
    /\ NoUser \notin Users
    /\ Visited \subseteq Routes /\ {"/", "/login"} \subseteq Visited
    /\ MaxCalls \in Nat

IsAuthenticated == user # NoUser /\ accessToken # NoSession

Call(kind, t, u) == [kind |-> kind, token |-> t, user |-> u]
Calls == [kind : {"me", "data", "edit", "login"},
          token : Sessions \cup {NoSession}, user : Users \cup {NoUser}]

(* The bounds on what a tab leaves behind when it asks for something: one   *)
(* more may be pending when the user signs in.                             *)
Stale == {s \in Sockets \ {ws} : sock[s].phase # "closed"}
Pending == Cardinality(calls) + timers + Cardinality(Stale)
MayCall == Pending < MaxCalls
MaySignIn == Pending < MaxCalls + 1

(* A guarded page that is shown and has the token its handlers need.       *)
Wanted ==
    IF path \in RealtimeRoutes /\ IsAuthenticated /\ ~bootstrapping
    THEN accessToken ELSE NoSession

(* Where the guards of the current route send the browser.                 *)
Redirection ==
    CASE bootstrapping -> path
      [] path \in AuthRoutes /\ IsAuthenticated -> "/"
      [] path \in GuardedRoutes /\ ~IsAuthenticated ->
            IF redirectFlag THEN "/" ELSE "/login"
      [] OTHER -> path

Settled ==
    /\ listener = Wanted
    /\ bootstrapped = accessToken
    /\ Redirection = path

Init ==
    /\ WsInit
    /\ accessToken \in Sessions \cup {NoSession}
    /\ user = IF accessToken = NoSession THEN NoUser ELSE Owner[accessToken]
    /\ bootstrapping = FALSE
    /\ bootstrapped = NoSession
    /\ path \in Visited
    /\ redirectFlag = FALSE
    /\ listener = NoSession
    /\ calls = {}
    /\ editedLate = FALSE

-----------------------------------------------------------------------------
(* The effects of a commit, the page's before the provider's.              *)

(* Lobby and game pages: connect, then subscribe; the cleanup unsubscribes *)
(* and leaves the socket as it is.                                         *)
PageEffect ==
    /\ listener # Wanted
    /\ listener' = Wanted
    /\ IF Wanted = NoSession THEN UNCHANGED wsVars ELSE Connect(Wanted)
    /\ UNCHANGED <<authVars, path, redirectFlag, calls, editedLate>>

(* AuthBootstrap: a stored session is checked before it is used.  An older *)
(* request of another token is disposed of: its profile will be ignored,   *)
(* a 401 will not.                                                         *)
BootstrapEffect ==
    /\ listener = Wanted
    /\ bootstrapped # accessToken
    /\ bootstrapped' = accessToken
    /\ bootstrapping' = (accessToken # NoSession)
    /\ calls' = calls \cup
                (IF accessToken = NoSession THEN {}
                 ELSE {Call("me", accessToken, Owner[accessToken])})
    /\ UNCHANGED <<wsVars, user, accessToken, path, redirectFlag, listener,
                   editedLate>>

(* RequireAuth and RedirectIfAuthenticated.                                *)
GuardEffect ==
    /\ listener = Wanted
    /\ bootstrapped = accessToken
    /\ Redirection # path
    /\ path' = Redirection
    /\ redirectFlag' = (redirectFlag /\ path \notin GuardedRoutes)
    /\ UNCHANGED <<wsVars, authVars, listener, calls, editedLate>>

RunEffects == PageEffect \/ BootstrapEffect \/ GuardEffect

-----------------------------------------------------------------------------
(* What the user does.                                                     *)
Visit(route) ==
    /\ Settled
    /\ path' = route
    /\ UNCHANGED <<wsVars, authVars, redirectFlag, listener, calls, editedLate>>

(* AuthPage.handleSubmit: the socket goes before the request does.         *)
SubmitLogin(t) ==
    /\ Settled
    /\ path \in AuthRoutes
    /\ MaySignIn
    /\ Disconnect
    /\ calls' = calls \cup {Call("login", t, Owner[t])}
    /\ UNCHANGED <<authVars, path, redirectFlag, listener, editedLate>>

(* The OAuth provider sends the browser back to the sign-in page with a    *)
(* token in its address: a fresh page, whose effect resolves the user.     *)
ReturnFromOAuth(t) ==
    /\ Settled
    /\ path \in AuthRoutes /\ ~IsAuthenticated
    /\ path' = "/login"
    /\ Unload
    /\ calls' = {Call("login", t, Owner[t])}
    /\ bootstrapped' = NoSession
    /\ bootstrapping' = FALSE
    /\ listener' = NoSession
    /\ UNCHANGED <<user, accessToken, redirectFlag, editedLate>>

(* A page asks for data, with the store's token.                           *)
Fetch ==
    /\ Settled
    /\ accessToken # NoSession
    /\ MayCall
    /\ calls' = calls \cup {Call("data", accessToken, NoUser)}
    /\ UNCHANGED <<wsVars, authVars, path, redirectFlag, listener, editedLate>>

(* The settings or profile page sends a change of the profile on show.     *)
EditProfile ==
    /\ Settled
    /\ IsAuthenticated /\ ~bootstrapping
    /\ path \in {"/settings", "/profile"}
    /\ MayCall
    /\ calls' = calls \cup {Call("edit", accessToken, user)}
    /\ UNCHANGED <<wsVars, authVars, path, redirectFlag, listener, editedLate>>

(* handleLogout of the shell around every guarded page but the game's, and *)
(* of the game page, which does not announce a redirection.                *)
Logout ==
    /\ Settled
    /\ IsAuthenticated
    /\ path \notin AuthRoutes
    /\ Disconnect
    /\ user' = NoUser
    /\ accessToken' = NoSession
    /\ bootstrapping' = FALSE
    /\ redirectFlag' = (redirectFlag \/ path # "/game/:gameId")
    /\ path' = "/"
    /\ UNCHANGED <<bootstrapped, listener, calls>>
    /\ editedLate' = FALSE

(* The page is loaded anew, at its address.                                *)
Reload ==
    /\ Settled
    /\ Unload
    /\ calls' = {}
    /\ bootstrapped' = NoSession
    /\ bootstrapping' = FALSE
    /\ listener' = NoSession
    /\ UNCHANGED <<user, accessToken, path, redirectFlag, editedLate>>

-----------------------------------------------------------------------------
(* The answers.  A token may expire, or be refused, at any time.           *)
(* setAuth and navigate(redirectTo), on whatever page the answer finds.    *)
SignedIn(c) ==
    /\ Settled
    /\ c.kind = "login"
    /\ user' = c.user
    /\ accessToken' = c.token
    /\ bootstrapping' = FALSE
    /\ \E route \in Visited \ AuthRoutes : path' = route
    /\ calls' = calls \ {c}
    /\ UNCHANGED <<wsVars, bootstrapped, redirectFlag, listener>>
    /\ editedLate' = FALSE

(* Mutant: a profile of a disposed request is used.                        *)
BootstrappedAnyway(c) ==
    /\ Settled
    /\ c.kind = "me"
    /\ user' = c.user
    /\ bootstrapping' = FALSE
    /\ calls' = calls \ {c}
    /\ UNCHANGED <<wsVars, accessToken, bootstrapped, path, redirectFlag,
                   listener>>
    /\ editedLate' = FALSE

(* setUser and setBootstrapping(false).                                    *)
Bootstrapped(c) ==
    /\ Settled
    /\ c.kind = "me" /\ c.token = bootstrapped
    /\ user' = c.user
    /\ bootstrapping' = FALSE
    /\ calls' = calls \ {c}
    /\ UNCHANGED <<wsVars, accessToken, bootstrapped, path, redirectFlag,
                   listener>>
    /\ editedLate' = FALSE

(* Mutant: the bootstrap gives up and leaves the spinner.                  *)
BootstrapGivesUp(c) ==
    /\ Settled
    /\ c.kind = "me"
    /\ calls' = calls \ {c}
    /\ UNCHANGED <<wsVars, authVars, path, redirectFlag, listener, editedLate>>

(* The bootstrap fails without an answer (no network): clearAuth, and the  *)
(* page goes on without a reload, its socket with it.                      *)
BootstrapFails(c) ==
    /\ Settled
    /\ c.kind = "me" /\ c.token = bootstrapped
    /\ user' = NoUser
    /\ accessToken' = NoSession
    /\ bootstrapping' = FALSE
    /\ calls' = calls \ {c}
    /\ UNCHANGED <<wsVars, bootstrapped, path, redirectFlag, listener>>
    /\ editedLate' = FALSE

(* setUser of the profile the page knew when it sent the change.           *)
Edited(c) ==
    /\ Settled
    /\ c.kind = "edit"
    /\ user' = c.user
    /\ editedLate' = (editedLate \/ c.token # accessToken \/ c.user # Owner[c.token])
    /\ calls' = calls \ {c}
    /\ UNCHANGED <<wsVars, accessToken, bootstrapping, bootstrapped, path,
                   redirectFlag, listener>>

(* Data for a page, a sign-in that was refused, a profile nobody awaits.   *)
Answered(c) ==
    /\ Settled
    /\ \/ c.kind = "data"
       \/ c.kind = "login"
       \/ c.kind = "me" /\ c.token # bootstrapped
    /\ calls' = calls \ {c}
    /\ UNCHANGED <<wsVars, authVars, path, redirectFlag, listener, editedLate>>

(* request(): a 401 for a request that carried a token ends the session    *)
(* in the store and loads the sign-in page anew, unless it is on show.     *)
Unauthorized(c) ==
    /\ Settled
    /\ c.kind # "login" /\ c.token # NoSession
    /\ user' = NoUser
    /\ accessToken' = NoSession
    /\ bootstrapping' = FALSE
    /\ IF path = "/login"
       THEN /\ calls' = calls \ {c}
            /\ UNCHANGED <<wsVars, bootstrapped, path, listener>>
       ELSE /\ Unload
            /\ calls' = {}
            /\ bootstrapped' = NoSession
            /\ listener' = NoSession
            /\ path' = "/login"
    /\ UNCHANGED redirectFlag
    /\ editedLate' = FALSE

Answer(c) ==
    \/ SignedIn(c)
    \/ Bootstrapped(c)
    \/ BootstrapFails(c)
    \/ Edited(c)
    \/ Answered(c)
    \/ Unauthorized(c)

(* The WebSocket client's own events; what is heard goes to the page's     *)
(* handlers.                                                               *)
Socket ==
    /\ SocketEvent
    /\ UNCHANGED <<authVars, path, redirectFlag, listener, calls, editedLate>>

Next ==
    \/ RunEffects
    \/ \E route \in Visited : Visit(route)
    \/ \E t \in Sessions : SubmitLogin(t) \/ ReturnFromOAuth(t)
    \/ Fetch
    \/ EditProfile
    \/ Logout
    \/ Reload
    \/ \E c \in calls : Answer(c)
    \/ Socket

(* Effects run, timers fire and the bootstrap request is answered or fails *)
(* (fetch settles), however often the user's clicks come in between.       *)
Fairness ==
    /\ WF_vars(RunEffects)
    /\ SF_vars(Socket /\ timers' < timers)
    /\ WF_vars(Socket /\ \E s \in Sockets : OnClose(s))
    /\ SF_vars(\E c \in calls : c.kind = "me" /\ Answer(c))

Spec == Init /\ [][Next]_vars /\ Fairness

-----------------------------------------------------------------------------
(* Every variable has its type, and the client's invariants hold.          *)
TypeOK ==
    /\ WsTypeOK
    /\ user \in Users \cup {NoUser}
    /\ accessToken \in Sessions \cup {NoSession}
    /\ bootstrapped \in Sessions \cup {NoSession}
    /\ listener \in Sessions \cup {NoSession}
    /\ bootstrapping \in BOOLEAN /\ redirectFlag \in BOOLEAN /\ editedLate \in BOOLEAN
    /\ path \in Visited
    /\ calls \subseteq Calls

(* Whoever signs in, out and in again, and however late the answers come:  *)
(* the profile on show is the profile of the token the requests carry.     *)
(* The one exception is the answer to a profile edit that outlives the     *)
(* session it was made in, which puts the former user back on show.        *)
OwnProfile ==
    IsAuthenticated /\ ~editedLate => user = Owner[accessToken]

(* A page's handlers hear only what was sent to the session that the page  *)
(* was set up for, though the sockets of other sessions may still be open. *)
HeardAsSelf ==
    [][heard' # heard /\ listener # NoSession => heard' = listener]_vars

(* A guarded page does not stay undecided: the spinner ends, and a visitor *)
(* who is signed out is sent away.                                         *)
Undecided == path \in GuardedRoutes /\ (bootstrapping \/ ~IsAuthenticated)
GuardedPageDecides == Undecided ~> ~Undecided
=============================================================================
