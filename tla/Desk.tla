-------------------------------- MODULE Desk --------------------------------
(***************************************************************************)
(* The pages that show lists and forms: tournaments, scheduled matches,    *)
(* clubs, shop, profile, settings, and the cards of the admin page.  They  *)
(* share a cache of server state by query key (TanStack Query): a page     *)
(* asks for what it shows, an action writes tables of the server, and its  *)
(* success handler tells the cache which keys are stale, or fills one.     *)
(* clock counts the writes; what is cached carries the clock at which the  *)
(* server read it.  The user stays in one corner, a set of pages.          *)
(***************************************************************************)
EXTENDS Naturals, FiniteSets

CONSTANTS
    Corners,   \* sets of pages
    MaxActions, \* bound on the user's actions
    MaxWaiting \* bound on the requests in flight when the user goes on

VARIABLES
    corner,
    page,
    cache,    \* by query: the clock it was read at, 0 for nothing, and stale
    requests, \* GET requests in flight, at most one of a query, and the calls that wait
    calls,    \* the user's actions whose handlers are not through
    made,     \* how many there were
    clock,
    own,      \* by table: the newest write of an action that is through
    hidden,   \* the tournament's page shows only the error of an action
    paying,   \* it shows a payment intent
    excused   \* queries that may show less than the user has done

deskVars == <<corner, page, cache, requests, calls, made, clock, own, hidden, paying, excused>>

-----------------------------------------------------------------------------
(* The server's tables, and the queries whose answers show them.           *)
ReadersOf ==
    [tournament |-> {"tournaments", "tournament", "dashboard-tournaments"},
     match |-> {"scheduled-matches"},
     game  |-> {"dashboard-history", "history"},
     wallet |-> {"profile", "shop-inventory"},
     goods |-> {"shop-inventory"},
     club  |-> {"clubs"},
     user  |-> {"profile", "leaderboard"},
     face  |-> {"face-verification-profiles"},
     adminCard |-> {"admin-card"},
     log   |-> {"admin-logs"}]

Tables == DOMAIN ReadersOf
Queries == UNION {ReadersOf[t] : t \in Tables}

(* The useQuery calls of each page, as far as the user's actions on these  *)
(* pages can change their answers.  AdminCard is the admin page looked at  *)
(* through one of its cards: users, tournaments, matches, games, the       *)
(* catalog or payments.                                                    *)
Shows ==
    [TournamentsPage |-> {"tournaments"}, OtbManagerPage |-> {"tournaments"},
     TournamentDetailPage |-> {"tournament"},
     ScheduledMatchesPage |-> {"scheduled-matches"},
     ClubsPage |-> {"clubs"}, ShopPage |-> {"shop-inventory"},
     ProfilePage |-> {"profile", "shop-inventory"},
     SettingsPage |-> {"face-verification-profiles"},
     DashboardPage |-> {"dashboard-history", "dashboard-tournaments"},
     HistoryPage |-> {"history"}, LeaderboardPage |-> {"leaderboard"},
     AdminCard |-> {"admin-card", "admin-logs"}]

ASSUME DeskAssumption ==
    /\ \A pages \in Corners : pages \subseteq DOMAIN Shows
    /\ MaxActions \in Nat /\ MaxWaiting \in Nat

(* An action: the tables it writes, the keys its handler invalidates, the  *)
(* keys it invalidates after that, and the page it goes to in the end.     *)
Act(on, name, writes, tells) ==
    [on |-> on, name |-> name, writes |-> writes, tells |-> tells, then |-> {}, goes |-> on]

TournamentsActs ==
    {[Act("TournamentsPage", "create", {"tournament"}, {"tournaments"})
        EXCEPT !.goes = "TournamentDetailPage"],
     Act("TournamentsPage", "join or leave", {"tournament"}, {"tournaments"})}

OtbManagerActs ==
    {[Act("OtbManagerPage", "create", {"tournament"}, {"tournaments"})
        EXCEPT !.goes = "TournamentDetailPage"]}

(* Mutant: the tournament's own page is not told.                          *)
TournamentDetailTellsList == {"tournaments"}
TournamentDetailTells == {"tournament", "tournaments"}

TournamentDetailActs ==
    LET act(name, writes) == Act("TournamentDetailPage", name, writes, TournamentDetailTells)
    IN  {act("join, leave or addOtb", {"tournament"}),
         act("start or advance", {"tournament", "game"}),
         Act("TournamentDetailPage", "reserve", {}, {}),
         act("simulate", {"tournament", "wallet"})}

ScheduledMatchesActs ==
    LET act(name, writes, tells) == Act("ScheduledMatchesPage", name, writes,
                                        {"scheduled-matches"} \cup tells)
    IN  {act("create", {"match"}, {}), act("answer", {"match"}, {}),
         [act("start", {"match", "game"}, {}) EXCEPT !.goes = "GamePage"],
         act("pay", {"match", "wallet"}, {"profile"})}

(* The handlers of the clubs fill the cache with the club in the answer.   *)
ClubsActs == {Act("ClubsPage", name, {"club"}, {}) : name \in {"create", "join or leave", "update"}}
Fills(a) == IF a.on = "ClubsPage" THEN {"clubs"} ELSE {}

ShopActs ==
    {Act("ShopPage", "purchase", {"wallet", "goods"}, {"shop-inventory", "profile"}),
     Act("ShopPage", "equip", {"goods"}, {"shop-inventory", "profile"})}

ProfileActs == {Act("ProfilePage", "avatar", {"user"}, {"profile"})}

SettingsActs ==
    {Act("SettingsPage", "enroll", {"face"}, {"face-verification-profiles"}),
     Act("SettingsPage", "save", {"user"}, {})}

(* The change and its entry in the log, two commits, are one write here.   *)
(* The forms of a card are there before its list is.                       *)
AdminActs ==
    {[Act("AdminCard", name, {"adminCard", "log"}, {"admin-card"})
        EXCEPT !.then = {"admin-logs"}] : name \in {"create", "change"}}

Acts == TournamentsActs \cup OtbManagerActs \cup TournamentDetailActs
            \cup ScheduledMatchesActs \cup ClubsActs \cup ShopActs
            \cup ProfileActs \cup SettingsActs \cup AdminActs

-----------------------------------------------------------------------------
Asked(q) == \E r \in requests : r.query = q
Request(q, by) == [query |-> q, at |-> 0, awaited |-> by]
There(q) == cache[q].seen > 0

DeskInit ==
    /\ corner \in Corners
    /\ page = "elsewhere"
    /\ cache = [q \in Queries |-> [seen |-> 0, stale |-> FALSE]]
    /\ requests = {} /\ calls = {} /\ made = 0
    /\ clock = 1
    /\ own = [t \in Tables |-> 0]
    /\ hidden = FALSE /\ paying = FALSE /\ excused = {}

(* A page is mounted and asks for what is not cached or stale; what was    *)
(* cached more than thirty seconds ago counts as stale, too.  The actions  *)
(* of the page before go on, and no longer reach its state.                *)
Mount(p, acting) ==
    /\ page' = p
    /\ \E aged \in SUBSET Shows[p] :
          requests' = requests \cup
              {Request(q, {}) : q \in {q \in Shows[p] : ~Asked(q) /\
                                      (~There(q) \/ cache[q].stale \/ q \in aged)}}
    /\ calls' = {[c EXCEPT !.live = FALSE] : c \in acting}
    /\ hidden' = FALSE /\ paying' = FALSE

Visit(p) ==
    /\ page # p
    /\ Cardinality(requests) <= MaxWaiting
    /\ Mount(p, calls)
    /\ UNCHANGED <<corner, cache, made, clock, own, excused>>

(* The window gets the focus, the network is back, or the five seconds of  *)
(* an active tournament are over.                                          *)
Refetch(q) ==
    /\ page # "elsewhere" /\ q \in Shows[page]
    /\ There(q) /\ ~Asked(q) /\ Cardinality(requests) < MaxWaiting
    /\ requests' = requests \cup {Request(q, {})}
    /\ UNCHANGED <<corner, page, cache, calls, made, clock, own, hidden, paying, excused>>

RequestServed(r) ==
    /\ r.at = 0
    /\ requests' = (requests \ {r}) \cup {[r EXCEPT !.at = clock]}
    /\ UNCHANGED <<corner, page, cache, calls, made, clock, own, hidden, paying, excused>>

(* What is known of a query covers what the user has done.                 *)
Covers(q, at) == \A t \in Tables : q \in ReadersOf[t] => own[t] <= at

RequestArrives(r) ==
    /\ r.at > 0
    /\ requests' = requests \ {r}
    /\ cache' = [cache EXCEPT ![r.query] = [seen |-> r.at, stale |-> FALSE]]
    /\ excused' = IF Covers(r.query, r.at) /\ \A c \in calls : c.told => c.at <= r.at
                  THEN excused \ {r.query} ELSE excused
    /\ UNCHANGED <<corner, page, calls, made, clock, own, hidden, paying>>

(* It fails, twice; what is cached stays and counts as stale.              *)
RequestFails(r) ==
    /\ requests' = requests \ {r}
    /\ cache' = [cache EXCEPT ![r.query].stale = There(r.query)]
    /\ excused' = excused \cup (IF There(r.query) THEN {r.query} ELSE {})
    /\ UNCHANGED <<corner, page, calls, made, clock, own, hidden, paying>>

-----------------------------------------------------------------------------
(* How many actions of a kind a page can have under way: a button waits    *)
(* for its own mutation, and some kinds stand for several buttons; those   *)
(* of the shop wait for each other's; those of a match and of the admin    *)
(* page wait for nothing.                                                  *)
AtOnce(a) ==
    CASE a.on = "AdminCard" \/ (a.on = "ScheduledMatchesPage" /\ a.name # "create") -> MaxActions
      [] a.name = "join, leave or addOtb" -> 3
      [] a.on = "TournamentsPage" /\ a.name = "join or leave" -> 2
      [] a.name \in {"start or advance", "enroll"} -> 2
      [] OTHER -> 1

Pending(a) == {c \in calls : c.live /\ (c.act = a \/ (a.on = "ShopPage" /\ c.act.on = a.on))}

MayAct(a) ==
    /\ page = a.on
    /\ Cardinality(Pending(a)) < AtOnce(a)
    /\ a.name = "create" \/ \A q \in Shows[page] : There(q)
    /\ a.on = "TournamentDetailPage" => ~hidden
    /\ a.name = "simulate" => paying

Do(a) ==
    /\ MayAct(a)
    /\ made < MaxActions
    /\ made' = made + 1
    /\ calls' = calls \cup {[id |-> made', act |-> a, at |-> 0, told |-> FALSE, live |-> TRUE]}
    /\ UNCHANGED <<corner, page, cache, requests, clock, own, hidden, paying, excused>>

Commits(c) ==
    /\ c.at = 0
    /\ clock' = clock + 1
    /\ calls' = (calls \ {c}) \cup {[c EXCEPT !.at = clock']}
    /\ UNCHANGED <<corner, page, cache, requests, made, own, hidden, paying, excused>>

(* It is refused, or its answer is lost: onError.                          *)
Fails(c) ==
    /\ ~c.told
    /\ calls' = calls \ {c}
    /\ hidden' = (hidden \/ (c.live /\ page = "TournamentDetailPage"))
    /\ UNCHANGED <<corner, page, cache, requests, made, clock, own, paying, excused>>

(* Queries that a page shows are asked for again when they are invalidated,*)
(* and a request under way is given up, unless it is the first one.  The   *)
(* handlers in by wait for what is asked.                                  *)
OnShow(q) == page # "elsewhere" /\ q \in Shows[page]
Kept(tells) == {r \in requests : r.query \in tells => ~OnShow(r.query) \/ ~There(r.query)}

Joined(r, tells, by) ==
    IF r.query \in tells /\ OnShow(r.query) THEN [r EXCEPT !.awaited = @ \cup by] ELSE r

Invalidated(tells, by) ==
    {Joined(r, tells, by) : r \in Kept(tells)} \cup
        {Request(q, by) : q \in {q \in tells : OnShow(q) /\ (There(q) \/ ~Asked(q))}}

(* Requests that were read before the action and outlive its handler: their*)
(* answers will count as fresh.                                            *)
Late(queries, at) ==
    {q \in queries : \E r \in Kept(queries) : r.query = q /\ r.at > 0 /\ r.at < at}

(* Queries filled in before an older request arrives, or after a newer     *)
(* action's answer.                                                        *)
Forgotten(queries, at) ==
    {q \in queries : cache[q].seen > at \/
                        \E r \in requests : r.query = q /\ r.at > 0 /\ r.at < at}

(* What shows the action's writes and is not told, off the action's page.  *)
Untold(a) ==
    (UNION {ReadersOf[t] : t \in a.writes}) \ (a.tells \cup a.then \cup Shows[a.on])

(* onSuccess.  Most handlers end with the requests they make; a handler    *)
(* that has more to do waits for them.                                     *)
Waits(a) == a.then # {} \/ a.goes # a.on

Through(c) ==
    own' = [t \in Tables |-> IF t \in c.act.writes /\ own[t] < c.at THEN c.at ELSE own[t]]

Stale(queries) == [q \in Queries |-> [cache[q] EXCEPT !.stale = @ \/ (There(q) /\ q \in queries)]]

Succeeds(c) ==
    /\ c.at > 0 /\ ~c.told
    /\ IF Waits(c.act)
       THEN calls' = (calls \ {c}) \cup {[c EXCEPT !.told = TRUE]} /\ UNCHANGED own
       ELSE calls' = calls \ {c} /\ Through(c)
    /\ requests' = Invalidated(c.act.tells, IF Waits(c.act) THEN {c.id} ELSE {})
    /\ cache' = [q \in Queries |-> IF q \in Fills(c.act) THEN [seen |-> c.at, stale |-> FALSE]
                                   ELSE Stale(c.act.tells)[q]]
    /\ excused' = excused \cup Untold(c.act) \cup Late(c.act.tells, c.at)
                          \cup Forgotten(Fills(c.act), c.at)
    /\ hidden' = (hidden /\ ~c.live)
    /\ paying' = (paying \/ (c.live /\ c.act.name = "reserve"))
    /\ UNCHANGED <<corner, page, made, clock>>

(* The rest of the keys, or the page it goes to, wherever the user is, once*)
(* the handler's own requests are answered, failed or given up for another *)
(* handler's.                                                              *)
Ends(c) ==
    /\ c.told
    /\ \A r \in requests : c.id \notin r.awaited
    /\ Through(c)
    /\ cache' = Stale(c.act.then)
    /\ excused' = excused \cup Late(c.act.then, c.at)
    /\ IF c.act.then = {} /\ c.act.goes \in corner \ {page}
       THEN Mount(c.act.goes, calls \ {c})
       ELSE /\ calls' = calls \ {c}
            /\ requests' = Invalidated(c.act.then, {})
            /\ UNCHANGED <<page, hidden, paying>>
    /\ UNCHANGED <<corner, made, clock>>

DeskNext ==
    \/ \E p \in corner : Visit(p)
    \/ \E q \in Queries : Refetch(q)
    \/ \E r \in requests : RequestServed(r) \/ RequestArrives(r) \/ RequestFails(r)
    \/ \E a \in Acts : Do(a)
    \/ \E c \in calls : Commits(c) \/ Fails(c) \/ Succeeds(c) \/ Ends(c)

-----------------------------------------------------------------------------
(* What the user has done shows: with no request for it under way, a page  *)
(* shows the writes of every action whose handlers are through, its own    *)
(* and those of the pages before, however requests, polls and actions      *)
(* overlapped.  Four things only can keep it from that: a request that     *)
(* failed; a key of another page that the handler does not name (the       *)
(* dashboard's, the leaderboard's, the wallet after a tournament's entry); *)
(* an answer older than the action to a request that it could not cancel;  *)
(* and a club filled in from answers that came in the wrong order.         *)
OwnActionsShow ==
    page # "elsewhere" =>
        \A q \in Shows[page] :
            There(q) /\ ~Asked(q) => Covers(q, cache[q].seen) \/ q \in excused
=============================================================================
