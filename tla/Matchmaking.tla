---------------------------- MODULE Matchmaking ----------------------------
(***************************************************************************)
(* Queueing and pairing over Redis (MatchmakingService, and the handlers   *)
(* queue_join and queue_leave that call it).  Redis runs each command      *)
(* atomically; a handler gives up control between any two commands, to     *)
(* handlers of its own and of other backend instances.  A player has one   *)
(* socket, whose events are handled one by one.                            *)
(*                                                                         *)
(* Abstractions.  An entry's joined_at_ms, which also is its score, is a   *)
(* ticket that names the entry for good; the same ticket stands for the    *)
(* uuid4 of the lock taken by the handler that wrote the entry.  A setting *)
(* of a key and of its TTL are one step, and so are the two reads of a     *)
(* candidate's hash, of which the second only breaks ties.  The TTL of the *)
(* sorted set, refreshed by every join, outlives the hashes: it is left    *)
(* out.                                                                    *)
(***************************************************************************)
EXTENDS Integers, FiniteSets

CONSTANTS
    Players,
    TimeControls,
    Rating,         \* a rating for each player
    Threshold,      \* RATING_THRESHOLD
    MaxJoins,       \* bounds on the entries written, on the locks that expire
    MaxStalls,      \* under a slow handler, and on the handlers that die
    MaxCrashes

ASSUME MatchmakingAssumption ==
    /\ Rating \in [Players -> Nat]
    /\ "nobody" \notin Players /\ "none" \notin TimeControls
    /\ Threshold \in Nat /\ MaxJoins \in Nat /\ MaxStalls \in Nat /\ MaxCrashes \in Nat

VARIABLES
    entry,      \* mm:user:<player>
    queue,      \* mm:queue:<tc>: the score of each player, 0 for a non-member
    lock,       \* lock:matchmaking:<tc>: the token stored, 0 for none
    games,      \* the games created, each with the entries it was made from
    tickets, stalls, crashes,   \* how many joins, stalls and crashes so far
    pc,         \* the command each player's handler runs next
    job         \* what it holds in memory

redis == <<entry, queue, lock>>
counters == <<tickets, stalls, crashes>>
vars == <<redis, games, counters, pc, job>>

Tickets == 1..MaxJoins
NoEntry == [tc |-> "none", ticket |-> 0]
NoBody == "nobody"

\* ticket: of the entry written, and the token.  mine, other: the entries loaded
\* for the player and for the best match so far.  rest: candidates to examine.
NoJob == [tc |-> "none", ticket |-> 0, mine |-> NoEntry, best |-> NoBody,
          other |-> NoEntry, rest |-> {}]

Init ==
    /\ entry = [p \in Players |-> NoEntry]
    /\ queue = [tc \in TimeControls |-> [p \in Players |-> 0]]
    /\ lock = [tc \in TimeControls |-> 0]
    /\ games = {}
    /\ tickets = 0 /\ stalls = 0 /\ crashes = 0
    /\ pc = [p \in Players |-> "idle"]
    /\ job = [p \in Players |-> NoJob]

-----------------------------------------------------------------------------
Goto(p, label) == pc' = [pc EXCEPT ![p] = label]

Hold(p, label, j) ==
    /\ Goto(p, label)
    /\ job' = [job EXCEPT ![p] = j]

Return(p) == Hold(p, "idle", NoJob)

(* join_queue.  A player with an entry is refused. *)

Join(p, tc) ==
    /\ pc[p] = "idle"
    /\ entry[p] = NoEntry
    /\ tickets < MaxJoins
    /\ tickets' = tickets + 1
    /\ Hold(p, "hset", [NoJob EXCEPT !.tc = tc, !.ticket = tickets + 1])
    /\ UNCHANGED <<redis, games, stalls, crashes>>

SetEntry(p) ==
    /\ pc[p] = "hset"
    /\ entry' = [entry EXCEPT ![p] = [tc |-> job[p].tc, ticket |-> job[p].ticket]]
    /\ Goto(p, "zadd")
    /\ UNCHANGED <<queue, lock, games, counters, job>>

AddToQueue(p) ==
    /\ pc[p] = "zadd"
    /\ queue' = [queue EXCEPT ![job[p].tc][p] = job[p].ticket]
    /\ Goto(p, "load")
    /\ UNCHANGED <<entry, lock, games, counters, job>>

(* leave_queue, for a queue_leave and for a closed socket alike. *)

LoadToLeave(p) ==
    /\ pc[p] = "idle"
    /\ entry[p] # NoEntry
    /\ Hold(p, "leave_zrem", [NoJob EXCEPT !.tc = entry[p].tc])
    /\ UNCHANGED <<redis, games, counters>>

LeaveQueue(p) ==
    /\ pc[p] = "leave_zrem"
    /\ queue' = [queue EXCEPT ![job[p].tc][p] = 0]
    /\ Goto(p, "leave_delete")
    /\ UNCHANGED <<entry, lock, games, counters, job>>

DeleteOwnEntry(p) ==
    /\ pc[p] = "leave_delete"
    /\ entry' = [entry EXCEPT ![p] = NoEntry]
    /\ Return(p)
    /\ UNCHANGED <<queue, lock, games, counters>>

-----------------------------------------------------------------------------
(* try_match, by the player who has just joined. *)

LoadToMatch(p) ==
    /\ pc[p] = "load"
    /\ IF entry[p] = NoEntry THEN Return(p) ELSE Goto(p, "lock") /\ UNCHANGED job
    /\ UNCHANGED <<redis, games, counters>>

\* Mutant: SET without NX.
AcquireAnyLock(p) ==
    /\ pc[p] = "lock"
    /\ lock' = [lock EXCEPT ![job[p].tc] = job[p].ticket]
    /\ Goto(p, "reload")
    /\ UNCHANGED <<entry, queue, games, counters, job>>

\* SET NX: whoever finds the lock taken goes away, and nobody calls them back.
AcquireLock(p) ==
    /\ pc[p] = "lock"
    /\ \/ /\ lock[job[p].tc] = 0
          /\ lock' = [lock EXCEPT ![job[p].tc] = job[p].ticket]
          /\ Goto(p, "reload")
          /\ UNCHANGED job
       \/ /\ lock[job[p].tc] # 0
          /\ Return(p)
          /\ UNCHANGED lock
    /\ UNCHANGED <<entry, queue, games, counters>>

Reload(p) ==
    /\ pc[p] = "reload"
    /\ IF entry[p] = NoEntry
       THEN Goto(p, "release") /\ UNCHANGED job
       ELSE Hold(p, "zrange", [job[p] EXCEPT !.mine = entry[p]])
    /\ UNCHANGED <<redis, games, counters>>

\* The other members with their scores, as zrange lists them.
Candidates(p, tc) ==
    {[player |-> q, score |-> queue[tc][q]] : q \in {r \in Players \ {p} : queue[tc][r] # 0}}

\* They are looked at in the order of the scores, which differ.
First(rest) == {c \in rest : \A d \in rest : c.score <= d.score}

ListCandidates(p) ==
    /\ pc[p] = "zrange"
    /\ Hold(p, "scan", [job[p] EXCEPT !.rest = Candidates(p, job[p].mine.tc)])
    /\ UNCHANGED <<redis, games, counters>>

Gap(p, q) == IF Rating[p] <= Rating[q] THEN Rating[q] - Rating[p]
                                       ELSE Rating[p] - Rating[q]

\* The candidate q with entry e replaces the best match of p so far.
IsBetter(p, q, e) ==
    LET best == job[p].best
    IN  /\ e.tc = job[p].mine.tc
        /\ Gap(p, q) <= Threshold
        /\ \/ best = NoBody
           \/ Gap(p, q) < Gap(p, best)
           \/ Gap(p, q) = Gap(p, best) /\ e.ticket < job[p].other.ticket

Examine(p) ==
    /\ pc[p] = "scan"
    /\ \E c \in First(job[p].rest) :
        LET q == c.player
            seen == [job[p] EXCEPT !.rest = @ \ {c}]
        IN  \/ /\ entry[q] = NoEntry
               /\ Goto(p, "stale")
               /\ UNCHANGED job
            \/ /\ entry[q] # NoEntry
               /\ Hold(p, "scan", IF IsBetter(p, q, entry[q])
                                  THEN [seen EXCEPT !.best = q, !.other = entry[q]]
                                  ELSE seen)
    /\ UNCHANGED <<redis, games, counters>>

\* A member whose hash was not there is dropped from the set.
DropStaleMember(p) ==
    /\ pc[p] = "stale"
    /\ \E c \in First(job[p].rest) :
        /\ queue' = [queue EXCEPT ![job[p].mine.tc][c.player] = 0]
        /\ Hold(p, "scan", [job[p] EXCEPT !.rest = @ \ {c}])
    /\ UNCHANGED <<entry, lock, games, counters>>

Choose(p) ==
    /\ pc[p] = "scan"
    /\ job[p].rest = {}
    /\ Goto(p, IF job[p].best = NoBody THEN "release" ELSE "zrem")
    /\ UNCHANGED <<redis, games, counters, job>>

DequeueBoth(p) ==
    /\ pc[p] = "zrem"
    /\ queue' = [queue EXCEPT ![job[p].mine.tc][p] = 0,
                              ![job[p].mine.tc][job[p].best] = 0]
    /\ Goto(p, "delete")
    /\ UNCHANGED <<entry, lock, games, counters, job>>

DeleteBoth(p) ==
    /\ pc[p] = "delete"
    /\ entry' = [entry EXCEPT ![p] = NoEntry, ![job[p].best] = NoEntry]
    /\ Goto(p, "release")
    /\ UNCHANGED <<queue, lock, games, counters, job>>

\* Mutant: DEL, whatever token the lock holds.
ReleaseAnyLock(p) ==
    /\ pc[p] = "release"
    /\ lock' = [lock EXCEPT ![job[p].tc] = 0]
    /\ IF job[p].best = NoBody THEN Return(p) ELSE Goto(p, "create") /\ UNCHANGED job
    /\ UNCHANGED <<entry, queue, games, counters>>

\* The Lua script compares the token before it deletes.
ReleaseLock(p) ==
    /\ pc[p] = "release"
    /\ lock' = [lock EXCEPT ![job[p].tc] = IF @ = job[p].ticket THEN 0 ELSE @]
    /\ IF job[p].best = NoBody THEN Return(p) ELSE Goto(p, "create") /\ UNCHANGED job
    /\ UNCHANGED <<entry, queue, games, counters>>

\* handle_queue_join goes on to GameService.create_game.
CreateGame(p) ==
    /\ pc[p] = "create"
    /\ games' = games \cup {[by |-> job[p].ticket,
                             players |-> {p, job[p].best},
                             entries |-> {job[p].mine.ticket, job[p].other.ticket}]}
    /\ Return(p)
    /\ UNCHANGED <<redis, counters>>

-----------------------------------------------------------------------------
(* Time and failures. *)

\* The handler of p is between its SET NX and its release.
IsSearching(p) ==
    pc[p] \in {"reload", "zrange", "scan", "stale", "zrem", "delete", "release"}

HolderIsAlive(tc) ==
    \E p \in Players : IsSearching(p) /\ job[p].tc = tc /\ job[p].ticket = lock[tc]

\* Mutant: the lock is set without a TTL.
ExpireNeverLock(tc) == FALSE /\ UNCHANGED vars

\* LOCK_TTL_SECONDS after it was taken the lock goes: one that a dead handler
\* left behind, or that of a handler slower than that.
ExpireLock(tc) ==
    /\ lock[tc] # 0
    /\ ~HolderIsAlive(tc)
    /\ lock' = [lock EXCEPT ![tc] = 0]
    /\ UNCHANGED <<entry, queue, games, counters, pc, job>>

ExpireLockOfSlowHandler(tc) ==
    /\ lock[tc] # 0
    /\ HolderIsAlive(tc)
    /\ stalls < MaxStalls
    /\ stalls' = stalls + 1
    /\ lock' = [lock EXCEPT ![tc] = 0]
    /\ UNCHANGED <<entry, queue, games, tickets, crashes, pc, job>>

\* QUEUE_TTL_SECONDS after its join a waiting player's hash goes, the member of
\* the set stays.
ExpireEntry(p) ==
    /\ pc[p] = "idle"
    /\ entry[p] # NoEntry
    /\ entry' = [entry EXCEPT ![p] = NoEntry]
    /\ UNCHANGED <<queue, lock, games, counters, pc, job>>

\* The instance dies, or Redis fails the command: the handler goes no further.
Crash(p) ==
    /\ pc[p] # "idle"
    /\ crashes < MaxCrashes
    /\ crashes' = crashes + 1
    /\ Return(p)
    /\ UNCHANGED <<redis, games, tickets, stalls>>

-----------------------------------------------------------------------------
Continue(p) ==
    \/ SetEntry(p) \/ AddToQueue(p)
    \/ LeaveQueue(p) \/ DeleteOwnEntry(p)
    \/ LoadToMatch(p) \/ AcquireLock(p) \/ Reload(p) \/ ListCandidates(p)
    \/ Examine(p) \/ DropStaleMember(p) \/ Choose(p)
    \/ DequeueBoth(p) \/ DeleteBoth(p) \/ ReleaseLock(p) \/ CreateGame(p)

Next ==
    \/ \E p \in Players :
        \/ \E tc \in TimeControls : Join(p, tc)
        \/ LoadToLeave(p)
        \/ Continue(p)
        \/ ExpireEntry(p)
        \/ Crash(p)
    \/ \E tc \in TimeControls :
        \/ ExpireLock(tc)
        \/ ExpireLockOfSlowHandler(tc)

Spec == Init /\ [][Next]_vars

\* A running handler goes on; a TTL runs out.
FairSpec ==
    /\ Spec
    /\ \A p \in Players : WF_vars(Continue(p))
    /\ \A tc \in TimeControls : WF_vars(ExpireLock(tc))

-----------------------------------------------------------------------------
(* Properties. *)

Entries == [tc : TimeControls \cup {"none"}, ticket : 0..MaxJoins]
Awaits == {"idle", "hset", "zadd", "leave_zrem", "leave_delete", "load", "lock",
           "reload", "zrange", "scan", "stale", "zrem", "delete", "release", "create"}
Jobs == [tc : TimeControls \cup {"none"}, ticket : 0..MaxJoins,
         mine : Entries, best : Players \cup {NoBody}, other : Entries,
         rest : SUBSET [player : Players, score : Tickets]]

TypeOK ==
    /\ entry \in [Players -> Entries]
    /\ queue \in [TimeControls -> [Players -> 0..MaxJoins]]
    /\ lock \in [TimeControls -> 0..MaxJoins]
    /\ games \in SUBSET [by : Tickets, players : SUBSET Players, entries : SUBSET Tickets]
    /\ tickets \in 0..MaxJoins /\ stalls \in 0..MaxStalls /\ crashes \in 0..MaxCrashes
    /\ pc \in [Players -> Awaits]
    /\ job \in [Players -> Jobs]

\* No queue entry makes two games, whoever joins, leaves, joins again, dies or
\* lets its hash expire while others search: what a searcher dequeues is gone
\* before the next one lists the set (docs/primitives.md, "can be matched twice").
EntryMakesOneGame ==
    \A g, h \in games : g # h => g.entries \cap h.entries = {}

\* Which is so as long as no lock expires under a handler that still searches.
EntryMakesOneGameUnlessStalled == stalls = 0 => EntryMakesOneGame

\* The lock is never taken from whoever holds it but by its TTL: a handler that
\* lost it to the TTL does not release the lock of the next one.
OnlyOwnerReleases ==
    [][\A tc \in TimeControls :
        lock[tc] # 0 /\ lock'[tc] # lock[tc] =>
            \/ \E p \in Players :
                /\ pc[p] = "release" /\ job[p].tc = tc /\ job[p].ticket = lock[tc]
            \/ stalls' # stalls
            \/ ~HolderIsAlive(tc)]_vars

\* A lock does not outlive the handler that took it for long: after a crash in
\* the middle of a search the pool can be searched again.
LockIsFreed ==
    \A tc \in TimeControls : \A t \in Tickets : lock[tc] = t ~> lock[tc] # t
=============================================================================
