------------------------- MODULE Matchmaking_proofs -------------------------
(***************************************************************************)
(* Pairing under the lock, for any number of players, pools, joins and     *)
(* crashes: no entry makes two games while no lock expires under a handler *)
(* that still searches, and only its owner releases a lock.                *)
(***************************************************************************)
EXTENDS Matchmaking, TLAPS

(* The types, in three parts.                                              *)
Store ==
    /\ entry \in [Players -> Entries]
    /\ queue \in [TimeControls -> [Players -> 0..MaxJoins]]
    /\ lock \in [TimeControls -> 0..MaxJoins]
    /\ games \in SUBSET [by : Tickets, players : SUBSET Players, entries : SUBSET Tickets]
Counted ==
    /\ tickets \in 0..MaxJoins /\ stalls \in 0..MaxStalls /\ crashes \in 0..MaxCrashes
Control == pc \in [Players -> Awaits] /\ job \in [Players -> Jobs]
Typed == Store /\ Counted /\ Control

(* The labels of a handler that joined, and of one that has loaded its own *)
(* entry under the lock and not yet deleted it.                            *)
Joining == {"hset", "zadd", "load", "lock", "reload", "zrange", "scan", "stale",
            "zrem", "delete", "release", "create"}
Loaded == {"zrange", "scan", "stale", "zrem", "delete"}
Picking == {"scan", "stale", "zrem", "delete", "release", "create"}

(* A ticket names its player and time control for good: e is an entry of   *)
(* player p, among the first n tickets.                                    *)
Names(e, p, n, owner, tcOf) ==
    /\ e.ticket \in 1..n /\ e.tc \in TimeControls
    /\ owner[e.ticket] = p /\ tcOf[e.ticket] = e.tc

Own(j) == [tc |-> j.tc, ticket |-> j.ticket]

(* What a handler of p at label c holds in j, while p's hash is e.         *)
Facts(p, e, c, j, n, owner, tcOf) ==
    /\ e # NoEntry => Names(e, p, n, owner, tcOf)
    /\ c \in Joining => Names(Own(j), p, n, owner, tcOf) /\ e \in {NoEntry, Own(j)}
    /\ c = "hset" => e = NoEntry
    /\ c \in Loaded \/ j.best # NoBody => j.mine = Own(j)
    /\ c \in {"zrem", "delete", "create"} => j.best # NoBody
    /\ c \notin Picking => j.best = NoBody
    /\ j.best # NoBody => Names(j.other, j.best, n, owner, tcOf) /\ j.other.tc = j.tc
    /\ c \in {"leave_zrem", "leave_delete"} => j.tc \in TimeControls

Named(owner, tcOf) ==
    /\ owner \in [Tickets -> Players \cup {NoBody}]
    /\ tcOf \in [Tickets -> TimeControls \cup {"none"}]
    /\ \A p \in Players : Facts(p, entry[p], pc[p], job[p], tickets, owner, tcOf)

-----------------------------------------------------------------------------
(* What the bookkeeping of a step does to the labels and the memory.       *)
LEMMA NoJobType == NoJob \in Jobs /\ NoEntry \in Entries
  BY MatchmakingAssumption DEF NoJob, Jobs, NoEntry, Entries, NoBody

LEMMA GotoMoves ==
    ASSUME Control, NEW p \in Players, NEW label \in Awaits, Goto(p, label), UNCHANGED job
    PROVE  /\ Control' /\ pc'[p] = label
           /\ \A r \in Players : job'[r] = job[r] /\ (r # p => pc'[r] = pc[r])
  BY DEF Control, Goto

LEMMA HoldMoves ==
    ASSUME Control, NEW p \in Players, NEW label \in Awaits, NEW j \in Jobs, Hold(p, label, j)
    PROVE  /\ Control' /\ pc'[p] = label /\ job'[p] = j
           /\ \A r \in Players : r # p => job'[r] = job[r] /\ pc'[r] = pc[r]
  BY DEF Control, Hold, Goto

LEMMA ReturnMoves ==
    ASSUME Control, NEW p \in Players, Return(p)
    PROVE  /\ Control' /\ pc'[p] = "idle" /\ job'[p] = NoJob
           /\ \A r \in Players : r # p => job'[r] = job[r] /\ pc'[r] = pc[r]
  BY NoJobType, HoldMoves DEF Return, Awaits

(* A handler that takes no step stays right while hashes go and tickets    *)
(* are issued; a handler that ends is right.                               *)
LEMMA FactsStay ==
    ASSUME NEW p, NEW e, NEW c, NEW j, NEW n \in Nat, NEW owner, NEW tcOf,
           Facts(p, e, c, j, n, owner, tcOf),
           NEW m \in Nat, n <= m, NEW f \in {e, NoEntry}
    PROVE  Facts(p, f, c, j, m, owner, tcOf)
  BY DEF Facts, Names

LEMMA FactsEnd ==
    ASSUME NEW p, NEW e, NEW c, NEW j, NEW n \in Nat, NEW owner, NEW tcOf,
           Facts(p, e, c, j, n, owner, tcOf), NEW f \in {e, NoEntry}
    PROVE  Facts(p, f, "idle", NoJob, n, owner, tcOf)
  BY DEF Facts, NoJob, Joining, Loaded

-----------------------------------------------------------------------------
(* First layer: types and names, action by action.                         *)
Others(p) ==
    \A r \in Players : r # p => job'[r] = job[r] /\ pc'[r] = pc[r]

Hashes(p) ==
    \A r \in Players : r # p => entry'[r] \in {entry[r], NoEntry}

LEMMA NamedBy ==
    ASSUME Typed, Counted', NEW owner, NEW tcOf, Named(owner, tcOf), NEW p \in Players,
           Others(p), Hashes(p), tickets' = tickets,
           Facts(p, entry'[p], pc'[p], job'[p], tickets, owner, tcOf)
    PROVE  Named(owner, tcOf)'
  <1>1. tickets \in Nat
    BY MatchmakingAssumption DEF Typed, Counted
  <1>2. ASSUME NEW r \in Players, r # p
        PROVE  Facts(r, entry'[r], pc'[r], job'[r], tickets, owner, tcOf)
    BY <1>1, <1>2, FactsStay DEF Named, Others, Hashes
  <1> QED BY <1>2 DEF Named

(* What a handler of p has to know before its step.                        *)
LEMMA Before ==
    ASSUME Typed, NEW owner, NEW tcOf, Named(owner, tcOf), NEW p \in Players
    PROVE  /\ job[p] \in Jobs /\ entry[p] \in Entries /\ tickets \in Nat
           /\ Facts(p, entry[p], pc[p], job[p], tickets, owner, tcOf)
           /\ tickets <= MaxJoins
           /\ owner \in [Tickets -> Players \cup {NoBody}]
           /\ tcOf \in [Tickets -> TimeControls \cup {"none"}]
  BY MatchmakingAssumption DEF Typed, Store, Control, Counted, Named

(* The time control that a handler of the queue works on is one.           *)
LEMMA PoolIsOne ==
    ASSUME Typed, NEW owner, NEW tcOf, Named(owner, tcOf), NEW p \in Players,
           pc[p] # "idle"
    PROVE  /\ job[p].tc \in TimeControls
           /\ pc[p] \in Joining => job[p].ticket \in 1..tickets /\ job[p].ticket \in Tickets
           /\ pc[p] \in Loaded => job[p].mine.tc \in TimeControls
  <1>0. /\ Facts(p, entry[p], pc[p], job[p], tickets, owner, tcOf)
        /\ tickets \in Nat /\ tickets <= MaxJoins /\ job[p] \in Jobs
        /\ owner \in [Tickets -> Players \cup {NoBody}]
        /\ tcOf \in [Tickets -> TimeControls \cup {"none"}]
    BY Before
  <1>1. pc[p] \in Joining \/ pc[p] \in {"leave_zrem", "leave_delete"}
    BY DEF Typed, Control, Awaits, Joining
  <1>2. ASSUME pc[p] \in Joining
        PROVE  /\ job[p].tc \in TimeControls
               /\ job[p].ticket \in 1..tickets /\ job[p].ticket \in Tickets
    <2>1. job[p].ticket \in 1..tickets /\ job[p].tc \in TimeControls
      BY <1>0, <1>2 DEF Facts, Names, Own
    <2>2. job[p].ticket \in Tickets
      BY <1>0, <2>1, MatchmakingAssumption DEF Tickets
    <2> QED BY <1>0, <2>1, <2>2
  <1>3. ASSUME pc[p] \in Loaded
        PROVE  pc[p] \in Joining /\ job[p].mine.tc = job[p].tc
    <2>1. job[p].mine = Own(job[p])
      BY <1>0, <1>3 DEF Facts
    <2> QED BY <1>3, <2>1 DEF Own, Loaded, Joining
  <1> QED BY <1>0, <1>1, <1>2, <1>3 DEF Facts

LEMMA JoinStep ==
    ASSUME Typed, NEW owner, NEW tcOf, Named(owner, tcOf), NEW p \in Players,
           NEW tc \in TimeControls, Join(p, tc)
    PROVE  /\ Typed' /\ Others(p) /\ pc'[p] = "hset"
           /\ job'[p] = [NoJob EXCEPT !.tc = tc, !.ticket = tickets + 1]
           /\ \E o, t : Named(o, t)'
  <1> DEFINE j == [NoJob EXCEPT !.tc = tc, !.ticket = tickets + 1]
  <1>1. Counted' /\ tickets + 1 \in Tickets /\ tickets + 1 \in 0..MaxJoins
    BY MatchmakingAssumption DEF Typed, Counted, Join, Tickets
  <1>2. j \in Jobs
    BY <1>1, NoJobType DEF Jobs
  <1>3. Control' /\ pc'[p] = "hset" /\ job'[p] = j /\ Others(p)
    BY <1>2, HoldMoves DEF Join, Typed, Awaits, Others
  <1>4. Store' /\ UNCHANGED entry
    BY DEF Join, Typed, Store, redis
  <1>5. \E o \in [Tickets -> Players \cup {NoBody}],
           t \in [Tickets -> TimeControls \cup {"none"}] :
            o = [owner EXCEPT ![tickets + 1] = p] /\ t = [tcOf EXCEPT ![tickets + 1] = tc]
    BY <1>1 DEF Named
  <1> PICK o \in [Tickets -> Players \cup {NoBody}],
           t \in [Tickets -> TimeControls \cup {"none"}] :
            o = [owner EXCEPT ![tickets + 1] = p] /\ t = [tcOf EXCEPT ![tickets + 1] = tc]
    BY <1>5
  <1>6. ASSUME NEW r \in Players, NEW e, NEW c, NEW k,
               Facts(r, e, c, k, tickets, owner, tcOf)
        PROVE  Facts(r, e, c, k, tickets + 1, o, t)
    <2>1. tickets \in Nat /\ 1..tickets \subseteq Tickets
      BY MatchmakingAssumption DEF Typed, Counted, Tickets
    <2>2. ASSUME NEW f, NEW s, Names(f, s, tickets, owner, tcOf)
          PROVE  Names(f, s, tickets + 1, o, t)
      BY <2>1, <2>2 DEF Names, Named
    <2> QED BY <1>6, <2>2 DEF Facts
  <1>7. Facts(p, NoEntry, "hset", j, tickets + 1, o, t)
    <2>1. j.best = NoBody /\ Own(j) = [tc |-> tc, ticket |-> tickets + 1]
      BY DEF Own, NoJob
    <2>2. Names([tc |-> tc, ticket |-> tickets + 1], p, tickets + 1, o, t)
      BY <1>1 DEF Names, Typed, Counted, Named
    <2> HIDE DEF j
    <2> QED BY <2>1, <2>2 DEF Facts, Loaded, Joining, Picking
  <1>8. ASSUME NEW r \in Players
        PROVE  Facts(r, entry'[r], pc'[r], job'[r], tickets + 1, o, t)
    <2> HIDE DEF j
    <2>1. CASE r = p
      BY <2>1, <1>3, <1>4, <1>7 DEF Join
    <2>2. CASE r # p
      BY <2>2, <1>3, <1>4, <1>6 DEF Others, Named
    <2> QED BY <2>1, <2>2
  <1>9. tickets' = tickets + 1
    BY DEF Join
  <1>10. Named(o, t)'
    BY <1>8, <1>9 DEF Named
  <1> QED BY <1>1, <1>3, <1>4, <1>10 DEF Typed

(* The commands that a running handler goes on with.                       *)
LEMMA WriteSteps ==
    ASSUME Typed, NEW owner, NEW tcOf, Named(owner, tcOf), NEW p \in Players,
           SetEntry(p) \/ AddToQueue(p) \/ LeaveQueue(p) \/ DeleteOwnEntry(p)
    PROVE  Typed' /\ Named(owner, tcOf)'
  <1>0. /\ Facts(p, entry[p], pc[p], job[p], tickets, owner, tcOf)
        /\ job[p] \in Jobs /\ tickets \in Nat
        /\ UNCHANGED counters /\ Counted'
    BY Before DEF SetEntry, AddToQueue, LeaveQueue, DeleteOwnEntry, counters, Typed, Counted
  <1>1. CASE SetEntry(p)
    <2>1. Own(job[p]) \in Entries
      BY <1>0 DEF Own, Jobs, Entries
    <2>2. Control' /\ pc'[p] = "zadd" /\ job'[p] = job[p] /\ Others(p)
      BY <1>1, GotoMoves DEF SetEntry, Typed, Awaits, Others
    <2>3. Store' /\ entry'[p] = Own(job[p]) /\ Hashes(p)
      BY <1>1, <2>1 DEF SetEntry, Typed, Store, Own, Hashes
    <2>4. Facts(p, Own(job[p]), "zadd", job[p], tickets, owner, tcOf)
      BY <1>0, <1>1 DEF SetEntry, Facts, Joining, Loaded, Picking
    <2> QED BY <1>0, <2>2, <2>3, <2>4, NamedBy DEF Typed, counters
  <1>2. CASE AddToQueue(p)
    <2>1. job[p].tc \in TimeControls /\ job[p].ticket \in 0..MaxJoins
      BY <1>2, <1>0, PoolIsOne DEF AddToQueue, Jobs
    <2>2. Control' /\ pc'[p] = "load" /\ job'[p] = job[p] /\ Others(p)
      BY <1>2, GotoMoves DEF AddToQueue, Typed, Awaits, Others
    <2>3. Store' /\ entry' = entry /\ Hashes(p)
      BY <1>2, <2>1 DEF AddToQueue, Typed, Store, Hashes
    <2>4. Facts(p, entry[p], "load", job[p], tickets, owner, tcOf)
      BY <1>0, <1>2 DEF AddToQueue, Facts, Joining, Loaded, Picking
    <2> QED BY <1>0, <2>2, <2>3, <2>4, NamedBy DEF Typed, counters
  <1>3. CASE LeaveQueue(p)
    <2>1. job[p].tc \in TimeControls /\ 0 \in 0..MaxJoins
      BY <1>3, <1>0, PoolIsOne, MatchmakingAssumption DEF LeaveQueue
    <2>2. Control' /\ pc'[p] = "leave_delete" /\ job'[p] = job[p] /\ Others(p)
      BY <1>3, GotoMoves DEF LeaveQueue, Typed, Awaits, Others
    <2>3. Store' /\ entry' = entry /\ Hashes(p)
      BY <1>3, <2>1 DEF LeaveQueue, Typed, Store, Hashes
    <2>4. Facts(p, entry[p], "leave_delete", job[p], tickets, owner, tcOf)
      BY <1>0, <1>3 DEF LeaveQueue, Facts, Joining, Loaded, Picking
    <2> QED BY <1>0, <2>2, <2>3, <2>4, NamedBy DEF Typed, counters
  <1>4. CASE DeleteOwnEntry(p)
    <2>2. Control' /\ pc'[p] = "idle" /\ job'[p] = NoJob /\ Others(p)
      BY <1>4, ReturnMoves DEF DeleteOwnEntry, Typed, Others
    <2>3. Store' /\ entry'[p] = NoEntry /\ Hashes(p)
      BY <1>4, NoJobType DEF DeleteOwnEntry, Typed, Store, Hashes
    <2>4. Facts(p, NoEntry, "idle", NoJob, tickets, owner, tcOf)
      BY <1>0, FactsEnd
    <2> QED BY <1>0, <2>2, <2>3, <2>4, NamedBy DEF Typed, counters
  <1> QED BY <1>1, <1>2, <1>3, <1>4

LEMMA LockSteps ==
    ASSUME Typed, NEW owner, NEW tcOf, Named(owner, tcOf), NEW p \in Players,
           LoadToMatch(p) \/ AcquireLock(p) \/ ReleaseLock(p)
    PROVE  Typed' /\ Named(owner, tcOf)' /\ Others(p)
  <1>0. /\ Facts(p, entry[p], pc[p], job[p], tickets, owner, tcOf)
        /\ job[p] \in Jobs /\ tickets \in Nat
        /\ UNCHANGED <<entry, queue, games, counters>> /\ Counted'
        /\ entry'[p] = entry[p] /\ Hashes(p)
    BY Before DEF LoadToMatch, AcquireLock, ReleaseLock, redis, counters, Typed, Counted, Hashes
  <1>1. Store'
    <2>1. CASE UNCHANGED lock
      BY <1>0, <2>1 DEF Typed, Store
    <2>2. CASE AcquireLock(p) \/ ReleaseLock(p)
      <3>1. job[p].ticket \in 0..MaxJoins /\ 0 \in 0..MaxJoins
        BY <1>0, MatchmakingAssumption DEF Jobs
      <3>2. lock' \in [TimeControls -> 0..MaxJoins]
        BY <2>2, <3>1 DEF AcquireLock, ReleaseLock, Typed, Store
      <3> QED BY <1>0, <3>2 DEF Typed, Store
    <2> QED BY <2>1, <2>2 DEF LoadToMatch, redis
  <1>2. CASE Return(p)
    <2>1. Control' /\ pc'[p] = "idle" /\ job'[p] = NoJob /\ Others(p)
      BY <1>2, ReturnMoves DEF Typed, Others
    <2>2. Facts(p, entry[p], "idle", NoJob, tickets, owner, tcOf)
      BY <1>0, FactsEnd
    <2> QED BY <1>0, <1>1, <2>1, <2>2, NamedBy DEF Typed, counters
  <1>3. ASSUME NEW label \in {"lock", "reload", "create"}, Goto(p, label), UNCHANGED job,
               \/ pc[p] = "load" /\ label = "lock"
               \/ pc[p] = "lock" /\ label = "reload"
               \/ pc[p] = "release" /\ label = "create" /\ job[p].best # NoBody
        PROVE  Typed' /\ Named(owner, tcOf)' /\ Others(p)
    <2>1. Control' /\ pc'[p] = label /\ job'[p] = job[p] /\ Others(p)
      BY <1>3, GotoMoves DEF Typed, Awaits, Others
    <2>2. Facts(p, entry[p], label, job[p], tickets, owner, tcOf)
      BY <1>0, <1>3 DEF Facts, Joining, Loaded, Picking
    <2> QED BY <1>0, <1>1, <2>1, <2>2, NamedBy DEF Typed, counters
  <1> QED BY <1>2, <1>3 DEF LoadToMatch, AcquireLock, ReleaseLock

LEMMA SearchSteps ==
    ASSUME Typed, NEW owner, NEW tcOf, Named(owner, tcOf), NEW p \in Players,
           Reload(p) \/ ListCandidates(p) \/ Choose(p) \/ DequeueBoth(p) \/ DeleteBoth(p)
    PROVE  Typed' /\ Named(owner, tcOf)' /\ Others(p)
  <1>0. /\ Facts(p, entry[p], pc[p], job[p], tickets, owner, tcOf)
        /\ job[p] \in Jobs /\ tickets \in Nat /\ entry[p] \in Entries
        /\ UNCHANGED counters /\ Counted'
    BY Before DEF Reload, ListCandidates, Choose, DequeueBoth, DeleteBoth, counters, Typed, Counted
  <1>1. CASE Reload(p)
    <2>0. Store' /\ entry'[p] = entry[p] /\ Hashes(p)
      BY <1>1 DEF Reload, redis, Typed, Store, Hashes
    <2>1. CASE entry[p] = NoEntry
      <3>1. Control' /\ pc'[p] = "release" /\ job'[p] = job[p] /\ Others(p)
        BY <1>1, <2>1, GotoMoves DEF Reload, Typed, Awaits, Others
      <3>2. Facts(p, entry[p], "release", job[p], tickets, owner, tcOf)
        BY <1>0, <1>1 DEF Reload, Facts, Joining, Loaded, Picking
      <3> QED BY <1>0, <2>0, <3>1, <3>2, NamedBy DEF Typed, counters
    <2>2. CASE entry[p] # NoEntry
      <3> DEFINE j == [job[p] EXCEPT !.mine = entry[p]]
      <3>1. /\ j \in Jobs /\ j.mine = entry[p] /\ j.best = job[p].best /\ j.other = job[p].other
            /\ j.tc = job[p].tc /\ Own(j) = Own(job[p])
        BY <1>0 DEF Jobs, Own
      <3>2. Control' /\ pc'[p] = "zrange" /\ job'[p] = j /\ Others(p)
        BY <1>1, <2>2, <3>1, HoldMoves DEF Reload, Typed, Awaits, Others
      <3> HIDE DEF j
      <3>3. Facts(p, entry[p], "zrange", j, tickets, owner, tcOf)
        BY <1>0, <1>1, <2>2, <3>1 DEF Reload, Facts, Joining, Loaded, Picking
      <3> QED BY <1>0, <2>0, <3>2, <3>3, NamedBy DEF Typed, counters
    <2> QED BY <2>1, <2>2
  <1>2. CASE ListCandidates(p)
    <2>0. Store' /\ entry'[p] = entry[p] /\ Hashes(p)
      BY <1>2 DEF ListCandidates, redis, Typed, Store, Hashes
    <2> DEFINE j == [job[p] EXCEPT !.rest = Candidates(p, job[p].mine.tc)]
    <2>1. job[p].mine.tc \in TimeControls
      BY <1>2, PoolIsOne DEF ListCandidates, Loaded
    <2>2. Candidates(p, job[p].mine.tc) \subseteq [player : Players, score : Tickets]
      BY <2>1, MatchmakingAssumption DEF Candidates, Typed, Store, Tickets
    <2>3. /\ j \in Jobs /\ j.mine = job[p].mine /\ j.best = job[p].best /\ j.other = job[p].other
          /\ j.tc = job[p].tc /\ Own(j) = Own(job[p])
      BY <1>0, <2>2 DEF Jobs, Own
    <2>4. Control' /\ pc'[p] = "scan" /\ job'[p] = j /\ Others(p)
      BY <1>2, <2>3, HoldMoves DEF ListCandidates, Typed, Awaits, Others
    <2> HIDE DEF j
    <2>5. Facts(p, entry[p], "scan", j, tickets, owner, tcOf)
      BY <1>0, <1>2, <2>3 DEF ListCandidates, Facts, Joining, Loaded, Picking
    <2> QED BY <1>0, <2>0, <2>4, <2>5, NamedBy DEF Typed, counters
  <1>3. CASE Choose(p)
    <2>0. Store' /\ entry'[p] = entry[p] /\ Hashes(p)
      BY <1>3 DEF Choose, redis, Typed, Store, Hashes
    <2> DEFINE label == IF job[p].best = NoBody THEN "release" ELSE "zrem"
    <2>1. Control' /\ pc'[p] = label /\ job'[p] = job[p] /\ Others(p)
      BY <1>3, GotoMoves DEF Choose, Typed, Awaits, Others
    <2>2. Facts(p, entry[p], label, job[p], tickets, owner, tcOf)
      BY <1>0, <1>3 DEF Choose, Facts, Joining, Loaded, Picking
    <2> QED BY <1>0, <2>0, <2>1, <2>2, NamedBy DEF Typed, counters
  <1>4. CASE DequeueBoth(p)
    <2>1. job[p].mine.tc \in TimeControls /\ job[p].best \in Players /\ 0 \in 0..MaxJoins
      BY <1>0, <1>4, PoolIsOne, MatchmakingAssumption DEF DequeueBoth, Facts, Jobs, Loaded
    <2>2. Control' /\ pc'[p] = "delete" /\ job'[p] = job[p] /\ Others(p)
      BY <1>4, GotoMoves DEF DequeueBoth, Typed, Awaits, Others
    <2>3. Store' /\ entry'[p] = entry[p] /\ Hashes(p)
      BY <1>4, <2>1 DEF DequeueBoth, Typed, Store, Hashes
    <2>4. Facts(p, entry[p], "delete", job[p], tickets, owner, tcOf)
      BY <1>0, <1>4 DEF DequeueBoth, Facts, Joining, Loaded, Picking
    <2> QED BY <1>0, <2>2, <2>3, <2>4, NamedBy DEF Typed, counters
  <1>5. CASE DeleteBoth(p)
    <2>1. Control' /\ pc'[p] = "release" /\ job'[p] = job[p] /\ Others(p)
      BY <1>5, GotoMoves DEF DeleteBoth, Typed, Awaits, Others
    <2>2. Store' /\ entry'[p] = NoEntry /\ Hashes(p)
      BY <1>5, NoJobType DEF DeleteBoth, Typed, Store, Hashes
    <2>3. Facts(p, NoEntry, "release", job[p], tickets, owner, tcOf)
      BY <1>0, <1>5 DEF DeleteBoth, Facts, Joining, Loaded, Picking
    <2> QED BY <1>0, <2>1, <2>2, <2>3, NamedBy DEF Typed, counters
  <1> QED BY <1>1, <1>2, <1>3, <1>4, <1>5

LEMMA CandidateSteps ==
    ASSUME Typed, NEW owner, NEW tcOf, Named(owner, tcOf), NEW p \in Players,
           Examine(p) \/ DropStaleMember(p)
    PROVE  Typed' /\ Named(owner, tcOf)' /\ Others(p)
  <1>0. /\ Facts(p, entry[p], pc[p], job[p], tickets, owner, tcOf)
        /\ job[p] \in Jobs /\ tickets \in Nat /\ entry[p] \in Entries
        /\ UNCHANGED counters /\ Counted' /\ entry'[p] = entry[p] /\ Hashes(p)
    BY ZenonT(30), Before DEF Examine, DropStaleMember, redis, counters, Typed, Counted, Hashes
  <1>1. ASSUME NEW c \in First(job[p].rest)
        PROVE  c.player \in Players /\ entry[c.player] \in Entries
    BY <1>0, <1>1 DEF First, Jobs, Typed, Store
  \* Passing over a candidate.
  <1>2. ASSUME NEW c \in First(job[p].rest), pc[p] \in {"scan", "stale"}, Store',
               Hold(p, "scan", [job[p] EXCEPT !.rest = @ \ {c}])
        PROVE  Typed' /\ Named(owner, tcOf)' /\ Others(p)
    <2> DEFINE j == [job[p] EXCEPT !.rest = @ \ {c}]
    <2>1. /\ j \in Jobs /\ j.mine = job[p].mine /\ j.best = job[p].best /\ j.other = job[p].other
          /\ j.tc = job[p].tc /\ Own(j) = Own(job[p])
      BY <1>0 DEF Jobs, Own
    <2>2. Control' /\ pc'[p] = "scan" /\ job'[p] = j /\ Others(p)
      BY <1>2, <2>1, HoldMoves DEF Typed, Awaits, Others
    <2> HIDE DEF j
    <2>3. Facts(p, entry[p], "scan", j, tickets, owner, tcOf)
      BY <1>0, <1>2, <2>1 DEF Facts, Joining, Loaded, Picking
    <2> QED BY <1>0, <1>2, <2>2, <2>3, NamedBy DEF Typed, counters
  \* Taking it for the best match.
  <1>3. ASSUME NEW c \in First(job[p].rest), pc[p] = "scan", Store',
               entry[c.player] # NoEntry, IsBetter(p, c.player, entry[c.player]),
               Hold(p, "scan", [[job[p] EXCEPT !.rest = @ \ {c}]
                                    EXCEPT !.best = c.player, !.other = entry[c.player]])
        PROVE  Typed' /\ Named(owner, tcOf)' /\ Others(p)
    <2> DEFINE q == c.player
               j == [[job[p] EXCEPT !.rest = @ \ {c}] EXCEPT !.best = q, !.other = entry[q]]
    <2>1. /\ j \in Jobs /\ j.mine = job[p].mine /\ j.best = q /\ j.other = entry[q]
          /\ j.tc = job[p].tc /\ Own(j) = Own(job[p])
      BY <1>0, <1>1, <1>3 DEF Jobs, Own
    <2>2. Control' /\ pc'[p] = "scan" /\ job'[p] = j /\ Others(p)
      BY <1>3, <2>1, HoldMoves DEF Typed, Awaits, Others
    <2>3. Names(entry[q], q, tickets, owner, tcOf)
      BY <1>1, <1>3 DEF Named, Facts
    <2>4. job[p].mine = Own(job[p])
      BY <1>0, <1>3 DEF Facts, Loaded
    <2>5. entry[q].tc = job[p].tc
      BY <1>3, <2>4 DEF IsBetter, Own
    <2> HIDE DEF j, q
    <2>6. Facts(p, entry[p], "scan", j, tickets, owner, tcOf)
      BY <1>0, <1>3, <2>1, <2>3, <2>4, <2>5 DEF Facts, Joining, Loaded, Picking
    <2> QED BY <1>0, <1>3, <2>2, <2>6, NamedBy DEF Typed, counters
  \* Finding it stale.
  <1>4. ASSUME pc[p] = "scan", Store', Goto(p, "stale"), UNCHANGED job
        PROVE  Typed' /\ Named(owner, tcOf)' /\ Others(p)
    <2>1. Control' /\ pc'[p] = "stale" /\ job'[p] = job[p] /\ Others(p)
      BY <1>4, GotoMoves DEF Typed, Awaits, Others
    <2>2. Facts(p, entry[p], "stale", job[p], tickets, owner, tcOf)
      BY <1>0, <1>4 DEF Facts, Joining, Loaded, Picking
    <2> QED BY <1>0, <1>4, <2>1, <2>2, NamedBy DEF Typed, counters
  <1>5. CASE Examine(p)
    <2>1. Store' /\ pc[p] = "scan"
      BY <1>5 DEF Examine, redis, Typed, Store
    <2>2. PICK c \in First(job[p].rest) :
              \/ Goto(p, "stale") /\ UNCHANGED job
              \/ /\ entry[c.player] # NoEntry
                 /\ Hold(p, "scan",
                         IF IsBetter(p, c.player, entry[c.player])
                         THEN [[job[p] EXCEPT !.rest = @ \ {c}]
                                  EXCEPT !.best = c.player, !.other = entry[c.player]]
                         ELSE [job[p] EXCEPT !.rest = @ \ {c}])
      BY <1>5 DEF Examine
    <2> QED BY <1>2, <1>3, <1>4, <2>1, <2>2
  <1>6. CASE DropStaleMember(p)
    <2>1. PICK c \in First(job[p].rest) :
            /\ queue' = [queue EXCEPT ![job[p].mine.tc][c.player] = 0]
            /\ Hold(p, "scan", [job[p] EXCEPT !.rest = @ \ {c}])
      BY <1>6 DEF DropStaleMember
    <2>2. job[p].mine.tc \in TimeControls /\ c.player \in Players /\ 0 \in 0..MaxJoins
      BY SMTT(30), <1>1, <1>6, PoolIsOne, MatchmakingAssumption DEF DropStaleMember, Loaded
    <2>3. Store' /\ pc[p] = "stale"
      BY <1>6, <2>1, <2>2 DEF DropStaleMember, Typed, Store
    <2> QED BY SMTT(30), <1>2, <2>1, <2>3
  <1> QED BY <1>5, <1>6

LEMMA CreateStep ==
    ASSUME Typed, NEW owner, NEW tcOf, Named(owner, tcOf), NEW p \in Players, CreateGame(p)
    PROVE  /\ Typed' /\ Named(owner, tcOf)' /\ Others(p)
           /\ pc'[p] = "idle" /\ job'[p] = NoJob /\ job[p].best # NoBody
  <1>0. /\ Facts(p, entry[p], pc[p], job[p], tickets, owner, tcOf)
        /\ job[p] \in Jobs /\ tickets \in Nat /\ tickets <= MaxJoins /\ pc[p] = "create"
        /\ UNCHANGED <<redis, counters>> /\ Counted' /\ entry'[p] = entry[p] /\ Hashes(p)
    BY Before DEF CreateGame, redis, counters, Typed, Counted, Hashes
  <1>1. /\ job[p].best # NoBody /\ job[p].mine = Own(job[p])
        /\ Names(Own(job[p]), p, tickets, owner, tcOf)
        /\ Names(job[p].other, job[p].best, tickets, owner, tcOf)
    BY <1>0 DEF Facts, Joining
  <1>2. 1..tickets \subseteq Tickets
    BY <1>0, MatchmakingAssumption DEF Tickets
  <1>3. /\ job[p].ticket \in Tickets /\ job[p].mine.ticket \in Tickets
        /\ job[p].other.ticket \in Tickets /\ job[p].best \in Players
    BY <1>0, <1>1, <1>2 DEF Names, Own, Jobs
  <1>4. Store'
    BY <1>0, <1>3 DEF CreateGame, Typed, Store, redis
  <1>5. Control' /\ pc'[p] = "idle" /\ job'[p] = NoJob /\ Others(p)
    BY ReturnMoves DEF CreateGame, Typed, Others
  <1>6. Facts(p, entry[p], "idle", NoJob, tickets, owner, tcOf)
    BY <1>0, FactsEnd
  <1> QED BY SMTT(30), <1>0, <1>1, <1>4, <1>5, <1>6, NamedBy DEF Typed, counters

(* What a player begins, and what time and failures do.                    *)
LEMMA OtherSteps ==
    ASSUME Typed, NEW owner, NEW tcOf, Named(owner, tcOf), NEW p \in Players,
           LoadToLeave(p) \/ ExpireEntry(p) \/ Crash(p)
    PROVE  Typed' /\ Named(owner, tcOf)' /\ Others(p)
  <1>0. /\ Facts(p, entry[p], pc[p], job[p], tickets, owner, tcOf)
        /\ job[p] \in Jobs /\ tickets \in Nat /\ entry[p] \in Entries
        /\ tickets' = tickets
    BY Before DEF LoadToLeave, ExpireEntry, Crash, counters
  <1>1. CASE LoadToLeave(p)
    <2> DEFINE j == [NoJob EXCEPT !.tc = entry[p].tc]
    <2>1. j \in Jobs /\ j.best = NoBody /\ j.tc = entry[p].tc
      BY <1>0, NoJobType DEF Jobs, Entries, NoJob
    <2>2. Control' /\ pc'[p] = "leave_zrem" /\ job'[p] = j /\ Others(p)
      BY <1>1, <2>1, HoldMoves DEF LoadToLeave, Typed, Awaits, Others
    <2>3. Store' /\ Counted' /\ entry'[p] = entry[p] /\ Hashes(p)
      BY <1>1 DEF LoadToLeave, redis, counters, Typed, Store, Counted, Hashes
    <2>4. Names(entry[p], p, tickets, owner, tcOf)
      BY <1>0, <1>1 DEF LoadToLeave, Facts
    <2>5. entry[p].tc \in TimeControls
      BY <2>4 DEF Names
    <2> HIDE DEF j
    <2>6. Facts(p, entry[p], "leave_zrem", j, tickets, owner, tcOf)
      BY <1>0, <2>1, <2>4, <2>5 DEF Facts, Joining, Loaded, Picking
    <2> QED BY <1>0, <2>2, <2>3, <2>6, NamedBy DEF Typed
  <1>2. CASE ExpireEntry(p)
    <2>1. Store' /\ Counted' /\ Control' /\ Others(p) /\ Hashes(p)
      BY <1>2, NoJobType DEF ExpireEntry, counters, Typed, Store, Counted, Control, Others, Hashes
    <2>2. entry'[p] = NoEntry /\ pc'[p] = pc[p] /\ job'[p] = job[p]
      BY <1>2 DEF ExpireEntry, Typed, Store
    <2>3. Facts(p, NoEntry, pc[p], job[p], tickets, owner, tcOf)
      BY <1>0, FactsStay
    <2> QED BY <1>0, <2>1, <2>2, <2>3, NamedBy DEF Typed
  <1>3. CASE Crash(p)
    <2>1. Control' /\ pc'[p] = "idle" /\ job'[p] = NoJob /\ Others(p)
      BY <1>3, ReturnMoves DEF Crash, Typed, Others
    <2>2. Store' /\ entry'[p] = entry[p] /\ Hashes(p)
      BY <1>3 DEF Crash, redis, Typed, Store, Hashes
    <2>3. Counted'
      BY <1>3, MatchmakingAssumption DEF Crash, Typed, Counted
    <2>4. Facts(p, entry[p], "idle", NoJob, tickets, owner, tcOf)
      BY <1>0, FactsEnd
    <2> QED BY <1>0, <2>1, <2>2, <2>3, <2>4, NamedBy DEF Typed
  <1> QED BY <1>1, <1>2, <1>3

LEMMA ExpiryStep ==
    ASSUME Typed, NEW owner, NEW tcOf, Named(owner, tcOf), NEW tc \in TimeControls,
           ExpireLock(tc) \/ ExpireLockOfSlowHandler(tc)
    PROVE  Typed' /\ Named(owner, tcOf)'
  <1>1. UNCHANGED <<entry, queue, games, tickets, crashes, pc, job>>
    BY DEF ExpireLock, ExpireLockOfSlowHandler, counters
  <1>2. lock' \in [TimeControls -> 0..MaxJoins]
    BY MatchmakingAssumption DEF ExpireLock, ExpireLockOfSlowHandler, Typed, Store
  <1>3. Counted'
    BY MatchmakingAssumption DEF ExpireLock, ExpireLockOfSlowHandler, counters, Typed, Counted
  <1>4. Store' /\ Control'
    BY <1>1, <1>2 DEF Typed, Store, Control
  <1>5. Named(owner, tcOf)'
    BY <1>1 DEF Named
  <1> QED BY <1>3, <1>4, <1>5 DEF Typed

-----------------------------------------------------------------------------
(* What a step of a handler does to what it holds: the two entries that a  *)
(* search has won count from the moment they are deleted.                  *)
Won(p) == pc[p] \in {"release", "create"} /\ job[p].best # NoBody
Claims(p) == {job[p].ticket, job[p].other.ticket}

SameJob(p) == /\ job'[p].tc = job[p].tc /\ job'[p].ticket = job[p].ticket
              /\ job'[p].best = job[p].best /\ job'[p].other = job[p].other

Ends(p) == pc'[p] \in {"idle", "leave_zrem", "leave_delete"} /\ job'[p].best = NoBody

Turns ==
    {<<"hset", "zadd">>, <<"zadd", "load">>, <<"load", "lock">>, <<"reload", "release">>,
     <<"zrange", "scan">>, <<"scan", "scan">>, <<"scan", "stale">>, <<"stale", "scan">>,
     <<"scan", "zrem">>, <<"zrem", "delete">>, <<"release", "create">>}

(* The ways a handler of p can go.                                         *)
Moves(p) ==
    \/ Ends(p)
    \/ SameJob(p) /\ <<pc[p], pc'[p]>> \in Turns
    \/ SameJob(p) /\ pc[p] = "scan" /\ pc'[p] = "release" /\ job[p].best = NoBody
    \/ SameJob(p) /\ pc[p] = "lock" /\ pc'[p] = "reload" /\ AcquireLock(p) /\ lock[job[p].tc] = 0
    \/ SameJob(p) /\ pc[p] = "reload" /\ pc'[p] = "zrange" /\ entry[p] # NoEntry
    \/ SameJob(p) /\ pc[p] = "delete" /\ pc'[p] = "release" /\ DeleteBoth(p)
    \/ /\ pc[p] = "scan" /\ pc'[p] = "scan"
       /\ job'[p].tc = job[p].tc /\ job'[p].ticket = job[p].ticket
       /\ \E q \in Players : entry[q] # NoEntry /\ job'[p].other = entry[q]

LEMMA StepsMove ==
    ASSUME Typed, NEW owner, NEW tcOf, Named(owner, tcOf), NEW p \in Players,
           LoadToLeave(p) \/ Continue(p) \/ ExpireEntry(p) \/ Crash(p)
    PROVE  Others(p) /\ Moves(p)
  <1>0. /\ Facts(p, entry[p], pc[p], job[p], tickets, owner, tcOf)
        /\ job[p] \in Jobs /\ entry[p] \in Entries /\ Control
        /\ pc[p] \in Awaits
    BY Before DEF Typed, Control
  <1>1. ASSUME Return(p)
        PROVE  Others(p) /\ Moves(p)
    BY <1>0, <1>1, ReturnMoves DEF Others, Moves, Ends, NoJob
  <1>2. ASSUME NEW label \in Awaits, Goto(p, label), UNCHANGED job
        PROVE  Others(p) /\ pc'[p] = label /\ SameJob(p)
    BY <1>0, <1>2, GotoMoves DEF Others, SameJob
  <1>3. CASE SetEntry(p) \/ AddToQueue(p) \/ LoadToMatch(p) \/ DequeueBoth(p) \/ DeleteBoth(p)
    BY <1>1, <1>2, <1>3 DEF SetEntry, AddToQueue, LoadToMatch, DequeueBoth, DeleteBoth,
                            Moves, Turns, Awaits
  <1>4. CASE LeaveQueue(p)
    <2>1. job[p].best = NoBody
      BY <1>0, <1>4 DEF LeaveQueue, Facts, Picking
    <2>2. Others(p) /\ pc'[p] = "leave_delete" /\ SameJob(p)
      BY <1>2, <1>4 DEF LeaveQueue, Awaits
    <2> QED BY <2>1, <2>2 DEF Moves, Ends, SameJob
  <1>5. CASE DeleteOwnEntry(p) \/ CreateGame(p) \/ Crash(p)
    BY <1>1, <1>5 DEF DeleteOwnEntry, CreateGame, Crash
  <1>6. CASE AcquireLock(p)
    BY <1>1, <1>2, <1>6 DEF AcquireLock, Moves, Awaits
  <1>7. CASE Reload(p)
    <2>1. CASE entry[p] = NoEntry
      BY <1>2, <1>7, <2>1 DEF Reload, Moves, Turns, Awaits
    <2>2. CASE entry[p] # NoEntry
      <3> DEFINE j == [job[p] EXCEPT !.mine = entry[p]]
      <3>1. j \in Jobs /\ j.tc = job[p].tc /\ j.ticket = job[p].ticket
            /\ j.best = job[p].best /\ j.other = job[p].other
        BY <1>0 DEF Jobs
      <3>2. pc'[p] = "zrange" /\ job'[p] = j /\ Others(p)
        BY <1>0, <1>7, <2>2, <3>1, HoldMoves DEF Reload, Awaits, Others
      <3> QED BY <1>7, <2>2, <3>1, <3>2 DEF Reload, Moves, SameJob
    <2> QED BY <2>1, <2>2
  <1>8. ASSUME NEW rest \in SUBSET [player : Players, score : Tickets],
               Hold(p, "scan", [job[p] EXCEPT !.rest = rest])
        PROVE  Others(p) /\ pc'[p] = "scan" /\ SameJob(p)
    <2> DEFINE j == [job[p] EXCEPT !.rest = rest]
    <2>1. j \in Jobs /\ j.tc = job[p].tc /\ j.ticket = job[p].ticket
          /\ j.best = job[p].best /\ j.other = job[p].other
      BY <1>0 DEF Jobs
    <2>2. pc'[p] = "scan" /\ job'[p] = j /\ Others(p)
      BY <1>0, <1>8, <2>1, HoldMoves DEF Awaits, Others
    <2> QED BY <2>1, <2>2 DEF SameJob
  <1>9. CASE ListCandidates(p)
    <2>1. job[p].mine.tc \in TimeControls
      BY <1>9, PoolIsOne DEF ListCandidates, Loaded
    <2>2. Candidates(p, job[p].mine.tc) \in SUBSET [player : Players, score : Tickets]
      BY <2>1, MatchmakingAssumption DEF Candidates, Typed, Store, Tickets
    <2> QED BY <1>8, <1>9, <2>2 DEF ListCandidates, Moves, Turns
  <1>10. CASE Examine(p)
    <2>1. PICK c \in First(job[p].rest) :
              \/ Goto(p, "stale") /\ UNCHANGED job
              \/ Hold(p, "scan", [job[p] EXCEPT !.rest = job[p].rest \ {c}])
              \/ /\ entry[c.player] # NoEntry
                 /\ Hold(p, "scan", [[job[p] EXCEPT !.rest = @ \ {c}]
                                       EXCEPT !.best = c.player, !.other = entry[c.player]])
      BY <1>10 DEF Examine
    <2>2. pc[p] = "scan" /\ c.player \in Players /\ entry[c.player] \in Entries
      BY <1>0, <1>10 DEF Examine, First, Jobs, Typed, Store
    <2>3. CASE Goto(p, "stale") /\ UNCHANGED job
      BY <1>2, <2>2, <2>3 DEF Moves, Turns, Awaits
    <2>4. CASE Hold(p, "scan", [job[p] EXCEPT !.rest = job[p].rest \ {c}])
      <3>1. job[p].rest \ {c} \in SUBSET [player : Players, score : Tickets]
        BY <1>0 DEF Jobs
      <3> QED BY <1>8, <2>2, <2>4, <3>1 DEF Moves, Turns
    <2>5. CASE /\ entry[c.player] # NoEntry
               /\ Hold(p, "scan", [[job[p] EXCEPT !.rest = @ \ {c}]
                                     EXCEPT !.best = c.player, !.other = entry[c.player]])
      <3> DEFINE j == [[job[p] EXCEPT !.rest = @ \ {c}]
                         EXCEPT !.best = c.player, !.other = entry[c.player]]
      <3>1. /\ j \in Jobs /\ j.tc = job[p].tc /\ j.ticket = job[p].ticket
            /\ j.other = entry[c.player]
        BY <1>0, <2>2 DEF Jobs
      <3>2. pc'[p] = "scan" /\ job'[p] = j /\ Others(p)
        BY <1>0, <2>5, <3>1, HoldMoves DEF Awaits, Others
      <3> QED BY <2>2, <2>5, <3>1, <3>2 DEF Moves
    <2> QED BY <2>1, <2>3, <2>4, <2>5
  <1>11. CASE DropStaleMember(p)
    <2>1. PICK c \in First(job[p].rest) :
              Hold(p, "scan", [job[p] EXCEPT !.rest = job[p].rest \ {c}])
      BY <1>11 DEF DropStaleMember
    <2>2. job[p].rest \ {c} \in SUBSET [player : Players, score : Tickets]
      BY <1>0 DEF Jobs
    <2> QED BY <1>8, <1>11, <2>1, <2>2 DEF DropStaleMember, Moves, Turns
  <1>12. CASE Choose(p)
    BY <1>2, <1>12 DEF Choose, Moves, Turns, Awaits
  <1>13. CASE ReleaseLock(p)
    BY <1>1, <1>2, <1>13 DEF ReleaseLock, Moves, Turns, Awaits
  <1>14. CASE LoadToLeave(p)
    <2> DEFINE j == [NoJob EXCEPT !.tc = entry[p].tc]
    <2>1. j \in Jobs /\ j.best = NoBody
      BY <1>0, NoJobType DEF Jobs, Entries, NoJob
    <2>2. pc'[p] = "leave_zrem" /\ job'[p] = j /\ Others(p)
      BY <1>0, <1>14, <2>1, HoldMoves DEF LoadToLeave, Awaits, Others
    <2> QED BY <2>1, <2>2 DEF Moves, Ends
  <1>15. CASE ExpireEntry(p)
    <2>1. pc'[p] = "idle" /\ job' = job /\ pc' = pc
      BY <1>15 DEF ExpireEntry
    <2>2. job[p].best = NoBody
      BY <1>0, <1>15 DEF ExpireEntry, Facts, Picking
    <2> QED BY <2>1, <2>2 DEF Moves, Ends, Others
  <1> QED
    BY <1>3, <1>4, <1>5, <1>6, <1>7, <1>9, <1>10, <1>11, <1>12, <1>13, <1>14, <1>15
       DEF Continue

-----------------------------------------------------------------------------
(* Second layer: a search runs under its lock.                             *)
Locked == \A p \in Players : IsSearching(p) => lock[job[p].tc] = job[p].ticket

LEMMA SearchingFacts ==
    ASSUME Typed, NEW owner, NEW tcOf, Named(owner, tcOf), NEW p \in Players,
           pc[p] \in Joining
    PROVE  /\ job[p].tc \in TimeControls /\ job[p].ticket \in 1..tickets
           /\ owner[job[p].ticket] = p /\ tcOf[job[p].ticket] = job[p].tc
  <1>1. Facts(p, entry[p], pc[p], job[p], tickets, owner, tcOf) /\ pc[p] # "idle"
    BY Before DEF Joining
  <1>2. job[p].tc \in TimeControls
    BY <1>1, PoolIsOne
  <1> QED BY <1>1, <1>2 DEF Facts, Names, Own

LEMMA OneSearchesAPool ==
    ASSUME Typed, NEW owner, NEW tcOf, Named(owner, tcOf), Locked,
           NEW p \in Players, NEW q \in Players,
           IsSearching(p), IsSearching(q), job[p].tc = job[q].tc
    PROVE  p = q
  <1>1. pc[p] \in Joining /\ pc[q] \in Joining
    BY DEF IsSearching, Joining
  <1>2. job[p].ticket = job[q].ticket
    BY DEF Locked
  <1> QED BY <1>1, <1>2, SearchingFacts

LEMMA LockedStep ==
    ASSUME Typed, NEW owner, NEW tcOf, Named(owner, tcOf), Locked, Next, stalls' = stalls
    PROVE  Locked'
  <1>1. ASSUME NEW p \in Players, NEW tc \in TimeControls, Join(p, tc)
        PROVE  Locked'
    <2>1. Others(p) /\ pc'[p] = "hset" /\ lock' = lock
      BY <1>1, JoinStep DEF Join, redis
    <2> QED BY <2>1 DEF Locked, IsSearching, Others
  <1>2. ASSUME NEW p \in Players,
               LoadToLeave(p) \/ Continue(p) \/ ExpireEntry(p) \/ Crash(p)
        PROVE  Locked'
    <2>1. Others(p) /\ Moves(p)
      BY <1>2, StepsMove
    <2>2. CASE AcquireLock(p) /\ lock[job[p].tc] = 0
      <3>1. job[p].tc \in TimeControls /\ lock' = [lock EXCEPT ![job[p].tc] = job[p].ticket]
        BY <2>2, SearchingFacts DEF AcquireLock, Return, Joining
      <3>2. SameJob(p)
        BY <2>2 DEF AcquireLock, SameJob
      <3>3. ASSUME NEW r \in Players, IsSearching(r)'
            PROVE  lock'[job'[r].tc] = job'[r].ticket
        <4>1. CASE r = p
          BY <2>2, <3>1, <3>2, <4>1 DEF SameJob, Typed, Store
        <4>2. CASE r # p
          <5>1. IsSearching(r) /\ job'[r] = job[r]
            BY <2>1, <3>3, <4>2 DEF Others, IsSearching
          <5>2. lock[job[r].tc] = job[r].ticket /\ job[r].ticket \in 1..tickets
            BY <5>1, SearchingFacts DEF Locked, IsSearching, Joining
          <5>3. job[r].tc # job[p].tc
            BY <2>2, <5>2, Before
          <5> QED BY <3>1, <5>1, <5>2, <5>3 DEF Typed, Store
        <4> QED BY <4>1, <4>2
      <3> QED BY <3>3 DEF Locked
    <2>3. CASE ReleaseLock(p)
      <3>1. IsSearching(p) /\ ~IsSearching(p)'
        BY <2>1, <2>3
           DEF ReleaseLock, IsSearching, Moves, Ends, Turns, SameJob, AcquireLock, DeleteBoth
      <3>2. ASSUME NEW r \in Players, IsSearching(r)'
            PROVE  lock'[job'[r].tc] = job'[r].ticket
        <4>1. r # p /\ IsSearching(r) /\ job'[r] = job[r]
          BY <2>1, <3>1, <3>2 DEF Others, IsSearching
        <4>2. job[r].tc # job[p].tc
          BY <3>1, <4>1, OneSearchesAPool
        <4> QED BY <2>3, <4>1, <4>2 DEF ReleaseLock, Locked, Typed, Store
      <3> QED BY <3>2 DEF Locked
    <2>4. CASE lock' = lock /\ ~AcquireLock(p)
      <3>1. IsSearching(p)' =>
                IsSearching(p) /\ job'[p].tc = job[p].tc /\ job'[p].ticket = job[p].ticket
        BY <2>1, <2>4 DEF IsSearching, Moves, Ends, Turns, SameJob
      <3> QED BY <2>1, <2>4, <3>1 DEF Locked, IsSearching, Others
    <2>5. CASE AcquireLock(p) /\ lock[job[p].tc] # 0
      <3>1. lock' = lock /\ pc'[p] = "idle"
        BY <2>5, ReturnMoves DEF AcquireLock, Typed
      <3> QED BY <2>1, <3>1 DEF Locked, IsSearching, Others
    <2> QED
      BY ZenonT(30), <1>2, <2>2, <2>3, <2>4, <2>5
         DEF LoadToLeave, ExpireEntry, Crash, Continue, SetEntry, AddToQueue, LeaveQueue,
             DeleteOwnEntry, LoadToMatch, Reload, ListCandidates, Examine, DropStaleMember,
             Choose, DequeueBoth, DeleteBoth, CreateGame, redis
  <1>3. ASSUME NEW tc \in TimeControls, ExpireLock(tc)
        PROVE  Locked'
    <2>1. UNCHANGED <<pc, job>>
      BY <1>3 DEF ExpireLock
    <2>2. ASSUME NEW r \in Players, IsSearching(r)
          PROVE  job[r].tc # tc
      BY <1>3, <2>2 DEF ExpireLock, HolderIsAlive, Locked
    <2> QED BY <1>3, <2>1, <2>2 DEF ExpireLock, Locked, IsSearching, Typed, Store
  <1>4. ASSUME NEW tc \in TimeControls, ExpireLockOfSlowHandler(tc)
        PROVE  FALSE
    BY <1>4, MatchmakingAssumption DEF ExpireLockOfSlowHandler, Typed, Counted
  <1> QED BY <1>1, <1>2, <1>3, <1>4 DEF Next

-----------------------------------------------------------------------------
(* Third layer: which entries are used up, by a game or by a search that   *)
(* has won them, and that nothing that is still to be used is.             *)
IsSpent(t) ==
    \/ \E g \in games : t \in g.entries
    \/ \E q \in Players : Won(q) /\ t \in Claims(q)

GamesDiffer ==
    /\ EntryMakesOneGame
    /\ \A q \in Players : Won(q) => \A g \in games : Claims(q) \cap g.entries = {}
    /\ \A q, r \in Players : q # r /\ Won(q) /\ Won(r) => Claims(q) \cap Claims(r) = {}
    /\ \A g \in games : \A t \in g.entries : t \in 1..tickets

Unspent ==
    \A q \in Players :
        /\ entry[q] # NoEntry => ~IsSpent(entry[q].ticket)
        /\ pc[q] \in Loaded => ~IsSpent(job[q].ticket)
        /\ pc[q] \in Loaded /\ job[q].best # NoBody => ~IsSpent(job[q].other.ticket)
        /\ pc[q] = "hset" =>
            /\ ~IsSpent(job[q].ticket)
            /\ \A r \in Players : job[r].best # NoBody => job[r].other.ticket # job[q].ticket

Search == Locked /\ GamesDiffer /\ Unspent

(* Two entries of one name are one entry: its player's, of its pool.       *)
LEMMA ClaimsNamed ==
    ASSUME Typed, NEW owner, NEW tcOf, Named(owner, tcOf), NEW p \in Players,
           pc[p] \in Joining, job[p].best # NoBody, NEW t \in Claims(p)
    PROVE  /\ t \in 1..tickets /\ tcOf[t] = job[p].tc
           /\ \/ t = job[p].ticket /\ owner[t] = p
              \/ t = job[p].other.ticket /\ owner[t] = job[p].best
  <1>1. Facts(p, entry[p], pc[p], job[p], tickets, owner, tcOf)
    BY Before
  <1>2. /\ Names(Own(job[p]), p, tickets, owner, tcOf)
        /\ Names(job[p].other, job[p].best, tickets, owner, tcOf)
        /\ job[p].other.tc = job[p].tc
    BY <1>1 DEF Facts
  <1>3. Own(job[p]).ticket = job[p].ticket /\ Own(job[p]).tc = job[p].tc
    BY DEF Own
  <1>4. CASE t = job[p].ticket
    BY <1>2, <1>3, <1>4 DEF Names
  <1>5. CASE t = job[p].other.ticket
    BY <1>2, <1>5 DEF Names
  <1> QED BY <1>4, <1>5 DEF Claims

LEMMA SpentIsIssued ==
    ASSUME Typed, NEW owner, NEW tcOf, Named(owner, tcOf), GamesDiffer, NEW t, IsSpent(t)
    PROVE  t \in 1..tickets
  <1>1. ASSUME NEW q \in Players, Won(q), t \in Claims(q)
        PROVE  t \in 1..tickets
    BY <1>1, ClaimsNamed DEF Won, Joining
  <1> QED BY <1>1 DEF IsSpent, GamesDiffer

(* A step that uses nothing up keeps the unspent unspent.                  *)
LEMMA UnspentBy ==
    ASSUME Typed, NEW owner, NEW tcOf, Named(owner, tcOf), Unspent, NEW p \in Players,
           Others(p), Moves(p), \A t : IsSpent(t)' => IsSpent(t),
           \A r \in Players :
                entry'[r] \in {entry[r], NoEntry} \/ (r = p /\ SetEntry(p))
    PROVE  Unspent'
  <1>1. ASSUME NEW r \in Players, entry'[r] # NoEntry
        PROVE  ~IsSpent(entry'[r].ticket)
    <2>1. CASE entry'[r] = entry[r]
      BY <1>1, <2>1 DEF Unspent
    <2>2. CASE r = p /\ SetEntry(p)
      <3>1. entry'[p].ticket = job[p].ticket /\ pc[p] = "hset"
        BY <2>2 DEF SetEntry, Typed, Store
      <3> QED BY <2>2, <3>1 DEF Unspent
    <2> QED BY <1>1, <2>1, <2>2
  <1>2. ASSUME NEW r \in Players, pc'[r] \in Loaded
        PROVE  ~IsSpent(job'[r].ticket)
    <2>1. CASE r # p
      BY <1>2, <2>1 DEF Others, Unspent
    <2>2. CASE r = p
      <3>1. job'[p].ticket = job[p].ticket
        BY <1>2, <2>2 DEF Moves, Ends, SameJob, Loaded
      <3>2. CASE pc[p] \in Loaded
        BY <2>2, <3>1, <3>2 DEF Unspent
      <3>3. CASE pc[p] \notin Loaded
        <4>1. pc[p] = "reload" /\ entry[p] # NoEntry
          BY <1>2, <2>2, <3>3 DEF Moves, Ends, Turns, Loaded
        <4>2. entry[p] = Own(job[p])
          BY <4>1, Before DEF Facts, Joining
        <4>3. entry[p].ticket = job[p].ticket
          BY <4>2 DEF Own
        <4> QED BY <2>2, <3>1, <4>1, <4>3 DEF Unspent
      <3> QED BY <3>2, <3>3
    <2> QED BY <2>1, <2>2
  <1>3. ASSUME NEW r \in Players, job'[r].best # NoBody
        PROVE  \/ job[r].best # NoBody /\ job'[r].other = job[r].other
                  /\ (pc'[r] \in Loaded => pc[r] \in Loaded)
               \/ \E q \in Players : entry[q] # NoEntry /\ job'[r].other = entry[q]
    <2>1. CASE r # p
      BY <1>3, <2>1 DEF Others
    <2>2. CASE r = p
      <3>1. pc[p] \in {"lock", "reload"} => job[p].best = NoBody
        BY Before DEF Facts, Picking
      <3>2. CASE SameJob(p)
        <4>1. pc'[p] \in Loaded => pc[p] \in Loaded \cup {"reload"}
          BY <1>3, <2>2 DEF Moves, Ends, Turns, Loaded
        <4> QED BY <1>3, <2>2, <3>1, <3>2, <4>1 DEF SameJob
      <3>3. CASE ~SameJob(p)
        BY <1>3, <2>2, <3>3 DEF Moves, Ends
      <3> QED BY <3>2, <3>3
    <2> QED BY <2>1, <2>2
  <1>4. ASSUME NEW r \in Players, pc'[r] \in Loaded, job'[r].best # NoBody
        PROVE  ~IsSpent(job'[r].other.ticket)
    BY <1>3, <1>4 DEF Unspent
  <1>5. ASSUME NEW r \in Players, pc'[r] = "hset"
        PROVE  r # p /\ pc[r] = "hset" /\ job'[r] = job[r] /\ ~IsSpent(job'[r].ticket)
    <2>1. r # p
      BY <1>5 DEF Moves, Ends, Turns
    <2> QED BY <1>5, <2>1 DEF Others, Unspent
  <1>6. ASSUME NEW r \in Players, pc'[r] = "hset", NEW s \in Players, job'[s].best # NoBody
        PROVE  job'[s].other.ticket # job'[r].ticket
    <2>1. pc[r] = "hset" /\ job'[r] = job[r]
      BY <1>5, <1>6
    <2>2. CASE job[s].best # NoBody /\ job'[s].other = job[s].other
      BY <1>6, <2>1, <2>2 DEF Unspent
    <2>3. ASSUME NEW q \in Players, entry[q] # NoEntry, job'[s].other = entry[q]
          PROVE  job'[s].other.ticket # job'[r].ticket
      <3>1. owner[entry[q].ticket] = q
        BY <2>3, Before DEF Facts, Names
      <3>2. owner[job[r].ticket] = r
        BY <2>1, SearchingFacts DEF Joining
      <3>3. entry[r] = NoEntry
        BY <2>1, Before DEF Facts
      <3> QED BY <2>1, <2>3, <3>1, <3>2, <3>3
    <2> QED BY <1>3, <1>6, <2>2, <2>3
  <1> QED BY <1>1, <1>2, <1>4, <1>5, <1>6 DEF Unspent

(* Each step keeps the third layer: a join issues a fresh ticket, the      *)
(* entries deleted were unspent, and the game created was won.             *)
LEMMA JoinSearch ==
    ASSUME Typed, NEW owner, NEW tcOf, Named(owner, tcOf), Search, NEW p \in Players,
           NEW tc \in TimeControls, Join(p, tc)
    PROVE  GamesDiffer' /\ Unspent'
  <1>1. /\ Others(p) /\ pc'[p] = "hset" /\ job'[p].ticket = tickets + 1
        /\ job'[p].best = NoBody /\ UNCHANGED <<entry, games>> /\ tickets' = tickets + 1
    <2>1. /\ Others(p) /\ pc'[p] = "hset"
          /\ job'[p] = [NoJob EXCEPT !.tc = tc, !.ticket = tickets + 1]
      BY JoinStep
    <2> QED BY <2>1 DEF NoJob, Join, redis
  <1>2. tickets \in Nat /\ pc[p] = "idle"
    BY Before DEF Join
  <1>3. ASSUME NEW r \in Players
        PROVE  /\ Won(r)' <=> Won(r)
               /\ Won(r) => Claims(r)' = Claims(r)
    BY <1>1, <1>2 DEF Won, Claims, Others
  <1>4. ASSUME NEW t, IsSpent(t)'
        PROVE  IsSpent(t)
    BY <1>1, <1>3, <1>4 DEF IsSpent
  <1>5. GamesDiffer'
    <2>1. 1..tickets \subseteq 1..(tickets + 1)
      BY <1>2
    <2> QED BY <1>1, <1>3, <2>1 DEF Search, GamesDiffer, EntryMakesOneGame
  <1>6. ~IsSpent(tickets + 1)
    <2>1. tickets + 1 \notin 1..tickets
      BY <1>2
    <2> QED BY <2>1, SpentIsIssued DEF Search
  <1>7. ASSUME NEW r \in Players, job'[r].best # NoBody
        PROVE  job'[r].other.ticket # tickets + 1
    <2>1. r # p /\ job'[r] = job[r]
      BY <1>1, <1>7 DEF Others
    <2>2. Facts(r, entry[r], pc[r], job[r], tickets, owner, tcOf)
      BY Before
    <2>3. job[r].other.ticket \in 1..tickets
      BY <1>7, <2>1, <2>2 DEF Facts, Names
    <2> QED BY <1>2, <2>1, <2>3
  <1>8. Unspent'
    <2>1. ASSUME NEW q \in Players, q # p
          PROVE  /\ entry'[q] # NoEntry => ~IsSpent(entry'[q].ticket)
                 /\ pc'[q] \in Loaded => ~IsSpent(job'[q].ticket)
                 /\ pc'[q] \in Loaded /\ job'[q].best # NoBody => ~IsSpent(job'[q].other.ticket)
                 /\ pc'[q] = "hset" => ~IsSpent(job'[q].ticket)
      BY <1>1, <2>1 DEF Others, Search, Unspent
    <2>2. ASSUME NEW q \in Players, q # p, pc'[q] = "hset",
                 NEW r \in Players, job'[r].best # NoBody
          PROVE  job'[r].other.ticket # job'[q].ticket
      BY <1>1, <2>2 DEF Others, Search, Unspent
    <2>3. entry'[p] = entry[p] /\ (entry[p] # NoEntry => ~IsSpent(entry[p].ticket))
      BY <1>1 DEF Search, Unspent
    <2>4. pc'[p] = "hset" /\ pc'[p] \notin Loaded /\ ~IsSpent(job'[p].ticket)
      BY <1>1, <1>6 DEF Loaded
    <2> QED BY <1>1, <1>4, <1>7, <2>1, <2>2, <2>3, <2>4 DEF Unspent
  <1> QED BY <1>5, <1>8

LEMMA DeleteSearch ==
    ASSUME Typed, NEW owner, NEW tcOf, Named(owner, tcOf), Search, NEW p \in Players,
           DeleteBoth(p)
    PROVE  GamesDiffer' /\ Unspent'
  <1>0. /\ Facts(p, entry[p], pc[p], job[p], tickets, owner, tcOf)
        /\ pc[p] = "delete" /\ job[p].best # NoBody /\ pc[p] \in Joining /\ pc[p] \in Loaded
    BY Before DEF DeleteBoth, Facts, Joining, Loaded
  <1>1. /\ Others(p) /\ pc'[p] = "release" /\ job' = job /\ UNCHANGED <<games, tickets>>
        /\ \A r \in Players : entry'[r] = IF r \in {p, job[p].best} THEN NoEntry ELSE entry[r]
    <2>1. Others(p) /\ pc'[p] = "release"
      BY GotoMoves DEF DeleteBoth, Awaits, Others, Typed
    <2> QED BY <2>1 DEF DeleteBoth, counters, Typed, Store
  <1>2. /\ Won(p)' /\ ~Won(p) /\ Claims(p)' = Claims(p)
        /\ \A r \in Players : r # p => (Won(r)' <=> Won(r)) /\ Claims(r)' = Claims(r)
    BY <1>0, <1>1 DEF Won, Claims, Others
  <1>3. ASSUME NEW t, IsSpent(t)'
        PROVE  IsSpent(t) \/ t \in Claims(p)
    BY <1>1, <1>2, <1>3 DEF IsSpent
  <1>4. ASSUME NEW t \in Claims(p)
        PROVE  ~IsSpent(t)
    BY <1>0 DEF Claims, Search, Unspent
  <1>5. GamesDiffer'
    <2>1. \A g \in games : Claims(p) \cap g.entries = {}
      BY <1>4 DEF IsSpent
    <2>2. \A r \in Players : Won(r) => Claims(p) \cap Claims(r) = {}
      BY <1>4 DEF IsSpent
    <2> QED BY <1>1, <1>2, <2>1, <2>2 DEF Search, GamesDiffer, EntryMakesOneGame
  \* What is not won is of another player or of another pool.
  <1>6. ASSUME NEW r \in Players, entry'[r] # NoEntry
        PROVE  ~IsSpent(entry'[r].ticket) /\ entry'[r].ticket \notin Claims(p)
    <2>1. r \notin {p, job[p].best} /\ entry'[r] = entry[r]
      BY <1>1, <1>6
    <2>2. owner[entry[r].ticket] = r
      BY <1>6, <2>1, Before DEF Facts, Names
    <2>3. entry[r].ticket \notin Claims(p)
      BY <1>0, <2>1, <2>2, ClaimsNamed
    <2> QED BY <1>6, <2>1, <2>3 DEF Search, Unspent
  <1>7. ASSUME NEW r \in Players, pc'[r] \in Loaded
        PROVE  /\ ~IsSpent(job[r].ticket) /\ job[r].ticket \notin Claims(p)
               /\ job[r].best # NoBody =>
                    ~IsSpent(job[r].other.ticket) /\ job[r].other.ticket \notin Claims(p)
    <2>1. r # p /\ pc[r] \in Loaded /\ pc[r] \in Joining /\ IsSearching(r) /\ IsSearching(p)
      BY <1>0, <1>1, <1>7 DEF Loaded, Others, IsSearching, Joining
    <2>2. job[r].tc # job[p].tc
      BY <2>1, OneSearchesAPool DEF Search
    <2>3. tcOf[job[r].ticket] = job[r].tc
      BY <2>1, SearchingFacts
    <2>4. job[r].best # NoBody => tcOf[job[r].other.ticket] = job[r].tc
      BY <2>1, ClaimsNamed DEF Claims
    <2>5. \A t \in Claims(p) : tcOf[t] = job[p].tc
      BY <1>0, ClaimsNamed
    <2> QED BY <2>1, <2>2, <2>3, <2>4, <2>5 DEF Search, Unspent
  <1>8. ASSUME NEW r \in Players, pc'[r] = "hset"
        PROVE  /\ ~IsSpent(job[r].ticket) /\ job[r].ticket \notin Claims(p)
               /\ \A s \in Players : job[s].best # NoBody => job[s].other.ticket # job[r].ticket
    <2>1. r # p /\ pc[r] = "hset" /\ pc[r] \in Joining
      BY <1>1, <1>8 DEF Others, Joining
    <2>2. owner[job[r].ticket] = r /\ owner[job[p].ticket] = p
      BY <1>0, <2>1, SearchingFacts
    <2> QED BY <1>0, <2>1, <2>2 DEF Claims, Search, Unspent
  <1>9. Unspent'
    BY <1>1, <1>3, <1>6, <1>7, <1>8 DEF Unspent
  <1> QED BY <1>5, <1>9

LEMMA CreateSearch ==
    ASSUME Typed, NEW owner, NEW tcOf, Named(owner, tcOf), Search, NEW p \in Players,
           CreateGame(p)
    PROVE  GamesDiffer' /\ (\A t : IsSpent(t)' => IsSpent(t))
  <1> DEFINE g == [by |-> job[p].ticket, players |-> {p, job[p].best},
                   entries |-> {job[p].mine.ticket, job[p].other.ticket}]
  <1>1. /\ Facts(p, entry[p], pc[p], job[p], tickets, owner, tcOf)
        /\ Others(p) /\ pc'[p] = "idle" /\ job'[p].best = NoBody
        /\ games' = games \cup {g} /\ tickets' = tickets /\ Won(p) /\ pc[p] \in Joining
        /\ job[p].best # NoBody
    <2>1. Others(p) /\ pc'[p] = "idle" /\ job'[p] = NoJob /\ job[p].best # NoBody
      BY CreateStep
    <2>2. pc[p] = "create" /\ games' = games \cup {g} /\ tickets' = tickets
      BY DEF CreateGame, counters
    <2> HIDE DEF g
    <2> QED BY <2>1, <2>2, Before DEF NoJob, Won, Joining
  <1>2. g.entries = Claims(p)
    BY <1>1 DEF Facts, Own, Claims
  <1> HIDE DEF g
  <1>3. ~Won(p)' /\ \A r \in Players : r # p => (Won(r)' <=> Won(r)) /\ Claims(r)' = Claims(r)
    BY <1>1 DEF Won, Claims, Others
  <1>4. ASSUME NEW t, IsSpent(t)'
        PROVE  IsSpent(t)
    BY <1>1, <1>2, <1>3, <1>4 DEF IsSpent
  <1>5. \A t \in g.entries : t \in 1..tickets
    BY <1>1, <1>2, ClaimsNamed
  <1>6. EntryMakesOneGame'
    BY <1>1, <1>2 DEF Search, GamesDiffer, EntryMakesOneGame
  <1>7. \A q \in Players : Won(q)' => \A h \in games' : Claims(q)' \cap h.entries = {}
    BY <1>1, <1>2, <1>3 DEF Search, GamesDiffer
  <1>8. \A q, r \in Players : q # r /\ Won(q)' /\ Won(r)' => Claims(q)' \cap Claims(r)' = {}
    BY <1>3 DEF Search, GamesDiffer
  <1>9. \A h \in games' : \A t \in h.entries : t \in 1..tickets'
    BY <1>1, <1>5 DEF Search, GamesDiffer
  <1> QED BY <1>4, <1>6, <1>7, <1>8, <1>9 DEF GamesDiffer

LEMMA SearchStep ==
    ASSUME Typed, NEW owner, NEW tcOf, Named(owner, tcOf), Search, Next, stalls' = stalls
    PROVE  Search'
  <1>0. Locked'
    BY LockedStep DEF Search
  <1>1. ASSUME NEW p \in Players, NEW tc \in TimeControls, Join(p, tc)
        PROVE  Search'
    BY <1>0, <1>1, JoinSearch DEF Search
  <1>2. ASSUME NEW p \in Players,
               LoadToLeave(p) \/ Continue(p) \/ ExpireEntry(p) \/ Crash(p)
        PROVE  Search'
    <2>1. Others(p) /\ Moves(p)
      BY <1>2, StepsMove
    <2>2. CASE DeleteBoth(p)
      BY <1>0, <2>2, DeleteSearch DEF Search
    <2>3. CASE CreateGame(p)
      <3>1. GamesDiffer' /\ (\A t : IsSpent(t)' => IsSpent(t)) /\ entry' = entry
        BY <2>3, CreateSearch DEF CreateGame, redis
      <3>2. Unspent'
        BY <2>1, <3>1, UnspentBy DEF Search
      <3> QED BY <1>0, <3>1, <3>2 DEF Search
    <2>4. CASE ~DeleteBoth(p) /\ ~CreateGame(p)
      <3>1. games' = games /\ tickets' = tickets
        BY ZenonT(30), <1>2, <2>4
           DEF LoadToLeave, ExpireEntry, Crash, Continue, SetEntry, AddToQueue, LeaveQueue,
               DeleteOwnEntry, LoadToMatch, AcquireLock, Reload, ListCandidates, Examine,
               DropStaleMember, Choose, DequeueBoth, ReleaseLock, counters
      <3>2. ASSUME NEW r \in Players
            PROVE  entry'[r] \in {entry[r], NoEntry} \/ (r = p /\ SetEntry(p))
        <4>1. CASE SetEntry(p)
          BY <4>1 DEF SetEntry, Typed, Store
        <4>2. CASE DeleteOwnEntry(p) \/ ExpireEntry(p)
          BY <4>2 DEF DeleteOwnEntry, ExpireEntry, Typed, Store
        <4>3. CASE entry' = entry
          BY <4>3
        <4> QED
          BY ZenonT(30), <1>2, <2>4, <4>1, <4>2, <4>3
             DEF LoadToLeave, Crash, Continue, AddToQueue, LeaveQueue, LoadToMatch,
                 AcquireLock, Reload, ListCandidates, Examine, DropStaleMember, Choose,
                 DequeueBoth, ReleaseLock, redis
      <3>3. Won(p)' => Won(p) /\ Claims(p)' = Claims(p)
        <4>1. pc[p] = "reload" => job[p].best = NoBody
          BY Before DEF Facts, Picking
        <4> QED BY <2>1, <2>4, <4>1 DEF Moves, Ends, Turns, SameJob, Won, Claims
      <3>4. \A r \in Players : Won(r)' => Won(r) /\ Claims(r)' = Claims(r)
        BY <2>1, <3>3 DEF Others, Won, Claims
      <3>5. ASSUME NEW t, IsSpent(t)'
            PROVE  IsSpent(t)
        BY <3>1, <3>4, <3>5 DEF IsSpent
      <3>6. GamesDiffer'
        BY <3>1, <3>4 DEF Search, GamesDiffer, EntryMakesOneGame
      <3>7. Unspent'
        BY <2>1, <3>2, <3>5, UnspentBy DEF Search
      <3> QED BY <1>0, <3>6, <3>7 DEF Search
    <2> QED BY <2>2, <2>3, <2>4
  <1>3. ASSUME NEW tc \in TimeControls, ExpireLock(tc)
        PROVE  Search'
    <2>1. UNCHANGED <<entry, games, tickets, pc, job>>
      BY <1>3 DEF ExpireLock, counters
    <2> QED BY <1>0, <2>1 DEF Search, GamesDiffer, EntryMakesOneGame, Unspent, IsSpent, Won, Claims
  <1>4. ASSUME NEW tc \in TimeControls, ExpireLockOfSlowHandler(tc)
        PROVE  FALSE
    BY <1>4, MatchmakingAssumption DEF ExpireLockOfSlowHandler, Typed, Counted
  <1> QED BY <1>1, <1>2, <1>3, <1>4 DEF Next

-----------------------------------------------------------------------------
(* The inductive invariant: every ticket has its player and pool, and while *)
(* no handler has stalled the three layers hold.                           *)
IInv == Typed /\ \E owner, tcOf : Named(owner, tcOf) /\ (stalls = 0 => Search)

LEMMA InitIInv ==
    ASSUME Init
    PROVE  IInv
  <1>1. Typed
    BY NoJobType, MatchmakingAssumption
       DEF Init, Typed, Store, Counted, Control, Awaits
  <1> DEFINE owner == [t \in Tickets |-> NoBody]
             tcOf == [t \in Tickets |-> "none"]
  <1>2. Named(owner, tcOf)
    BY DEF Init, Named, Facts, NoJob, Joining, Loaded
  <1>3. Search
    BY DEF Init, Search, Locked, IsSearching, GamesDiffer, EntryMakesOneGame, Unspent,
           IsSpent, Won, Loaded
  <1> HIDE DEF owner, tcOf
  <1> QED BY <1>1, <1>2, <1>3 DEF IInv

LEMMA NextIInv ==
    ASSUME IInv, [Next]_vars
    PROVE  IInv'
  <1> PICK owner, tcOf : Named(owner, tcOf) /\ (stalls = 0 => Search)
    BY DEF IInv
  <1> Typed
    BY DEF IInv
  <1>1. CASE UNCHANGED vars
    BY <1>1
       DEF vars, redis, counters, IInv, Typed, Store, Counted, Control, Named, Search, Locked,
           IsSearching, GamesDiffer, EntryMakesOneGame, Unspent, IsSpent, Won, Claims
  <1>2. CASE Next
    <2>1. Typed' /\ \E o, t : Named(o, t)'
      <3>1. ASSUME NEW p \in Players, NEW tc \in TimeControls, Join(p, tc)
            PROVE  Typed' /\ \E o, t : Named(o, t)'
        BY <3>1, JoinStep
      <3>2. ASSUME NEW p \in Players,
                   LoadToLeave(p) \/ Continue(p) \/ ExpireEntry(p) \/ Crash(p)
            PROVE  Typed' /\ Named(owner, tcOf)'
        BY <3>2, WriteSteps, LockSteps, SearchSteps, CandidateSteps, CreateStep, OtherSteps
           DEF Continue
      <3>3. ASSUME NEW tc \in TimeControls, ExpireLock(tc) \/ ExpireLockOfSlowHandler(tc)
            PROVE  Typed' /\ Named(owner, tcOf)'
        BY <3>3, ExpiryStep
      <3> QED BY <1>2, <3>1, <3>2, <3>3 DEF Next
    <2>2. ASSUME stalls' = 0
          PROVE  Search'
      <3>1. stalls \in Nat
        BY MatchmakingAssumption DEF Typed, Counted
      <3>2. ASSUME NEW tc \in TimeControls, ExpireLockOfSlowHandler(tc)
            PROVE  FALSE
        BY <2>2, <3>1, <3>2 DEF ExpireLockOfSlowHandler
      <3>3. ASSUME NEW p \in Players, Continue(p)
            PROVE  stalls' = stalls
        BY ZenonT(30), <3>3
           DEF Continue, SetEntry, AddToQueue, LeaveQueue, DeleteOwnEntry, LoadToMatch,
               AcquireLock, Reload, ListCandidates, Examine, DropStaleMember, Choose,
               DequeueBoth, DeleteBoth, ReleaseLock, CreateGame, counters
      <3>4. stalls = 0 /\ stalls' = stalls
        BY ZenonT(30), <1>2, <2>2, <3>2, <3>3
           DEF Next, Join, LoadToLeave, ExpireEntry, Crash, ExpireLock, counters
      <3> QED BY <1>2, <3>4, SearchStep
    <2> QED BY <2>1, <2>2 DEF IInv
  <1> QED BY <1>1, <1>2

(* Every variable has its type.                                            *)
THEOREM TypeCorrect == Spec => []TypeOK
  <1>1. IInv => TypeOK
    BY DEF IInv, Typed, Store, Counted, Control, TypeOK
  <1> QED BY <1>1, InitIInv, NextIInv, PTL DEF Spec

(* No queue entry makes two games unless a lock expires under a handler    *)
(* that still searches (try_match in matchmaking/application/services.py). *)
THEOREM OneGamePerEntry == Spec => []EntryMakesOneGameUnlessStalled
  <1>1. IInv => EntryMakesOneGameUnlessStalled
    BY DEF IInv, Search, GamesDiffer, EntryMakesOneGameUnlessStalled
  <1> QED BY <1>1, InitIInv, NextIInv, PTL DEF Spec

(* Whoever holds a pool's lock keeps it until it releases it or the TTL    *)
(* runs out (the script in _release_lock of the same file).               *)
THEOREM OnlyTheOwnerReleases == Spec => OnlyOwnerReleases
  <1> DEFINE Step ==
        \A tc \in TimeControls :
            lock[tc] # 0 /\ lock'[tc] # lock[tc] =>
                \/ \E p \in Players :
                    /\ pc[p] = "release" /\ job[p].tc = tc /\ job[p].ticket = lock[tc]
                \/ stalls' # stalls
                \/ ~HolderIsAlive(tc)
  <1>1. ASSUME Typed, Next, NEW tc \in TimeControls, lock[tc] # 0, lock'[tc] # lock[tc]
        PROVE  \/ \E p \in Players :
                    /\ pc[p] = "release" /\ job[p].tc = tc /\ job[p].ticket = lock[tc]
               \/ stalls' # stalls
               \/ ~HolderIsAlive(tc)
    <2>1. ASSUME NEW p \in Players, AcquireLock(p)
          PROVE  FALSE
      BY <1>1, <2>1 DEF AcquireLock, Typed, Store
    <2>2. ASSUME NEW p \in Players, ReleaseLock(p)
          PROVE  pc[p] = "release" /\ job[p].tc = tc /\ job[p].ticket = lock[tc]
      BY <1>1, <2>2 DEF ReleaseLock, Typed, Store
    <2>3. ASSUME NEW c \in TimeControls, ExpireLock(c)
          PROVE  ~HolderIsAlive(tc)
      BY <1>1, <2>3 DEF ExpireLock, Typed, Store
    <2>4. ASSUME NEW c \in TimeControls, ExpireLockOfSlowHandler(c)
          PROVE  stalls' # stalls
      BY <1>1, <2>4, MatchmakingAssumption DEF ExpireLockOfSlowHandler, Typed, Counted
    <2>5. CASE lock' = lock
      BY <1>1, <2>5
    <2> QED
      BY ZenonT(30), <1>1, <2>1, <2>2, <2>3, <2>4, <2>5
         DEF Next, Join, LoadToLeave, ExpireEntry, Crash, Continue, SetEntry, AddToQueue,
             LeaveQueue, DeleteOwnEntry, LoadToMatch, Reload, ListCandidates, Examine,
             DropStaleMember, Choose, DequeueBoth, DeleteBoth, CreateGame, redis
  <1>2. IInv /\ [Next]_vars => [Step]_vars
    BY <1>1 DEF IInv
  <1> QED BY <1>2, InitIInv, NextIInv, PTL DEF Spec, OnlyOwnerReleases
=============================================================================
