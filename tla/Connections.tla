---------------------------- MODULE Connections ----------------------------
(***************************************************************************)
(* The sockets of one player of an active game: ws_endpoint, one coroutine *)
(* per socket, and the ConnectionManager of each backend instance, with    *)
(* the presence record and the room they share in Redis.  A coroutine      *)
(* gives up control at every await; what it does between two awaits is one *)
(* step, together with the Redis command it then waits for; the HSET of a  *)
(* presence and the EXPIRE of its key are two steps.                       *)
(*                                                                         *)
(* Abstractions.  active_connections and connection_ids are assigned and   *)
(* popped together, and a connection id is as unique as its socket: one    *)
(* variable stands for both.  Of the game row only whether it waits for    *)
(* this player matters; its transactions are one step (GameStore has them  *)
(* in full), and the game stays active.  The local room sets, which only   *)
(* drive the refresh of a TTL of hours, that TTL, the user_game key, which *)
(* nothing reads, and the game_id field of the presence are left out.      *)
(***************************************************************************)
EXTENDS Integers, FiniteSets

CONSTANTS
    Sockets,        \* every socket the player ever opens
    Instances,      \* backend instances
    MaxCrashes      \* bound on the instances that die

ASSUME ConnectionsAssumption == MaxCrashes \in Nat /\ "none" \notin Sockets

VARIABLES
    endpoint,   \* the await each ws_endpoint is suspended at
    home,       \* the instance a socket is open on
    alive,      \* whether the connection under it still works
    active,     \* active_connections[user] of each instance
    userGame,   \* whether user_game[user] of each instance is set
    removal,    \* where ConnectionManager.disconnect is for each socket
    beat,       \* the connection each heartbeat is about to refresh
    presence,   \* presence:user:<user>
    expires,    \* whether its key has a TTL
    member,     \* the user is in room:<game>:users
    paused,     \* the game's disconnected_player_id is the user
    crashes

record == <<presence, expires>>

vars == <<endpoint, home, alive, active, userGame, removal, beat, presence,
          expires, member, paused, crashes>>

None == "none"
NoPresence == [instance |-> None, connection |-> None]

Init ==
    /\ endpoint = [s \in Sockets |-> "new"]
    /\ home \in [Sockets -> Instances]
    /\ alive = [s \in Sockets |-> FALSE]
    /\ active = [i \in Instances |-> None]
    /\ userGame = [i \in Instances |-> FALSE]
    /\ removal = [s \in Sockets |-> "no"]
    /\ beat = [i \in Instances |-> None]
    /\ presence = NoPresence
    /\ expires = FALSE
    /\ member = FALSE
    /\ paused \in BOOLEAN
    /\ crashes = 0

-----------------------------------------------------------------------------
\* HSET: the TTL of a key that exists stays, a new key has none.
HSet(i, s) ==
    /\ presence' = [instance |-> i, connection |-> s]
    /\ UNCHANGED expires

\* EXPIRE does nothing to a key that is gone.
Expire ==
    /\ expires' = (presence # NoPresence)
    /\ UNCHANGED presence

Goto(s, label) == endpoint' = [endpoint EXCEPT ![s] = label]

(* The preamble of ws_endpoint. *)

Accept(s) ==
    /\ endpoint[s] = "new"
    /\ alive' = [alive EXCEPT ![s] = TRUE]
    /\ Goto(s, "connect")
    /\ UNCHANGED <<home, active, userGame, removal, beat,
                   record, member, paused, crashes>>

\* manager.connect takes the place of the previous socket and closes that one.
Register(s) ==
    /\ endpoint[s] = "connect"
    /\ active' = [active EXCEPT ![home[s]] = s]
    /\ alive' = [t \in Sockets |-> alive[t] /\ t # active[home[s]]]
    /\ Goto(s, "presence")
    /\ UNCHANGED <<home, userGame, removal, beat, record, member, paused, crashes>>

WritePresence(s) ==
    /\ endpoint[s] = "presence"
    /\ HSet(home[s], s)
    /\ Goto(s, "presence_ttl")
    /\ UNCHANGED <<home, alive, active, userGame, removal,
                   beat, member, paused, crashes>>

SetTtl(s) ==
    /\ endpoint[s] \in {"presence_ttl", "announce_ttl"}
    /\ Expire
    /\ Goto(s, IF endpoint[s] = "presence_ttl" THEN "restore" ELSE "resume")
    /\ UNCHANGED <<home, alive, active, userGame, removal,
                   beat, member, paused, crashes>>

\* _restore_active_room_membership: the active game's room is joined ...
JoinRoom(s) ==
    /\ endpoint[s] = "restore"
    /\ userGame' = [userGame EXCEPT ![home[s]] = TRUE]
    /\ member' = TRUE
    /\ Goto(s, "announce")
    /\ UNCHANGED <<home, alive, active, removal, beat, record, paused, crashes>>

\* ... and noted in the presence of whatever connection is current by then.
AnnounceRoom(s) ==
    /\ endpoint[s] = "announce"
    /\ IF active[home[s]] = None
       THEN Goto(s, "resume") /\ UNCHANGED record
       ELSE Goto(s, "announce_ttl") /\ HSet(home[s], active[home[s]])
    /\ UNCHANGED <<home, alive, active, userGame, removal,
                   beat, member, paused, crashes>>

MarkReconnected(s) ==
    /\ endpoint[s] = "resume"
    /\ paused' = FALSE
    /\ Goto(s, "open")
    /\ UNCHANGED <<home, alive, active, userGame, removal,
                   beat, record, member, crashes>>

-----------------------------------------------------------------------------
(* The end of a socket. *)

\* The client leaves, or its network does.
Close(s) ==
    /\ alive[s]
    /\ alive' = [alive EXCEPT ![s] = FALSE]
    /\ UNCHANGED <<endpoint, home, active, userGame, removal, beat,
                   record, member, paused, crashes>>

\* receive_text raises; the finally clause asks once whether this socket is the
\* current one of this instance, and then leaves the queue.
Notice(s) ==
    /\ endpoint[s] = "open"
    /\ ~alive[s]
    /\ Goto(s, IF active[home[s]] = s THEN "pause" ELSE "disconnect")
    /\ UNCHANGED <<home, alive, active, userGame, removal, beat,
                   record, member, paused, crashes>>

MarkDisconnected(s) ==
    /\ endpoint[s] = "pause"
    /\ paused' = TRUE
    /\ Goto(s, "disconnect")
    /\ UNCHANGED <<home, alive, active, userGame, removal,
                   beat, record, member, crashes>>

\* ConnectionManager.disconnect up to its first await: nothing for a socket that
\* is not the current one any more.
Forget(s) ==
    IF active[home[s]] = s
    THEN /\ active' = [active EXCEPT ![home[s]] = None]
         /\ userGame' = [userGame EXCEPT ![home[s]] = FALSE]
         /\ removal' = [removal EXCEPT
                ![s] = IF userGame[home[s]] THEN "presence_and_room" ELSE "presence"]
    ELSE UNCHANGED <<active, userGame, removal>>

\* Mutant: whatever socket is current is forgotten.
DisconnectAny(s) ==
    /\ endpoint[s] = "disconnect"
    /\ active' = [active EXCEPT ![home[s]] = None]
    /\ userGame' = [userGame EXCEPT ![home[s]] = FALSE]
    /\ removal' = [removal EXCEPT
           ![s] = IF userGame[home[s]] THEN "presence_and_room" ELSE "presence"]
    /\ Goto(s, "closed")
    /\ UNCHANGED <<home, alive, beat, record, member, paused, crashes>>

Disconnect(s) ==
    /\ endpoint[s] = "disconnect"
    /\ Forget(s)
    /\ Goto(s, "closed")
    /\ UNCHANGED <<home, alive, beat, record, member, paused, crashes>>

\* _deliver_local finds the socket dead before its endpoint does.
FailedSend(s) ==
    /\ endpoint[s] \notin {"new", "closed"}
    /\ ~alive[s]
    /\ active[home[s]] = s
    /\ Forget(s)
    /\ UNCHANGED <<endpoint, home, alive, beat, record, member, paused, crashes>>

\* The Lua script deletes the presence only of this connection.
DeletePresence(s) ==
    /\ removal[s] \in {"presence", "presence_and_room"}
    /\ IF presence.connection = s
       THEN presence' = NoPresence /\ expires' = FALSE
       ELSE UNCHANGED record
    /\ removal' = [removal EXCEPT ![s] = IF @ = "presence" THEN "no" ELSE "room"]
    /\ UNCHANGED <<endpoint, home, alive, active, userGame,
                   beat, member, paused, crashes>>

LeaveRoom(s) ==
    /\ removal[s] = "room"
    /\ member' = FALSE
    /\ removal' = [removal EXCEPT ![s] = "no"]
    /\ UNCHANGED <<endpoint, home, alive, active, userGame,
                   beat, record, paused, crashes>>

-----------------------------------------------------------------------------
(* The heartbeat of each instance, the TTL of a presence, and crashes. *)

\* heartbeat_once goes through a copy of connection_ids.
StartHeartbeat(i) ==
    /\ beat[i] = None
    /\ active[i] # None
    /\ beat' = [beat EXCEPT ![i] = active[i]]
    /\ UNCHANGED <<endpoint, home, alive, active, userGame, removal,
                   record, member, paused, crashes>>

\* Mutant: the heartbeat refreshes the TTL of the record and nothing else.
RefreshTtlOnly(i) ==
    /\ beat[i] \in Sockets
    /\ beat' = [beat EXCEPT ![i] = "ttl"]
    /\ UNCHANGED <<endpoint, home, alive, active, userGame, removal,
                   record, member, paused, crashes>>

RefreshPresence(i) ==
    /\ beat[i] \in Sockets
    /\ HSet(i, beat[i])
    /\ beat' = [beat EXCEPT ![i] = "ttl"]
    /\ UNCHANGED <<endpoint, home, alive, active, userGame,
                   removal, member, paused, crashes>>

RefreshTtl(i) ==
    /\ beat[i] = "ttl"
    /\ Expire
    /\ beat' = [beat EXCEPT ![i] = None]
    /\ UNCHANGED <<endpoint, home, alive, active, userGame,
                   removal, member, paused, crashes>>

\* Mutant: the record is written without a TTL.
NeverExpire == FALSE /\ UNCHANGED vars

\* A record that no heartbeat refreshes any more.
ExpirePresence ==
    /\ expires
    /\ active[presence.instance] = None
    /\ presence' = NoPresence
    /\ expires' = FALSE
    /\ UNCHANGED <<endpoint, home, alive, active, userGame, removal,
                   beat, member, paused, crashes>>

\* No finally clause runs for the sockets of an instance that dies.
Crash(i) ==
    /\ crashes < MaxCrashes
    /\ crashes' = crashes + 1
    /\ endpoint' = [s \in Sockets |->
            IF home[s] = i /\ endpoint[s] # "new" THEN "closed" ELSE endpoint[s]]
    /\ alive' = [s \in Sockets |-> alive[s] /\ home[s] # i]
    /\ removal' = [s \in Sockets |-> IF home[s] = i THEN "no" ELSE removal[s]]
    /\ active' = [active EXCEPT ![i] = None]
    /\ userGame' = [userGame EXCEPT ![i] = FALSE]
    /\ beat' = [beat EXCEPT ![i] = None]
    /\ UNCHANGED <<home, record, member, paused>>

-----------------------------------------------------------------------------
Run(s) ==
    \/ Register(s) \/ WritePresence(s) \/ SetTtl(s) \/ JoinRoom(s)
    \/ AnnounceRoom(s) \/ MarkReconnected(s)
    \/ Notice(s) \/ MarkDisconnected(s) \/ Disconnect(s)
    \/ DeletePresence(s) \/ LeaveRoom(s)

Heartbeat(i) == StartHeartbeat(i) \/ RefreshPresence(i) \/ RefreshTtl(i)

Next ==
    \/ \E s \in Sockets : Accept(s) \/ Close(s) \/ FailedSend(s) \/ Run(s)
    \/ \E i \in Instances : Heartbeat(i) \/ Crash(i)
    \/ ExpirePresence

Spec == Init /\ [][Next]_vars

\* Every coroutine goes on, every instance keeps beating, every TTL runs out.
FairSpec ==
    /\ Spec
    /\ \A s \in Sockets : WF_vars(Run(s))
    /\ \A i \in Instances : WF_vars(Heartbeat(i))
    /\ WF_vars(ExpirePresence)

-----------------------------------------------------------------------------
(* Properties. *)

Awaits == {"new", "connect", "presence", "presence_ttl", "restore", "announce",
           "announce_ttl", "resume", "open", "pause", "disconnect", "closed"}

TypeOK ==
    /\ endpoint \in [Sockets -> Awaits]
    /\ home \in [Sockets -> Instances]
    /\ alive \in [Sockets -> BOOLEAN]
    /\ active \in [Instances -> Sockets \cup {None}]
    /\ userGame \in [Instances -> BOOLEAN]
    /\ removal \in [Sockets -> {"no", "presence", "presence_and_room", "room"}]
    /\ beat \in [Instances -> Sockets \cup {"ttl", None}]
    /\ presence \in [instance : Instances, connection : Sockets] \cup {NoPresence}
    /\ expires \in BOOLEAN /\ (expires => presence # NoPresence)
    /\ member \in BOOLEAN /\ paused \in BOOLEAN /\ crashes \in 0..MaxCrashes

\* No coroutine is under way for any socket but those that are open and working.
Settled ==
    \A s \in Sockets :
        /\ endpoint[s] \in {"new", "closed"} \/ (endpoint[s] = "open" /\ alive[s])
        /\ removal[s] = "no"

IsConnected(s) == endpoint[s] = "open" /\ alive[s] /\ active[home[s]] = s

\* The only socket of the player, or none of them, is connected.
OnlyConnected(s) ==
    Settled /\ IsConnected(s) /\ \A t \in Sockets \ {s} : endpoint[t] # "open"
Nobody == Settled /\ \A s \in Sockets : endpoint[s] # "open"

\* A working socket keeps its place until another socket of the player takes it
\* or its instance dies: the disconnect of a replaced socket, however late, does
\* not evict the new one (test_replaced_connection_keeps_new_socket_as_current).
WorkingSocketKeepsItsPlace ==
    [][\A i \in Instances :
        /\ active[i] # None
        /\ alive[active[i]]
        /\ active'[i] # active[i]
        => \/ active'[i] # None /\ endpoint[active'[i]] = "connect"
           \/ crashes' # crashes]_vars

\* The presence record settles on the instance and the connection of the player's
\* one remaining socket, whatever stale heartbeats, late disconnects, sockets on
\* other instances and crashes wrote or deleted before: messages find the player.
PresenceFindsTheSocket ==
    \A s \in Sockets :
        <>[]OnlyConnected(s) =>
            <>[](presence = [instance |-> home[s], connection |-> s])

\* The record of a player who is gone does not stay (docs/primitives.md, "Redis
\* still claims the user is present forever"), unless an instance died between
\* the HSET that made the record and its EXPIRE.
NoGhostPresence ==
    <>[]Nobody => <>[](presence = NoPresence \/ (crashes > 0 /\ ~expires))

\* A player who sits connected is not recorded as disconnected, so that the
\* opponent gets no timeout that was never earned (docs/primitives.md, Socket drop
\* state).
ConnectedIsNotPaused == \A s \in Sockets : OnlyConnected(s) => ~paused

\* A player who sits connected is in the room of the game (the comment of
\* _restore_active_room_membership: without this, refresh and reconnect break
\* chat, RTC and room-scoped broadcasts).
ConnectedIsInRoom == \A s \in Sockets : OnlyConnected(s) => member
=============================================================================
