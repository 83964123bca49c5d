------------------------- MODULE Connections_proofs -------------------------
(***************************************************************************)
(* Proofs about the sockets of one player, for any number of sockets, of   *)
(* instances and of crashes.                                               *)
(***************************************************************************)
EXTENDS Connections, TLAPS

\* A coroutine that has seen its connection end never has it back.
LeavesDead ==
    \A s \in Sockets : endpoint[s] \in {"pause", "disconnect"} => ~alive[s]

CInv == TypeOK /\ LeavesDead

-----------------------------------------------------------------------------
\* A presence is written for a socket of an instance: it is none.
LEMMA HSetTyped ==
    ASSUME TypeOK, NEW i \in Instances, NEW s \in Sockets, HSet(i, s)
    PROVE  /\ presence' \in [instance : Instances, connection : Sockets] \cup {NoPresence}
           /\ expires' \in BOOLEAN /\ (expires' => presence' # NoPresence)
<1>1. presence' = [instance |-> i, connection |-> s]  BY DEF HSet
<1>2. presence'.connection = s  BY <1>1
<1>3. NoPresence.connection = "none"  BY DEF NoPresence, None
<1>4. presence' # NoPresence  BY <1>2, <1>3, ConnectionsAssumption
<1> QED  BY <1>1, <1>4 DEF HSet, TypeOK

\* The TTL changes nothing but whether there is one.
LEMMA ExpireTyped ==
    ASSUME TypeOK, Expire
    PROVE  /\ presence' \in [instance : Instances, connection : Sockets] \cup {NoPresence}
           /\ expires' \in BOOLEAN /\ (expires' => presence' # NoPresence)
BY DEF TypeOK, Expire

\* ConnectionManager.disconnect up to its first await keeps the maps' types.
LEMMA ForgetTyped ==
    ASSUME TypeOK, NEW s \in Sockets, Forget(s)
    PROVE  /\ active' \in [Instances -> Sockets \cup {None}]
           /\ userGame' \in [Instances -> BOOLEAN]
           /\ removal' \in [Sockets -> {"no", "presence", "presence_and_room", "room"}]
<1>1. CASE active[home[s]] = s  BY <1>1 DEF TypeOK, Forget
<1>2. CASE active[home[s]] # s  BY <1>2 DEF TypeOK, Forget
<1> QED  BY <1>1, <1>2

LEMMA InitCInv == Init => CInv
<1> SUFFICES ASSUME Init PROVE CInv  OBVIOUS
<1>1. crashes \in 0..MaxCrashes  BY ConnectionsAssumption DEF Init
<1>2. endpoint \in [Sockets -> Awaits] /\ LeavesDead  BY DEF Init, Awaits, LeavesDead
<1> QED  BY <1>1, <1>2 DEF Init, CInv, TypeOK

\* Each step keeps the types and leaves a closing socket dead.
LEMMA NextCInv == CInv /\ [Next]_vars => CInv'
<1> SUFFICES ASSUME CInv, [Next]_vars PROVE CInv'  OBVIOUS
<1> USE DEF CInv, record
<1>t. TypeOK /\ LeavesDead  OBVIOUS
<1>1. ASSUME NEW s \in Sockets, Accept(s) PROVE CInv'
  BY <1>t, <1>1 DEF Accept, Goto, TypeOK, LeavesDead, Awaits
<1>2. ASSUME NEW s \in Sockets, Close(s) PROVE CInv'
  BY <1>t, <1>2 DEF Close, TypeOK, LeavesDead
<1>3. ASSUME NEW s \in Sockets, FailedSend(s) PROVE CInv'
  <2>1. Forget(s)  BY <1>3 DEF FailedSend
  <2>2. UNCHANGED <<endpoint, home, alive, beat, presence, expires, member, paused, crashes>>
    BY <1>3 DEF FailedSend
  <2> QED  BY <1>t, <2>1, <2>2, ForgetTyped DEF TypeOK, LeavesDead
<1>4. ASSUME NEW s \in Sockets, Register(s) PROVE CInv'
  BY <1>t, <1>4 DEF Register, Goto, TypeOK, LeavesDead, Awaits
<1>5. ASSUME NEW s \in Sockets, WritePresence(s) PROVE CInv'
  <2>1. HSet(home[s], s) /\ home[s] \in Instances  BY <1>t, <1>5 DEF WritePresence, TypeOK
  <2> QED  BY <1>t, <1>5, <2>1, HSetTyped DEF WritePresence, Goto, TypeOK, LeavesDead, Awaits
<1>6. ASSUME NEW s \in Sockets, SetTtl(s) PROVE CInv'
  <2>1. Expire  BY <1>6 DEF SetTtl
  <2> QED  BY <1>t, <1>6, <2>1, ExpireTyped DEF SetTtl, Goto, TypeOK, LeavesDead, Awaits
<1>7. ASSUME NEW s \in Sockets, JoinRoom(s) PROVE CInv'
  BY <1>t, <1>7 DEF JoinRoom, Goto, TypeOK, LeavesDead, Awaits
<1>8. ASSUME NEW s \in Sockets, AnnounceRoom(s) PROVE CInv'
  <2>1. CASE active[home[s]] = None
    BY <1>t, <1>8, <2>1 DEF AnnounceRoom, Goto, TypeOK, LeavesDead, Awaits
  <2>2. CASE active[home[s]] # None
    <3>1. /\ HSet(home[s], active[home[s]])
          /\ home[s] \in Instances /\ active[home[s]] \in Sockets
      BY <1>t, <1>8, <2>2 DEF AnnounceRoom, TypeOK
    <3> QED
      BY <1>t, <1>8, <2>2, <3>1, HSetTyped
      DEF AnnounceRoom, Goto, TypeOK, LeavesDead, Awaits
  <2> QED  BY <2>1, <2>2
<1>9. ASSUME NEW s \in Sockets, MarkReconnected(s) PROVE CInv'
  BY <1>t, <1>9 DEF MarkReconnected, Goto, TypeOK, LeavesDead, Awaits
<1>10. ASSUME NEW s \in Sockets, Notice(s) PROVE CInv'
  BY <1>t, <1>10 DEF Notice, Goto, TypeOK, LeavesDead, Awaits
<1>11. ASSUME NEW s \in Sockets, MarkDisconnected(s) PROVE CInv'
  BY <1>t, <1>11 DEF MarkDisconnected, Goto, TypeOK, LeavesDead, Awaits
<1>12. ASSUME NEW s \in Sockets, Disconnect(s) PROVE CInv'
  <2>1. Forget(s)  BY <1>12 DEF Disconnect
  <2> QED
    BY <1>t, <1>12, <2>1, ForgetTyped DEF Disconnect, Goto, TypeOK, LeavesDead, Awaits
<1>13. ASSUME NEW s \in Sockets, DeletePresence(s) PROVE CInv'
  BY <1>t, <1>13 DEF DeletePresence, TypeOK, LeavesDead
<1>14. ASSUME NEW s \in Sockets, LeaveRoom(s) PROVE CInv'
  BY <1>t, <1>14 DEF LeaveRoom, TypeOK, LeavesDead
<1>15. ASSUME NEW i \in Instances, StartHeartbeat(i) PROVE CInv'
  BY <1>t, <1>15 DEF StartHeartbeat, TypeOK, LeavesDead
<1>16. ASSUME NEW i \in Instances, RefreshPresence(i) PROVE CInv'
  <2>1. HSet(i, beat[i]) /\ beat[i] \in Sockets  BY <1>16 DEF RefreshPresence
  <2> QED  BY <1>t, <1>16, <2>1, HSetTyped DEF RefreshPresence, TypeOK, LeavesDead
<1>17. ASSUME NEW i \in Instances, RefreshTtl(i) PROVE CInv'
  <2>1. Expire  BY <1>17 DEF RefreshTtl
  <2> QED  BY <1>t, <1>17, <2>1, ExpireTyped DEF RefreshTtl, TypeOK, LeavesDead
<1>18. ASSUME ExpirePresence PROVE CInv'
  BY <1>t, <1>18 DEF ExpirePresence, TypeOK, LeavesDead
<1>19. ASSUME NEW i \in Instances, Crash(i) PROVE CInv'
  <2>1. /\ endpoint' \in [Sockets -> Awaits] /\ alive' \in [Sockets -> BOOLEAN]
        /\ LeavesDead'
    BY <1>t, <1>19 DEF Crash, TypeOK, LeavesDead, Awaits
  <2>2. crashes' \in 0..MaxCrashes
    BY <1>t, <1>19, ConnectionsAssumption DEF Crash, TypeOK
  <2> QED  BY <1>t, <1>19, <2>1, <2>2 DEF Crash, TypeOK
<1>20. ASSUME UNCHANGED vars PROVE CInv'
  BY <1>t, <1>20 DEF vars, TypeOK, LeavesDead
<1> QED
  BY <1>1, <1>2, <1>3, <1>4, <1>5, <1>6, <1>7, <1>8, <1>9, <1>10, <1>11, <1>12,
     <1>13, <1>14, <1>15, <1>16, <1>17, <1>18, <1>19, <1>20
  DEF Next, Run, Heartbeat

-----------------------------------------------------------------------------
\* The maps, the records and the await of every endpoint keep their types, for
\* any number of sockets, instances and crashes.
THEOREM TypeCorrect == Spec => []TypeOK
<1>1. CInv => TypeOK  BY DEF CInv
<1> QED  BY InitCInv, NextCInv, <1>1, PTL DEF Spec

-----------------------------------------------------------------------------
\* What may happen to an instance's place for the player in one step.
PlaceKept ==
    \A i \in Instances :
        /\ active[i] # None
        /\ alive[active[i]]
        /\ active'[i] # active[i]
        => \/ active'[i] # None /\ endpoint[active'[i]] = "connect"
           \/ crashes' # crashes

\* A dead socket that is forgotten gives up no working socket's place.
LEMMA ForgetKeepsPlaces ==
    ASSUME TypeOK, NEW s \in Sockets, ~alive[s], Forget(s)
    PROVE  PlaceKept
<1>1. CASE active[home[s]] = s  BY <1>1 DEF TypeOK, Forget, PlaceKept
<1>2. CASE active[home[s]] # s  BY <1>2 DEF TypeOK, Forget, PlaceKept
<1> QED  BY <1>1, <1>2

\* Only connect, disconnect, a failed send and a crash touch the place, and a
\* disconnect or a failed send is of a socket that is dead.
LEMMA StepKeepsPlaces == CInv /\ [Next]_vars => PlaceKept
<1> SUFFICES ASSUME CInv, [Next]_vars PROVE PlaceKept  OBVIOUS
<1>t. TypeOK /\ LeavesDead  BY DEF CInv
<1>1. ASSUME NEW s \in Sockets, Register(s) PROVE PlaceKept
  BY <1>t, <1>1, ConnectionsAssumption DEF Register, TypeOK, PlaceKept, None
<1>2. ASSUME NEW s \in Sockets, Disconnect(s) PROVE PlaceKept
  <2>1. ~alive[s]  BY <1>t, <1>2 DEF Disconnect, LeavesDead
  <2> QED  BY <1>t, <1>2, <2>1, ForgetKeepsPlaces DEF Disconnect
<1>3. ASSUME NEW s \in Sockets, FailedSend(s) PROVE PlaceKept
  BY <1>t, <1>3, ForgetKeepsPlaces DEF FailedSend
<1>4. ASSUME NEW i \in Instances, Crash(i) PROVE PlaceKept
  BY <1>t, <1>4, ConnectionsAssumption DEF Crash, TypeOK, PlaceKept
<1>5. ASSUME active' = active PROVE PlaceKept  BY <1>5 DEF PlaceKept
<1>6. ASSUME NEW s \in Sockets,
             \/ Accept(s) \/ Close(s) \/ WritePresence(s) \/ SetTtl(s) \/ JoinRoom(s)
             \/ AnnounceRoom(s) \/ MarkReconnected(s) \/ Notice(s) \/ MarkDisconnected(s)
             \/ DeletePresence(s) \/ LeaveRoom(s)
      PROVE active' = active
  BY <1>6 DEF Accept, Close, WritePresence, SetTtl, JoinRoom, AnnounceRoom,
              MarkReconnected, Notice, MarkDisconnected, DeletePresence, LeaveRoom
<1>7. ASSUME \/ \E i \in Instances : Heartbeat(i)
             \/ ExpirePresence \/ UNCHANGED vars
      PROVE active' = active
  BY <1>7 DEF Heartbeat, StartHeartbeat, RefreshPresence, RefreshTtl, ExpirePresence, vars
<1> QED  BY <1>1, <1>2, <1>3, <1>4, <1>5, <1>6, <1>7 DEF Next, Run

\* A working socket is never evicted but by a newer socket of its player or by
\* the death of its instance, however late the disconnect of a replaced socket
\* and however many sockets, instances and failed sends there are.
THEOREM PlaceIsKept == Spec => WorkingSocketKeepsItsPlace
<1>1. CInv /\ [Next]_vars => [PlaceKept]_vars  BY StepKeepsPlaces
<1> QED
  BY InitCInv, NextCInv, <1>1, PTL DEF Spec, WorkingSocketKeepsItsPlace, PlaceKept
=============================================================================
